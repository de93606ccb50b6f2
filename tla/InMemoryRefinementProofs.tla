---------------------- MODULE InMemoryRefinementProofs ----------------------
(***************************************************************************)
(* The in-memory engine implements MatchingEngine, for every number of     *)
(* workers and users, every width of the integers and both build profiles, *)
(* as long as the volume sold fits in a u64 (fetch_add on supply wraps in  *)
(* both builds, and a wrapped supply is none of the abstract engine's).    *)
(* The tests of tw_main on it implement the first version of the engine,   *)
(* for every range of their inputs and every number of spawned tasks, and  *)
(* their asserts hold.                                                     *)
(*                                                                         *)
(* RefInv says, for every place in buy_impl and sell_impl, how the data of *)
(* the code has moved away from base, what it was when the lock was taken. *)
(* There is one lemma per action.  The step of retain that meets one bid   *)
(* is spread over NextBid, CompareExchange and PutAllocation; the lemmas   *)
(* MatchFull and MatchPartial of BookTheorems say that it peels the first  *)
(* bid off the match.                                                      *)
(*                                                                         *)
(* SellImplMatches and BuyImplMatches say that the functions of the first  *)
(* version are such matches too; with RefInv, a handler that returns has   *)
(* run its task.  Two unit tests start from a book whose bid has a number  *)
(* that was never handed out, which IInv excludes: SoloHolds follows them  *)
(* place by place.                                                         *)
(*                                                                         *)
(* The asserts rest on three invariants of a test.  OnTrack: tests that    *)
(* make one call after the other are at one of the books that the calls    *)
(* lead to, which are computed bid by bid.  Balance: what the tasks that   *)
(* ran have sold is in the book.  SamePrice: the bids of equal tasks have  *)
(* the numbers 1, 2, ...                                                   *)
(***************************************************************************)
EXTENDS InMemoryTests, InMemoryStorageProofs, SequenceTheorems

\* The volume sold so far fits in a u64.
Fits == offered < Modulus

\* The data is what a match of `total` with `book` makes of base.
Reached(book, total) ==
    /\ bids = OrdersAfter(book, total)
    /\ supply = OfferAfter(book, total)
    /\ allocations = GivenAfter(base.allocations, book, total)

\* The order of the buy that worker w runs.
OrderOf(w) == [user |-> req[w].user, volume |-> req[w].volume,
               price |-> req[w].price, seq |-> base.seq + 1]

\* The bids that retain has yet to meet, the one it is at included, and the
\* supply for them: what a CAS has taken is not given to a bid yet.
ToMeet(w) == IF pc[w] = "next" THEN todo[w] ELSE todo[w] \cup {bid[w]}
OnOffer(w) == IF pc[w] \in {"get", "put"} THEN current[w] ELSE supply

\* A buy before its bid meets the supply: only the number is taken.
BuyUnderWay(w) ==
    /\ base.seq + 1 = buy_seq_no /\ base.supply = OnOffer(w)
    /\ base.bids = bids /\ base.allocations = allocations
    /\ bid[w] = OrderOf(w)
    /\ pc[w] \in {"get", "put"} => bids = {}

\* A sell: the bids that retain is done with are as the sell leaves them, and
\* the others will be when they meet what is on offer.
SellUnderWay(w) ==
    LET total == base.supply + req[w].volume
    IN  /\ base.seq = buy_seq_no
        /\ OrdersAfter(base.bids, total)
             = (bids \ ToMeet(w)) \cup OrdersAfter(ToMeet(w), OnOffer(w))
        /\ OfferAfter(base.bids, total) = OfferAfter(ToMeet(w), OnOffer(w))
        /\ GivenAfter(base.allocations, base.bids, total)
             = GivenAfter(allocations, ToMeet(w), OnOffer(w))
        /\ pc[w] \in {"get", "put"} => bids = ToMeet(w)

\* The handler has only its guard to drop.
Done(w) ==
    /\ req[w].op = "buy" =>
        /\ buy_seq_no = base.seq + 1
        /\ Reached(base.bids \cup {OrderOf(w)}, base.supply)
    /\ req[w].op = "sell" =>
        /\ buy_seq_no = base.seq
        /\ Reached(base.bids, base.supply + req[w].volume)

\* How far worker w is from base.
Progress(w) ==
    /\ pc[w] \in {"bump", "add"} => base = state
    /\ InBuy(w) /\ pc[w] \in {"load"} \cup Filling => BuyUnderWay(w)
    /\ InSell(w) /\ pc[w] \in {"next"} \cup Filling => SellUnderWay(w)
    /\ pc[w] \in {"metrics", "unlock"} => Done(w)

\* A free lock guards what the last handler returned with, and nobody panics.
RefInv ==
    /\ ~poisoned
    /\ holder = NoWorker => base = state
    /\ \A w \in Workers : Progress(w)

-----------------------------------------------------------------------------
\* Labels and tuples of variables are read as what they stand for.
USE DEF At, Goto, Waiting, Filling, InBuy, InSell, shared, lock, ghosts

\* The engine matches by the rule of Matching.
LEMMA EngineRule ==
    \A book, total, some :
        /\ Engine!OrdersAfter(book, total) = OrdersAfter(book, total)
        /\ Engine!OfferAfter(book, total) = OfferAfter(book, total)
        /\ Engine!GivenAfter(some, book, total) = GivenAfter(some, book, total)
<1> SUFFICES ASSUME NEW book, NEW total, NEW some
             PROVE  /\ Engine!OrdersAfter(book, total) = OrdersAfter(book, total)
                    /\ Engine!OfferAfter(book, total) = OfferAfter(book, total)
                    /\ Engine!GivenAfter(some, book, total) = GivenAfter(some, book, total)
  OBVIOUS
<1>1. \A f : Engine!SumFunction(f) = SumFunction(f)
  BY Zenon DEF Engine!SumFunction, Engine!SumFunctionOnSet, Engine!FoldFunctionOnSet,
     Engine!MapThenFoldSet, SumFunction, SumFunctionOnSet, FoldFunctionOnSet, MapThenFoldSet
<1>2. \A o : Engine!Ahead(book, o) = Ahead(book, o)
  BY <1>1, Zenon DEF Engine!Ahead, Ahead, Engine!Wanted, Wanted, Engine!Before, Before
<1>3. Engine!Served(book, total) = Served(book, total)
  BY <1>2 DEF Engine!Served, Served
<1>4. \A o : Engine!Portion(book, total, o) = Portion(book, total, o)
  BY <1>2 DEF Engine!Portion, Portion
<1>5. \A S : Engine!Portions(book, total, S) = Portions(book, total, S)
  <2>1. \A S : [o \in S |-> Engine!Portion(book, total, o)] = [o \in S |-> Portion(book, total, o)]
    BY <1>4
  <2> QED  BY <1>1, <2>1, Zenon DEF Engine!Portions, Portions
<1>6. \A u : Engine!GivenTo(some, u) = GivenTo(some, u)
  BY Zenon DEF Engine!GivenTo, GivenTo
<1>7. Engine!GivenAfter(some, book, total) = GivenAfter(some, book, total)
  BY <1>3, <1>5, <1>6 DEF Engine!GivenAfter, GivenAfter
<1>8. Engine!OrdersAfter(book, total) = OrdersAfter(book, total)
  BY <1>3, <1>4 DEF Engine!OrdersAfter, OrdersAfter
<1>9. Engine!OfferAfter(book, total) = OfferAfter(book, total)
  BY <1>3, <1>5, Zenon DEF Engine!OfferAfter, OfferAfter
<1> QED  BY <1>7, <1>8, <1>9

\* The bids of the code are a book, and its allocations are accounts.
LEMMA BidsAreABook ==
    ASSUME IInv
    PROVE  /\ IsBook(bids, Users) /\ IsAccount(allocations)
           /\ supply \in Nat /\ buy_seq_no \in Nat
           /\ \A S \in SUBSET bids : IsBook(S, Users)
<1>1. \A b \in bids : b \in [user : Users, volume : Nat, price : Int, seq : Nat]
  <2>1. \A b \in Bid : b \in [user : Users, volume : Nat, price : Int, seq : Nat]
    BY BidValues DEF Bid
  <2> QED  BY <2>1 DEF IInv, TypeOK
<1>2. IsFiniteSet(bids) /\ \A b, c \in bids : b.seq = c.seq => b = c
  BY DEF IInv, TypeOK, BookKeys
<1>3. ASSUME NEW S \in SUBSET bids  PROVE IsBook(S, Users)
  <2>1. IsFiniteSet(S)  BY <1>2, FS_Subset
  <2> QED  BY <1>1, <1>2, <2>1 DEF IsBook
<1>4. supply \in Nat /\ buy_seq_no \in Nat  BY Amounts DEF IInv, TypeOK
<1>5. IsAccount(allocations)
  BY U64Values DEF IsAccount, IInv, TypeOK
<1> QED  BY <1>3, <1>4, <1>5

\* The bid of a buy is not in the book yet, and makes a book with it.
LEMMA BidJoinsBook ==
    ASSUME IInv, NEW w \in Workers, InBuy(w), pc[w] \in Filling
    PROVE  IsBook(bids \cup {bid[w]}, Users) /\ IsBook({bid[w]}, Users)
<1>1. /\ bid[w] \in Bid /\ \A b \in bids : b \in Bid /\ b.seq < bid[w].seq
  BY DEF IInv, LockDiscipline, BookKeys, TypeOK
<1>2. \A b \in Bid : /\ b \in [user : Users, volume : Nat, price : Int, seq : Nat]
                     /\ b.seq \in Nat
  BY BidValues DEF Bid
<1>3. IsFiniteSet(bids \cup {bid[w]}) /\ IsFiniteSet({bid[w]})
  BY FS_AddElement, FS_Singleton DEF IInv, TypeOK
<1>4. \A b, c \in bids : b.seq = c.seq => b = c  BY DEF IInv, BookKeys
<1>5. \A b, c \in bids \cup {bid[w]} : b.seq = c.seq => b = c
  BY <1>1, <1>2, <1>4
<1> QED  BY <1>1, <1>2, <1>3, <1>5 DEF IsBook

\* A step after which worker w is past the lock: the others are outside, where
\* they have nothing to do with base.
LEMMA InsideStep ==
    ASSUME IInv', ~poisoned', NEW w \in Workers, pc'[w] \notin {"idle", "lock"},
           Progress(w)'
    PROVE  RefInv'
<1>1. holder' = w /\ holder' # NoWorker
  BY ConstantsAssumption DEF IInv, LockDiscipline
<1>2. \A v \in Workers \ {w} : pc'[v] \in {"idle", "lock"}
  BY <1>1 DEF IInv, LockDiscipline
<1>3. \A v \in Workers \ {w} : Progress(v)'
  BY <1>2 DEF Progress
<1> QED  BY <1>1, <1>3 DEF RefInv

-----------------------------------------------------------------------------
\* buy_impl takes its number.
LEMMA BumpProgress ==
    ASSUME IInv, RefInv, IInv', NEW w \in Workers, Bump(w), base' = base
    PROVE  RefInv'
<1>1. /\ pc'[w] = "load" /\ req' = req /\ req[w].op = "buy"
      /\ buy_seq_no' = buy_seq_no + 1 /\ base = state
      /\ bid'[w] = [user |-> req[w].user, volume |-> req[w].volume,
                    price |-> req[w].price, seq |-> buy_seq_no + 1]
      /\ UNCHANGED <<supply, allocations, bids, poisoned, base>>
  BY DEF Bump, IInv, TypeOK, LockDiscipline, RefInv, Progress
<1>2. /\ base.seq = buy_seq_no /\ base.supply = supply
      /\ base.allocations = allocations /\ base.bids = bids
  BY <1>1 DEF state
<1>3. BuyUnderWay(w)'
  BY <1>1, <1>2 DEF BuyUnderWay, OrderOf, OnOffer
<1>4. Progress(w)'  BY <1>1, <1>3 DEF Progress
<1> QED  BY <1>1, <1>4, InsideStep DEF RefInv

\* Loads and the successful compare_exchange: what they read and take is still
\* on offer to the bid, and the book waits for it.
LEMMA ReadProgress ==
    ASSUME IInv, RefInv, IInv', NEW w \in Workers, base' = base,
           Load(w) \/ CompareExchange(w) \/ GetAllocation(w)
    PROVE  RefInv'
<1>1. /\ pc[w] \in {"load"} \cup Filling /\ pc'[w] \in Filling
      /\ UNCHANGED <<req, bid, todo, buy_seq_no, allocations, bids, poisoned, base>>
      /\ OnOffer(w)' = OnOffer(w)
      /\ ToMeet(w)' = IF pc[w] = "load" THEN ToMeet(w)' ELSE ToMeet(w)
      /\ pc[w] = "load" => req[w].op = "buy"
      /\ req[w].op \in {"buy", "sell"}
  <2>1. CASE Load(w)
    BY <2>1 DEF Load, OnOffer, IInv, TypeOK, LockDiscipline
  <2>2. CASE CompareExchange(w)
    <3>1. supply = current[w]  BY <2>2 DEF CompareExchange, IInv, ReadsStayFresh
    <3> QED  BY <2>2, <3>1 DEF CompareExchange, OnOffer, ToMeet, IInv, TypeOK,
          LockDiscipline, BuyRequest, SellRequest
  <2>3. CASE GetAllocation(w)
    BY <2>3 DEF GetAllocation, OnOffer, ToMeet, IInv, TypeOK, LockDiscipline,
       BuyRequest, SellRequest
  <2> QED  BY <2>1, <2>2, <2>3
<1>2. pc'[w] \in {"get", "put"} =>
        /\ req[w].op = "buy" => bids = {}
        /\ req[w].op = "sell" => bids = ToMeet(w)
  <2>1. CASE Load(w)  BY <2>1 DEF Load, IInv, TypeOK
  <2>2. CASE CompareExchange(w)
    <3>1. supply > 0
      BY <2>2, Amounts DEF CompareExchange, IInv, ReadsStayFresh
    <3> QED  BY <2>2, <3>1 DEF CompareExchange, ToMeet, IInv, NothingPassedOver
  <2>3. CASE GetAllocation(w)
    BY <2>3 DEF GetAllocation, RefInv, Progress, BuyUnderWay, SellUnderWay
  <2> QED  BY <2>1, <2>2, <2>3
<1>3. CASE req[w].op = "buy"
  <2>1. BuyUnderWay(w)  BY <1>1, <1>3 DEF RefInv, Progress
  <2>2. OrderOf(w)' = OrderOf(w)  BY <1>1 DEF OrderOf
  <2>3. BuyUnderWay(w)'
    BY <1>1, <1>2, <1>3, <2>1, <2>2 DEF BuyUnderWay
  <2>4. Progress(w)'  BY <1>1, <1>3, <2>3 DEF Progress
  <2> QED  BY <1>1, <2>4, InsideStep DEF RefInv
<1>4. CASE req[w].op = "sell"
  <2>1. SellUnderWay(w) /\ ToMeet(w)' = ToMeet(w)
    BY <1>1, <1>4 DEF RefInv, Progress
  <2>2. SellUnderWay(w)'
    BY <1>1, <1>2, <1>4, <2>1 DEF SellUnderWay
  <2>3. Progress(w)'  BY <1>1, <1>4, <2>2 DEF Progress
  <2> QED  BY <1>1, <2>3, InsideStep DEF RefInv
<1> QED  BY <1>1, <1>3, <1>4

\* sell_impl puts its volume on offer, with every bid still to meet.
LEMMA AddProgress ==
    ASSUME IInv, Books, Fits', RefInv, IInv', NEW w \in Workers, Add(w),
           base' = base
    PROVE  RefInv'
<1>1. /\ pc'[w] = "next" /\ req' = req /\ req[w].op = "sell"
      /\ todo'[w] = bids /\ base = state
      /\ UNCHANGED <<buy_seq_no, allocations, bids, poisoned, base>>
  BY DEF Add, IInv, TypeOK, LockDiscipline, RefInv, Progress
<1>2. /\ base.seq = buy_seq_no /\ base.supply = supply
      /\ base.allocations = allocations /\ base.bids = bids
  BY <1>1 DEF state
<1>3. supply' = supply + req[w].volume
  <2>1. supply <= offered /\ offered \in Nat /\ supply \in Nat
    <3>1. offered < Modulus
      BY AddAmounts, Amounts, ConstantsAssumption DEF Fits
    <3> QED  BY <3>1, Amounts, TotalIsAmount DEF Books, RefInv
  <2>2. supply + req[w].volume < Modulus
    BY <2>1, AddAmounts, ConstantsAssumption DEF Fits
  <2> QED  BY <2>2, AddAmounts DEF WrappingAdd
<1>4. ToMeet(w)' = bids /\ OnOffer(w)' = supply' /\ bids' \ bids = {}
  BY <1>1 DEF ToMeet, OnOffer
<1>5. SellUnderWay(w)'
  BY <1>1, <1>2, <1>3, <1>4 DEF SellUnderWay
<1>6. Progress(w)'  BY <1>1, <1>5 DEF Progress
<1> QED  BY <1>1, <1>6, InsideStep DEF RefInv

\* retain comes to the next bid, which it has yet to meet.
LEMMA NextBidProgress ==
    ASSUME IInv, RefInv, IInv', NEW w \in Workers, NextBid(w), base' = base
    PROVE  RefInv'
<1>1. /\ pc[w] = "next" /\ pc'[w] = "try" /\ req[w].op = "sell"
      /\ UNCHANGED <<req, supply, buy_seq_no, allocations, bids, poisoned, base>>
  BY DEF NextBid, IInv, TypeOK, LockDiscipline
<1>2. ToMeet(w)' = ToMeet(w) /\ OnOffer(w)' = OnOffer(w)
  <2>1. bid'[w] \in todo[w] /\ todo'[w] = todo[w] \ {bid'[w]}
    BY NextIsFirst
  <2> QED  BY <1>1, <2>1 DEF ToMeet, OnOffer
<1>3. SellUnderWay(w)  BY <1>1 DEF RefInv, Progress
<1>4. SellUnderWay(w)'  BY <1>1, <1>2, <1>3 DEF SellUnderWay
<1>5. Progress(w)'  BY <1>1, <1>4 DEF Progress
<1> QED  BY <1>1, <1>5, InsideStep DEF RefInv

\* A buy that meets no supply leaves its whole bid in the book.
LEMMA StoreBidProgress ==
    ASSUME IInv, RefInv, IInv', NEW w \in Workers, StoreBid(w), base' = base
    PROVE  RefInv'
<1>1. /\ pc[w] = "try" /\ pc'[w] = "metrics" /\ req[w].op = "buy"
      /\ supply = 0
      /\ UNCHANGED <<req, supply, buy_seq_no, allocations, poisoned, base>>
  BY DEF StoreBid, IInv, TypeOK, LockDiscipline, ReadsStayFresh
<1>2. /\ base.seq + 1 = buy_seq_no /\ base.supply = 0
      /\ base.bids = bids /\ base.allocations = allocations
      /\ bid[w] = OrderOf(w)
  BY <1>1 DEF RefInv, Progress, BuyUnderWay, OnOffer
<1>3. bids' = bids \cup {bid[w]}
  <2>1. bids' = bids \cup {[bid[w] EXCEPT !.seq = buy_seq_no]}
    BY StoreBidEffect
  <2>2. [bid[w] EXCEPT !.seq = buy_seq_no] = bid[w]
    BY <1>2 DEF OrderOf
  <2> QED  BY <2>1, <2>2
<1>4. /\ OrdersAfter(bids \cup {bid[w]}, 0) = bids \cup {bid[w]}
      /\ OfferAfter(bids \cup {bid[w]}, 0) = 0
      /\ GivenAfter(allocations, bids \cup {bid[w]}, 0) = allocations
  BY <1>1, BidJoinsBook, BidsAreABook, MatchIdle
<1>5. OrderOf(w)' = OrderOf(w)  BY <1>1 DEF OrderOf
<1>6. Done(w)'
  BY <1>1, <1>2, <1>3, <1>4, <1>5 DEF Done, Reached
<1>7. Progress(w)'  BY <1>1, <1>6 DEF Progress
<1> QED  BY <1>1, <1>7, InsideStep DEF RefInv

\* With nothing on offer retain keeps the bid, and so does the match.
LEMMA KeepBidProgress ==
    ASSUME IInv, RefInv, IInv', NEW w \in Workers, KeepBid(w), base' = base
    PROVE  RefInv'
<1> DEFINE S == ToMeet(w)
<1>1. /\ pc[w] = "try" /\ pc'[w] = "next" /\ req[w].op = "sell"
      /\ supply = 0 /\ OnOffer(w) = 0 /\ OnOffer(w)' = 0
      /\ S = todo[w] \cup {bid[w]} /\ ToMeet(w)' = todo[w]
      /\ UNCHANGED <<req, buy_seq_no, allocations, bids, poisoned, base>>
  BY DEF KeepBid, IInv, TypeOK, LockDiscipline, ReadsStayFresh, OnOffer, ToMeet
<1>2. SellUnderWay(w)  BY <1>1 DEF RefInv, Progress
<1>3. todo[w] \subseteq bids /\ S \subseteq bids
  BY <1>1 DEF IInv, VisitOrder
<1> HIDE DEF S
<1>4. \A T \in SUBSET bids :
        /\ OrdersAfter(T, 0) = T /\ OfferAfter(T, 0) = 0
        /\ GivenAfter(allocations, T, 0) = allocations
  BY BidsAreABook, MatchIdle
<1>5. (bids \ S) \cup S = (bids \ todo[w]) \cup todo[w]
  BY <1>3
<1>6. SellUnderWay(w)'
  BY <1>1, <1>2, <1>3, <1>4, <1>5 DEF SellUnderWay, S
<1>7. Progress(w)'  BY <1>1, <1>6 DEF Progress
<1> QED  BY <1>1, <1>7, InsideStep DEF RefInv

\* retain is through: what the book met is what the match leaves.
LEMMA EndSellProgress ==
    ASSUME IInv, RefInv, IInv', NEW w \in Workers, EndSell(w), base' = base
    PROVE  RefInv'
<1>1. /\ pc[w] = "next" /\ pc'[w] = "unlock" /\ req[w].op = "sell"
      /\ ToMeet(w) = {} /\ OnOffer(w) = supply
      /\ UNCHANGED <<req, supply, buy_seq_no, allocations, bids, poisoned, base>>
  BY DEF EndSell, IInv, TypeOK, LockDiscipline, ToMeet, OnOffer
<1>2. SellUnderWay(w)  BY <1>1 DEF RefInv, Progress
<1>3. /\ OrdersAfter({}, supply) = {} /\ OfferAfter({}, supply) = supply
      /\ GivenAfter(allocations, {}, supply) = allocations
  BY BidsAreABook, MatchIdle
<1>4. Done(w)'
  BY <1>1, <1>2, <1>3 DEF SellUnderWay, Done, Reached
<1>5. Progress(w)'  BY <1>1, <1>4 DEF Progress
<1> QED  BY <1>1, <1>5, InsideStep DEF RefInv

\* The gauges are no part of the engine.
LEMMA MetricsProgress ==
    ASSUME IInv, RefInv, IInv', NEW w \in Workers, Metrics(w), base' = base
    PROVE  RefInv'
<1>1. /\ pc[w] = "metrics" /\ pc'[w] = "unlock"
      /\ UNCHANGED <<req, supply, buy_seq_no, allocations, bids, poisoned, base>>
  BY DEF Metrics, IInv, TypeOK
<1>2. Done(w) /\ OrderOf(w)' = OrderOf(w)
  BY <1>1 DEF RefInv, Progress, OrderOf
<1>3. Done(w)'  BY <1>1, <1>2 DEF Done, Reached
<1>4. Progress(w)'  BY <1>1, <1>3 DEF Progress
<1> QED  BY <1>1, <1>4, InsideStep DEF RefInv

\* What an insert writes is what the match credits: it fits in a u64.
LEMMA PutCredits ==
    ASSUME IInv, Backed, Fits, NEW w \in Workers, PutAllocation(w)
    PROVE  allocations' = Credit(allocations, bid[w].user, Fill(w))
<1>1. bid[w].user \in Users  BY PutAmounts, BidValues
<1>2. /\ held[w] = Held(bid[w].user) /\ InHand = Fill(w) /\ Fill(w) \in Nat
      /\ Held(bid[w].user) \in Nat
  BY <1>1, PutAmounts, Amounts DEF PutAllocation, IInv, ReadsStayFresh
<1>3. held[w] + Fill(w) < Modulus
  <2>1. Held(bid[w].user) + supply + InHand <= offered
    BY <1>1 DEF Backed
  <2> QED  BY <1>2, <2>1, Amounts, ConstantsAssumption DEF Fits
<1>4. WrappingAdd(held[w], Fill(w)) = GivenTo(allocations, bid[w].user) + Fill(w)
  BY <1>2, <1>3 DEF WrappingAdd, Held, GivenTo
<1> QED  BY <1>4 DEF PutAllocation, Credit

\* A buy that found supply: it was alone, and is now filled or waits for the rest.
LEMMA PutBuyProgress ==
    ASSUME IInv, Backed, Fits, RefInv, IInv', NEW w \in Workers,
           PutAllocation(w), req[w].op = "buy", base' = base
    PROVE  RefInv'
<1> DEFINE b == bid[w]
           total == current[w]
           lowered == [b EXCEPT !.volume = @ - total]
<1>1. /\ pc[w] = "put" /\ pc'[w] = "metrics" /\ bids' = Settle(w)
      /\ UNCHANGED <<req, supply, buy_seq_no, poisoned, base>>
  BY DEF PutAllocation, IInv, TypeOK
<1>2. /\ base.seq + 1 = buy_seq_no /\ base.supply = total
      /\ base.bids = {} /\ base.allocations = allocations
      /\ b = OrderOf(w) /\ bids = {}
  BY <1>1 DEF RefInv, Progress, BuyUnderWay, OnOffer
<1>3. /\ b \in Bid /\ b.volume \in Nat /\ total \in Nat /\ total > 0
      /\ supply = SaturatingSub(total, b.volume)
  BY <1>1, SettleEffect, BidValues, FillValues DEF IInv, Taken
<1>4. IsBook({b}, Users) /\ IsAccount(allocations)
  BY <1>1, BidJoinsBook, BidsAreABook
<1>5. allocations' = Credit(allocations, b.user, Fill(w))  BY PutCredits
<1>6. /\ bids' = OrdersAfter({b}, total) /\ supply' = OfferAfter({b}, total)
      /\ allocations' = GivenAfter(allocations, {b}, total)
  <2>1. CASE b.volume <= total
    <3>a. total >= b.volume  BY <1>3, <2>1
    <3>b. bids' = bids  BY <1>1, <3>a DEF Settle
    <3>c. supply = total - b.volume  BY <1>3, <3>a DEF SaturatingSub
    <3>d. Fill(w) = b.volume  BY <1>3, <3>a DEF Fill, Lesser
    <3>1. bids' = {} /\ supply' = total - b.volume /\ Fill(w) = b.volume
      BY <1>1, <1>2, <3>b, <3>c, <3>d
    <3>2. /\ OrdersAfter({b}, total) = {} /\ OfferAfter({b}, total) = total - b.volume
          /\ GivenAfter(allocations, {b}, total) = Credit(allocations, b.user, b.volume)
      BY <1>3, <1>4, <2>1, MatchAlone
    <3> QED  BY <1>5, <3>1, <3>2
  <2>2. CASE b.volume > total
    <3>1. bids' = Insert({}, [b EXCEPT !.volume = b.volume - total, !.seq = buy_seq_no])
      BY <1>1, <1>2, <1>3, <2>2 DEF Settle
    <3>2. [b EXCEPT !.volume = b.volume - total, !.seq = buy_seq_no] = lowered
      <4>1. b.seq = buy_seq_no  BY <1>2 DEF OrderOf
      <4> QED  BY <1>3, <4>1 DEF Bid
    <3>3. bids' = {lowered}
      <4> HIDE DEF lowered
      <4> QED  BY <3>1, <3>2 DEF Insert
    <3>4. supply' = 0 /\ Fill(w) = total
      BY <1>1, <1>3, <2>2 DEF SaturatingSub, Fill, Lesser
    <3>5. /\ OrdersAfter({b}, total) = {lowered} /\ OfferAfter({b}, total) = 0
          /\ GivenAfter(allocations, {b}, total) = Credit(allocations, b.user, total)
      BY <1>3, <1>4, <2>2, MatchAlone
    <3> HIDE DEF lowered
    <3> QED  BY <1>5, <3>3, <3>4, <3>5
  <2> QED  BY <1>3, <2>1, <2>2
<1>7. OrderOf(w)' = OrderOf(w) /\ base.bids \cup {OrderOf(w)} = {b}
  BY <1>1, <1>2 DEF OrderOf
<1>8. Done(w)'
  <2> HIDE DEF b, total
  <2> QED  BY <1>1, <1>2, <1>6, <1>7 DEF Done, Reached
<1>9. Progress(w)'  BY <1>1, <1>8 DEF Progress
<1> QED  BY <1>1, <1>9, InsideStep DEF RefInv

\* A bid that retain fills, wholly or in part, is peeled off the match.
LEMMA PutSellProgress ==
    ASSUME IInv, Backed, Fits, RefInv, IInv', NEW w \in Workers,
           PutAllocation(w), req[w].op = "sell", base' = base
    PROVE  RefInv'
<1> DEFINE b == bid[w]
           T == todo[w]
           total == current[w]
           lowered == [b EXCEPT !.volume = @ - total]
           sum == base.supply + req[w].volume
<1>1. /\ pc[w] = "put" /\ pc'[w] = "next" /\ bids' = Settle(w)
      /\ UNCHANGED <<req, supply, todo, buy_seq_no, poisoned, base>>
  BY DEF PutAllocation, IInv, TypeOK
<1>2. /\ base.seq = buy_seq_no /\ bids = T \cup {b}
      /\ OrdersAfter(base.bids, sum)
           = (bids \ (T \cup {b})) \cup OrdersAfter(T \cup {b}, total)
      /\ OfferAfter(base.bids, sum) = OfferAfter(T \cup {b}, total)
      /\ GivenAfter(base.allocations, base.bids, sum)
           = GivenAfter(allocations, T \cup {b}, total)
  BY <1>1 DEF RefInv, Progress, SellUnderWay, OnOffer, ToMeet
<1>3. /\ b \in Bid /\ b.volume \in Nat /\ total \in Nat /\ total > 0
      /\ supply = SaturatingSub(total, b.volume)
  BY <1>1, SettleEffect, BidValues, FillValues DEF IInv, Taken
<1>4. b \notin T /\ \A c \in T : Precedes(b, c)
  BY <1>1 DEF IInv, VisitOrder
<1>5. IsFirst(b, bids) /\ bids \ {b} = T
  <2> HIDE DEF b, T
  <2> QED  BY <1>2, <1>4 DEF IsFirst, Precedes, Before
<1>6. IsBook(bids, Users) /\ IsBook(T, Users) /\ IsAccount(allocations)
  BY <1>2, BidsAreABook
<1>7. allocations' = Credit(allocations, b.user, Fill(w)) /\ Fill(w) \in Nat
  BY PutCredits, PutAmounts
<1>8. IsAccount(allocations')  BY <1>6, <1>7, CreditIsAccount
<1>9. ToMeet(w)' = T /\ OnOffer(w)' = supply /\ sum' = sum
  BY <1>1 DEF ToMeet, OnOffer
<1> HIDE DEF sum, T
<1>10. /\ OrdersAfter(base.bids, sum) = OrdersAfter(bids, total)
       /\ OfferAfter(base.bids, sum) = OfferAfter(bids, total)
       /\ GivenAfter(base.allocations, base.bids, sum)
            = GivenAfter(allocations, bids, total)
  <2>1. bids \ (T \cup {b}) = {}  BY <1>2
  <2> HIDE DEF b, total
  <2> QED  BY <1>2, <2>1
<1>11. /\ OrdersAfter(bids, total) = (bids' \ T) \cup OrdersAfter(T, supply)
       /\ OfferAfter(bids, total) = OfferAfter(T, supply)
       /\ GivenAfter(allocations, bids, total) = GivenAfter(allocations', T, supply)
  <2>1. CASE b.volume <= total
    <3>a. total >= b.volume  BY <1>3, <2>1
    <3>b. bids' = bids \ {b}  BY <1>1, <3>a DEF Settle
    <3>c. supply = total - b.volume  BY <1>3, <3>a DEF SaturatingSub
    <3>d. Fill(w) = b.volume  BY <1>3, <3>a DEF Fill, Lesser
    <3>1. bids' = T /\ supply = total - b.volume /\ Fill(w) = b.volume
      BY <1>5, <3>b, <3>c, <3>d
    <3>2. /\ OrdersAfter(bids, total) = OrdersAfter(bids \ {b}, total - b.volume)
          /\ OfferAfter(bids, total) = OfferAfter(bids \ {b}, total - b.volume)
          /\ GivenAfter(allocations, bids, total)
               = GivenAfter(Credit(allocations, b.user, b.volume), bids \ {b},
                            total - b.volume)
      <4> HIDE DEF b, total
      <4> QED  BY <1>3, <1>5, <1>6, <2>1, MatchFull
    <3> HIDE DEF b, total
    <3> QED  BY <1>5, <1>7, <3>1, <3>2
  <2>2. CASE b.volume > total
    <3>1. bids' = (bids \ {b}) \cup {[b EXCEPT !.volume = b.volume - total]}
      BY <1>1, <1>3, <2>2 DEF Settle
    <3>2. bids' = T \cup {lowered}  BY <1>5, <3>1
    <3>3. supply = 0 /\ Fill(w) = total
      BY <1>1, <1>3, <2>2 DEF SaturatingSub, Fill, Lesser
    <3>4. /\ OrdersAfter(bids, total) = (bids \ {b}) \cup {lowered}
          /\ OfferAfter(bids, total) = 0
          /\ GivenAfter(allocations, bids, total) = Credit(allocations, b.user, total)
      BY <1>3, <1>5, <1>6, <2>2, MatchPartial
    <3>5. /\ OrdersAfter(T, 0) = T /\ OfferAfter(T, 0) = 0
          /\ GivenAfter(allocations', T, 0) = allocations'
      BY <1>6, <1>8, MatchIdle
    <3> HIDE DEF lowered, b, total
    <3>6. T \cup {lowered} = (bids' \ T) \cup T  BY <3>2
    <3> QED  BY <1>5, <1>7, <3>2, <3>3, <3>4, <3>5, <3>6
  <2> QED  BY <1>3, <2>1, <2>2
<1>12. SellUnderWay(w)'
  <2> HIDE DEF b, total
  <2>1. /\ OrdersAfter(base.bids, sum)
             = (bids' \ ToMeet(w)') \cup OrdersAfter(ToMeet(w)', OnOffer(w)')
        /\ OfferAfter(base.bids, sum) = OfferAfter(ToMeet(w)', OnOffer(w)')
        /\ GivenAfter(base.allocations, base.bids, sum)
             = GivenAfter(allocations', ToMeet(w)', OnOffer(w)')
    BY <1>9, <1>10, <1>11
  <2> QED  BY <1>1, <1>2, <2>1 DEF SellUnderWay, sum
<1>13. Progress(w)'  BY <1>1, <1>12 DEF Progress
<1> QED  BY <1>1, <1>13, InsideStep DEF RefInv

-----------------------------------------------------------------------------
\* A handler that returns takes base to what it left, by a buy or by a sell.
LEMMA ReturnIsEngineStep ==
    ASSUME IInv, NEW w \in Workers, pc[w] = "unlock", Done(w), base' = state
    PROVE  Engine!Next
<1>1. /\ base'.seq = buy_seq_no /\ base'.supply = supply
      /\ base'.allocations = allocations /\ base'.bids = bids
  BY DEF state
<1>2. req[w] \in BuyRequest \/ req[w] \in SellRequest
  BY DEF IInv, LockDiscipline
<1>3. CASE req[w] \in BuyRequest
  <2>1. /\ req[w].op = "buy" /\ req[w].user \in Users
        /\ req[w].volume \in Volumes /\ req[w].price \in Prices
    BY <1>3 DEF BuyRequest
  <2>2. /\ buy_seq_no = base.seq + 1
        /\ Reached(base.bids \cup {OrderOf(w)}, base.supply)
    BY <2>1 DEF Done
  <2>3. /\ base'.allocations
             = GivenAfter(base.allocations, base.bids \cup {OrderOf(w)}, base.supply)
        /\ base'.bids = OrdersAfter(base.bids \cup {OrderOf(w)}, base.supply)
        /\ base'.supply = OfferAfter(base.bids \cup {OrderOf(w)}, base.supply)
    BY <1>1, <2>2 DEF Reached
  <2>4. Engine!Match(base.bids \cup {OrderOf(w)}, base.supply)
    BY <2>3, EngineRule DEF Engine!Match
  <2>5. Engine!Buy(req[w].user, req[w].volume, req[w].price)
    BY <1>1, <2>2, <2>4 DEF Engine!Buy, OrderOf
  <2> QED  BY <2>1, <2>5 DEF Engine!Next
<1>4. CASE req[w] \in SellRequest
  <2>1. req[w].op = "sell" /\ req[w].volume \in Volumes \ {0}
    BY <1>4 DEF SellRequest
  <2>2. /\ buy_seq_no = base.seq
        /\ Reached(base.bids, base.supply + req[w].volume)
    BY <2>1 DEF Done
  <2>3. /\ base'.allocations
             = GivenAfter(base.allocations, base.bids, base.supply + req[w].volume)
        /\ base'.bids = OrdersAfter(base.bids, base.supply + req[w].volume)
        /\ base'.supply = OfferAfter(base.bids, base.supply + req[w].volume)
    BY <1>1, <2>2 DEF Reached
  <2>4. Engine!Match(base.bids, base.supply + req[w].volume)
    BY <2>3, EngineRule DEF Engine!Match
  <2>5. Engine!Sell(req[w].volume)
    BY <1>1, <2>2, <2>4 DEF Engine!Sell
  <2> QED  BY <2>1, <2>5 DEF Engine!Next
<1> QED  BY <1>2, <1>3, <1>4

\* The guard is dropped: what it guarded is the new base.
LEMMA UnlockProgress ==
    ASSUME IInv, RefInv, NEW w \in Workers, Unlock(w), base' = state'
    PROVE  RefInv' /\ Engine!Next
<1>1. /\ pc[w] = "unlock" /\ state' = state /\ poisoned' = poisoned
  BY DEF Unlock, state
<1>2. \A v \in Workers : pc'[v] \in {"idle", "lock"}
  <2>1. \A v \in Workers : v # w => pc[v] \in {"idle", "lock"}
    BY <1>1, OneInside
  <2> QED  BY <2>1 DEF Unlock, Return, IInv, TypeOK
<1>3. \A v \in Workers : Progress(v)'  BY <1>2 DEF Progress
<1>4. Done(w)  BY <1>1 DEF RefInv, Progress
<1>5. RefInv'  BY <1>1, <1>3 DEF RefInv
<1> QED  BY <1>1, <1>4, <1>5, ReturnIsEngineStep

\* A worker that does nothing stays where it is, as long as nobody else moves
\* the data.
LEMMA SameProgress ==
    ASSUME NEW v \in Workers, Progress(v), pc'[v] = pc[v], req'[v] = req[v],
           UNCHANGED <<shared, bid, todo, current, base>>
    PROVE  Progress(v)'
<1>1. /\ OrderOf(v)' = OrderOf(v) /\ OnOffer(v)' = OnOffer(v)
      /\ ToMeet(v)' = ToMeet(v) /\ state' = state
  BY DEF OrderOf, OnOffer, ToMeet, state
<1>2. (BuyUnderWay(v)' <=> BuyUnderWay(v)) /\ (Done(v)' <=> Done(v))
  BY <1>1 DEF BuyUnderWay, Done, Reached
<1>3. SellUnderWay(v)' <=> SellUnderWay(v)
  BY <1>1 DEF SellUnderWay
<1> QED  BY <1>1, <1>2, <1>3 DEF Progress

\* Arriving and taking the lock move nothing.
LEMMA OutsideProgress ==
    ASSUME IInv, RefInv, IInv', NEW w \in Workers,
           Call(w) \/ Lock(w) \/ LockPoisoned(w),
           base' = IF holder' = NoWorker THEN state' ELSE base
    PROVE  RefInv' /\ base' = base
<1>1. state' = state /\ ~poisoned' /\ pc[w] \in {"idle", "lock"}
  BY DEF Call, Receive, Lock, LockPoisoned, state, RefInv
<1>2. CASE Call(w)
  <2>1. /\ holder' = holder /\ base' = base
        /\ UNCHANGED <<shared, bid, todo, current, held>>
        /\ pc'[w] = "lock"
        /\ \A v \in Workers \ {w} : pc'[v] = pc[v] /\ req'[v] = req[v]
    <3>1. \E r : req' = [req EXCEPT ![w] = r]  BY <1>2 DEF Call, Receive
    <3> QED  BY <1>1, <1>2, <3>1 DEF Call, Receive, IInv, TypeOK, RefInv
  <2>2. Progress(w)'  BY <2>1 DEF Progress
  <2>3. ASSUME NEW v \in Workers \ {w}  PROVE Progress(v)'
    BY <1>1, <2>1, SameProgress DEF RefInv
  <2> QED  BY <1>1, <2>1, <2>2, <2>3 DEF RefInv
<1>3. CASE Lock(w)
  <2>1. /\ holder = NoWorker /\ holder' = w /\ base' = base
        /\ pc'[w] \in {"bump", "add"}
    BY <1>3, ConstantsAssumption DEF Lock, IInv, TypeOK
  <2>2. base = state  BY <2>1 DEF RefInv
  <2>3. Progress(w)'  BY <1>1, <2>1, <2>2 DEF Progress
  <2> QED  BY <1>1, <2>1, <2>3, InsideStep
<1>4. ~LockPoisoned(w)  BY DEF LockPoisoned, RefInv
<1> QED  BY <1>2, <1>3, <1>4

\* No sum overflows while the volume sold fits in a u64.
LEMMA NoPanics ==
    ASSUME IInv, Backed, Books, Fits, RefInv, NEW w \in Workers
    PROVE  ~PutPanics(w) /\ ~SumPanics(w)
<1>1. ASSUME PutPanics(w)  PROVE FALSE
  <2>1. /\ bid[w] \in Bid /\ holder = w /\ w # NoWorker
        /\ held[w] = Held(bid[w].user)
    BY <1>1, SettleEffect, OneInside, ConstantsAssumption
       DEF PutPanics, IInv, ReadsStayFresh
  <2>2. InHand = Fill(w)  BY <1>1, <2>1 DEF PutPanics, InHand, InFlight
  <2>3. bid[w].user \in Users  BY <2>1, BidValues
  <2>4. Held(bid[w].user) + supply + InHand <= offered  BY <2>3 DEF Backed
  <2>5. held[w] + Fill(w) >= Modulus
    BY <1>1 DEF PutPanics, AllocationOverflows
  <2> QED
    BY <2>1, <2>2, <2>3, <2>4, <2>5, Amounts, ConstantsAssumption DEF Fits
<1>2. ASSUME SumPanics(w)  PROVE FALSE
  <2>1. offered = supply + TotalAllocated + InHand
    BY DEF Books, Fits, RefInv
  <2>2. TotalAllocated >= Modulus  BY <1>2 DEF SumPanics
  <2> QED
    BY <2>1, <2>2, Amounts, TotalIsAmount, ConstantsAssumption DEF Fits
<1> QED  BY <1>1, <1>2

\* The empty engine is at its base.
LEMMA InitRef == InitH => RefInv /\ Engine!Init
<1> SUFFICES ASSUME InitH  PROVE RefInv /\ Engine!Init
  OBVIOUS
<1>1. /\ buy_seq_no = 0 /\ supply = 0 /\ bids = {} /\ base = state
      /\ allocations = [u \in {} |-> 0] /\ ~poisoned
      /\ \A w \in Workers : pc[w] = "idle"
  BY DEF InitH, Init
<1>2. /\ base.seq = 0 /\ base.supply = 0 /\ base.bids = {}
      /\ base.allocations = [u \in {} |-> 0]
  BY <1>1 DEF state
<1>3. RefInv  BY <1>1 DEF RefInv, Progress
<1> QED  BY <1>2, <1>3 DEF Engine!Init

\* Until it returns, a handler keeps the lock.
LEMMA InsideKeepsLock ==
    ASSUME IInv, Backed, Books, Fits, RefInv, NEW w \in Workers,
           Step(w), ~Unlock(w)
    PROVE  /\ holder = w /\ w # NoWorker /\ holder' = holder
           /\ pc'[w] # "idle" /\ ~PutPanics(w) /\ ~SumPanics(w)
<1>1. pc[w] \notin {"idle", "lock"}
  BY DEF Step, Bump, Load, Add, NextBid, StoreBid, KeepBid, CompareExchange,
     GetAllocation, PutAllocation, PutPanics, EndSell, SumPanics, Metrics, Unlock
<1>2. holder = w /\ w # NoWorker  BY <1>1, OneInside, ConstantsAssumption
<1>3. ~PutPanics(w) /\ ~SumPanics(w)  BY NoPanics
<1>4. holder' = holder /\ pc'[w] # "idle"
  BY <1>3 DEF Step, Bump, Load, Add, NextBid, StoreBid, KeepBid,
     CompareExchange, GetAllocation, PutAllocation, EndSell, Metrics, IInv, TypeOK
<1> QED  BY <1>2, <1>3, <1>4

\* Each step of the code is one of the engine, or none.
LEMMA NextRef ==
    ASSUME IInv, Backed, Books, Fits, Fits', RefInv, IInv', [NextH]_<<vars, base>>
    PROVE  RefInv' /\ [Engine!Next]_Engine!engine
<1>1. base' = base => [Engine!Next]_Engine!engine
  BY DEF Engine!engine
<1>2. ASSUME NEW w \in Workers, Call(w) \/ Lock(w) \/ LockPoisoned(w),
             base' = IF holder' = NoWorker THEN state' ELSE base
      PROVE  RefInv' /\ [Engine!Next]_Engine!engine
  BY <1>1, <1>2, OutsideProgress
<1>3. ASSUME NEW w \in Workers, Step(w),
             base' = IF holder' = NoWorker THEN state' ELSE base
      PROVE  RefInv' /\ [Engine!Next]_Engine!engine
  <2>1. CASE Unlock(w)
    <3>1. base' = state'  BY <1>3, <2>1 DEF Unlock
    <3> QED  BY <2>1, <3>1, UnlockProgress
  <2>2. CASE ~Unlock(w)
    <3>1. /\ holder = w /\ w # NoWorker /\ holder' = holder
          /\ ~PutPanics(w) /\ ~SumPanics(w)
      BY <1>3, <2>2, InsideKeepsLock
    <3>2. base' = base  BY <1>3, <3>1
    <3>3. PutAllocation(w) => req[w].op \in {"buy", "sell"}
      BY SettleEffect DEF PutAllocation
    <3>4. \/ Bump(w) \/ Add(w) \/ NextBid(w) \/ StoreBid(w) \/ KeepBid(w)
          \/ EndSell(w) \/ Metrics(w) \/ PutAllocation(w)
          \/ (Load(w) \/ CompareExchange(w) \/ GetAllocation(w))
      BY <1>3, <2>2, <3>1 DEF Step
    <3>5. RefInv'
      BY <3>2, <3>3, <3>4, BumpProgress, ReadProgress, AddProgress,
         NextBidProgress, StoreBidProgress, KeepBidProgress, EndSellProgress,
         MetricsProgress, PutBuyProgress, PutSellProgress
    <3> QED  BY <1>1, <3>2, <3>5
  <2> QED  BY <2>1, <2>2
<1>4. ASSUME UNCHANGED vars, base' = base
      PROVE  RefInv'
  <2>1. \A v \in Workers : Progress(v)'
    BY <1>4, SameProgress DEF RefInv, vars, locals
  <2> QED  BY <1>4, <2>1 DEF RefInv, vars, state
<1>5. CASE NextH
  <2>1. base' = IF holder' = NoWorker THEN state' ELSE base  BY <1>5 DEF NextH
  <2>2. CASE \E w \in Workers : Call(w) \/ Lock(w) \/ LockPoisoned(w) \/ Step(w)
    BY <1>2, <1>3, <2>1, <2>2
  <2>3. CASE Finished
    <3>1. UNCHANGED vars /\ state' = state
      BY <2>3 DEF Finished, vars, state
    <3>2. base' = base  BY <2>1, <3>1 DEF RefInv, vars
    <3> QED  BY <1>1, <1>4, <3>1, <3>2
  <2> QED  BY <1>5, <2>2, <2>3 DEF NextH, Next
<1>6. CASE UNCHANGED <<vars, base>>
  BY <1>1, <1>4, <1>6
<1> QED  BY <1>5, <1>6

\* As long as the volume sold fits in a u64, the interleaved in-memory engine is
\* the atomic one, in both builds: each handler that returns is one Buy or Sell,
\* every other step is none, and no handler panics.
THEOREM ImplementsTheEngine ==
    SpecH /\ [](offered < Modulus) => ImplementsEngine
<1>1. SpecH => Spec
  <2>1. InitH => Init  BY DEF InitH
  <2>2. [NextH]_<<vars, base>> => [Next]_vars  BY DEF NextH
  <2> QED  BY <2>1, <2>2, PTL DEF SpecH, Spec
<1>2. Init => Backed /\ Books  BY InitBooks
<1>3. IInv /\ Backed /\ Books /\ Fits /\ Fits' /\ RefInv /\ IInv'
        /\ [NextH]_<<vars, base>> => RefInv' /\ [Engine!Next]_Engine!engine
  BY NextRef
<1>4. (offered < Modulus) <=> Fits  BY DEF Fits
<1> QED
  BY <1>1, <1>2, <1>3, <1>4, Invariant, BackedStep, BooksStep, InitRef, PTL
     DEF Spec, SpecH, ImplementsEngine, Engine!Spec
-----------------------------------------------------------------------------
(* sell_impl of the first version, a fold over the book, is a match *)

\* The order of the bids is the same in both modules.
LEMMA BeforeRule == \A o, p : V0!Before(o, p) <=> Before(o, p)
BY DEF V0!Before, Before

\* So is the cardinality of a set.
LEMMA SameCardinality == \A S : V0!Cardinality(S) = Cardinality(S)
BY DEF V0!Cardinality, Cardinality

\* A book that is not empty has a first order.
LEMMA HasFirst ==
    ASSUME NEW U, NEW S, IsBook(S, U), S # {}
    PROVE  \E o \in S : IsFirst(o, S)
<1> DEFINE Bad == {R \in SUBSET S : R # {} /\ ~ \E o \in R : IsFirst(o, R)}
<1>1. SUFFICES ASSUME Bad # {}  PROVE FALSE
  OBVIOUS
<1>b. /\ Bad \subseteq SUBSET S
      /\ \A R \in Bad : R # {} /\ ~ \E o \in R : IsFirst(o, R)
      /\ \A R \in SUBSET S : R # {} /\ R \notin Bad => \E o \in R : IsFirst(o, R)
  OBVIOUS
<1> HIDE DEF Bad
<1>2. PICK R \in Bad : \A Q \in Bad : Q \subseteq R => Q = R
  BY <1>1, <1>b, SmallestSubset DEF IsBook
<1>3. PICK x \in R : TRUE  BY <1>b
<1>4. \A o \in S : o.price \in Int /\ o.seq \in Nat  BY DEF IsBook
<1>5. CASE R \ {x} = {}
  <2>1. IsFirst(x, R)  BY <1>5 DEF IsFirst
  <2> QED  BY <1>b, <2>1
<1>6. CASE R \ {x} # {}
  <2>1. R \ {x} \notin Bad /\ R \ {x} \in SUBSET S  BY <1>2, <1>3, <1>b
  <2>2. PICK f \in R \ {x} : IsFirst(f, R \ {x})  BY <1>6, <1>b, <2>1
  <2>3. x \in S /\ f \in S /\ x.seq # f.seq
    BY <1>3, <1>b, <2>2 DEF IsBook
  <2>4. Before(x, f) \/ Before(f, x)  BY <1>4, <2>3 DEF Before
  <2>5. CASE Before(f, x)
    <3>1. IsFirst(f, R)  BY <2>2, <2>5 DEF IsFirst
    <3> QED  BY <1>b, <3>1
  <2>6. CASE Before(x, f)
    <3>1. \A c \in R \ {x} : Before(x, c)
      <4>1. \A c \in R \ {x} : c \in S /\ (c = f \/ Before(f, c))
        BY <1>b, <2>2 DEF IsFirst
      <4> QED  BY <1>4, <2>3, <2>6, <4>1 DEF Before
    <3>2. IsFirst(x, R)  BY <1>3, <3>1 DEF IsFirst
    <3> QED  BY <1>b, <3>2
  <2> QED  BY <2>4, <2>5, <2>6
<1> QED  BY <1>5, <1>6

\* A list of all the orders of a book, each before those that follow.
LEMMA SortedExists ==
    ASSUME NEW U, NEW S, IsBook(S, U)
    PROVE  \E s \in V0!SetToSeqs(S) :
                \A i, j \in DOMAIN s : i < j => V0!Before(s[i], s[j])
<1> DEFINE Sorted(R) == \E s \in [1 .. Cardinality(R) -> R] :
                \A i, j \in 1 .. Cardinality(R) : i < j => Before(s[i], s[j])
           Bad == {R \in SUBSET S : ~ Sorted(R)}
<1>1. ASSUME Bad # {}  PROVE FALSE
  <2>b. /\ Bad \subseteq SUBSET S /\ \A R \in Bad : ~ Sorted(R)
        /\ \A R \in SUBSET S : R \notin Bad => Sorted(R)
    OBVIOUS
  <2> HIDE DEF Bad
  <2>1. PICK R \in Bad : \A Q \in Bad : Q \subseteq R => Q = R
    BY <1>1, <2>b, SmallestSubset DEF IsBook
  <2>2. R \subseteq S /\ IsFiniteSet(R) /\ IsBook(R, U)
    BY <2>b, FS_Subset DEF IsBook
  <2>3. Cardinality(R) \in Nat  BY <2>2, FS_CardinalityType
  <2>4. CASE R = {}
    <3>1. Cardinality(R) = 0  BY <2>4, FS_EmptySet
    <3>2. 1 .. Cardinality(R) = {}  BY <3>1
    <3> DEFINE s == [i \in 1 .. Cardinality(R) |-> i]
    <3>3. s \in [1 .. Cardinality(R) -> R]  BY <3>2
    <3>4. Sorted(R)  BY <3>2, <3>3
    <3> QED  BY <2>b, <3>4
  <2>5. CASE R # {}
    <3>1. PICK o \in R : IsFirst(o, R)  BY <2>2, <2>5, HasFirst
    <3>2. R \ {o} \in SUBSET S /\ R \ {o} \notin Bad  BY <2>1, <2>2, <3>1
    <3>3. Cardinality(R \ {o}) = Cardinality(R) - 1 /\ IsFiniteSet(R \ {o})
      BY <2>2, FS_RemoveElement
    <3> DEFINE n == Cardinality(R)
    <3>4. PICK s \in [1 .. n - 1 -> R \ {o}] :
            \A i, j \in 1 .. n - 1 : i < j => Before(s[i], s[j])
      BY <2>b, <3>2, <3>3
    <3> DEFINE t == [i \in 1 .. n |-> IF i = 1 THEN o ELSE s[i - 1]]
    <3>5. n \in Nat  BY <2>3
    <3> HIDE DEF n
    <3>6. t \in [1 .. n -> R]  BY <3>1, <3>4, <3>5
    <3>7. ASSUME NEW i \in 1 .. n, NEW j \in 1 .. n, i < j
          PROVE  Before(t[i], t[j])
      <4>1. j - 1 \in 1 .. n - 1 /\ t[j] = s[j - 1] /\ s[j - 1] \in R \ {o}
        BY <3>4, <3>5, <3>7
      <4>2. CASE i = 1
        <5>1. t[i] = o  BY <4>2
        <5> QED  BY <3>1, <4>1, <5>1 DEF IsFirst
      <4>3. CASE i # 1
        <5>1. i - 1 \in 1 .. n - 1 /\ t[i] = s[i - 1] /\ i - 1 < j - 1
          BY <3>5, <3>7, <4>3
        <5> QED  BY <3>4, <4>1, <5>1
      <4> QED  BY <4>2, <4>3
    <3> HIDE DEF t
    <3>8. Sorted(R)  BY <3>6, <3>7 DEF n
    <3> QED  BY <2>b, <3>8
  <2> QED  BY <2>4, <2>5
<1>2. PICK s \in [1 .. Cardinality(S) -> S] :
        \A i, j \in 1 .. Cardinality(S) : i < j => Before(s[i], s[j])
  BY <1>1
<1>3. \A o \in S : ~ Before(o, o)
  <2>1. \A o \in S : o.price \in Int /\ o.seq \in Nat  BY DEF IsBook
  <2> QED  BY <2>1 DEF Before
<1>4. ASSUME NEW i \in 1 .. Cardinality(S), NEW j \in 1 .. Cardinality(S), i # j
      PROVE  s[i] # s[j]
  <2>1. i < j \/ j < i  BY <1>4
  <2> QED  BY <1>2, <1>3, <2>1
<1>5. s \in V0!SetToSeqs(S)
  BY <1>2, <1>4, SameCardinality DEF V0!SetToSeqs
<1> QED  BY <1>2, <1>5, BeforeRule
-----------------------------------------------------------------------------
\* The book b after retain has visited the orders of the list s.
LOCAL Retained(b, s) == V0!FoldLeft(V0!Visit, b, s)

\* The greatest of some of the first n numbers.
LEMMA MaxIs ==
    ASSUME NEW n \in Nat, NEW d \in SUBSET (1 .. n), d # {}
    PROVE  V0!Max(d) \in d /\ \A i \in d : i <= V0!Max(d)
<1> DEFINE Gaps == {n - i : i \in d}
<1>1. PICK g \in Gaps : \A k \in Gaps : g <= k
  <2>1. \A i \in d : n - i \in Nat  OBVIOUS
  <2>2. Gaps \subseteq Nat /\ Gaps # {}  BY <2>1
  <2> HIDE DEF Gaps
  <2> QED  BY <2>2, LeastNat
<1>2. PICK m \in d : g = n - m  OBVIOUS
<1>3. ASSUME NEW i \in d  PROVE m >= i
  <2>1. n - i \in Gaps  OBVIOUS
  <2> QED  BY <1>1, <1>2, <2>1
<1>4. V0!Max(d) \in d /\ \A i \in d : V0!Max(d) >= i
  BY <1>3 DEF V0!Max
<1> QED  BY <1>4

\* The function that FoldLeft(Visit, b, s) computes, on the sets of places in D.
LOCAL IsFold(it, b, s, D) ==
    it = [d \in D |-> IF d = {} THEN b
                      ELSE V0!Visit(it[d \ {V0!Max(d)}], s[V0!Max(d)])]

\* It exists, as for sums.
LEMMA FoldUpTo ==
    ASSUME NEW b, NEW s, NEW n \in Nat, NEW k \in Nat
    PROVE  \E it : IsFold(it, b, s, {d \in SUBSET (1 .. n) : Cardinality(d) <= k})
<1> DEFINE Few(j) == {d \in SUBSET (1 .. n) : Cardinality(d) <= j}
           Bad == {j \in Nat : ~ \E it : IsFold(it, b, s, Few(j))}
<1>1. SUFFICES ASSUME Bad # {}  PROVE FALSE
  OBVIOUS
<1>b. /\ \A j \in Nat : j \notin Bad => \E it : IsFold(it, b, s, Few(j))
      /\ Bad \subseteq Nat /\ \A j \in Bad : ~ \E it : IsFold(it, b, s, Few(j))
  OBVIOUS
<1> HIDE DEF Bad
<1>2. PICK m \in Bad : \A j \in Bad : m <= j
  BY <1>1, <1>b, LeastNat
<1>3. \A d \in SUBSET (1 .. n) : IsFiniteSet(d) /\ Cardinality(d) \in Nat
  <2>1. IsFiniteSet(1 .. n)  BY FS_Interval
  <2> QED  BY <2>1, FS_Subset, FS_CardinalityType
<1>4. \A d \in SUBSET (1 .. n) : d # {} =>
        /\ d \ {V0!Max(d)} \in SUBSET (1 .. n)
        /\ Cardinality(d \ {V0!Max(d)}) = Cardinality(d) - 1
  BY <1>3, MaxIs, FS_RemoveElement
<1>5. CASE m = 0
  <2>1. \A d \in Few(m) : d = {}  BY <1>3, <1>5, FS_EmptySet
  <2>2. IsFold([d \in Few(m) |-> b], b, s, Few(m))  BY <2>1 DEF IsFold
  <2> QED  BY <1>b, <2>2
<1>6. CASE m # 0
  <2>1. m \in Nat /\ m - 1 \in Nat /\ m - 1 < m  BY <1>b, <1>6
  <2>2. PICK it : IsFold(it, b, s, Few(m - 1))
    <3>1. m - 1 \notin Bad  BY <1>2, <2>1
    <3> QED  BY <1>b, <2>1, <3>1
  <2> DEFINE next == [d \in Few(m) |-> IF d = {} THEN b
                        ELSE V0!Visit(it[d \ {V0!Max(d)}], s[V0!Max(d)])]
  <2>4. \A d \in Few(m - 1) : d \in Few(m)  BY <1>3, <2>1
  <2>5. \A d \in Few(m - 1) : next[d] = it[d]  BY <2>2, <2>4 DEF IsFold
  <2>6. \A d \in Few(m) : d # {} => d \ {V0!Max(d)} \in Few(m - 1)
    BY <1>3, <1>4, <2>1
  <2> HIDE DEF Few
  <2>7. IsFold(next, b, s, Few(m))
    BY <2>5, <2>6 DEF IsFold
  <2> QED  BY <1>b, <2>7
<1> QED  BY <1>5, <1>6

\* The books on the way, from b to what retain leaves.
LOCAL Visits(after, b, s, n) ==
    /\ after[0] = b /\ after[n] = Retained(b, s)
    /\ \A k \in 1 .. n : after[k] = V0!Visit(after[k - 1], s[k])

\* So FoldLeft visits the places of a list one after the other.
LEMMA FoldVisits ==
    ASSUME NEW b, NEW n \in Nat, NEW s, DOMAIN s = 1 .. n
    PROVE  \E after : Visits(after, b, s, n)
<1>1. \E it : IsFold(it, b, s, SUBSET (1 .. n))
  <2>1. {d \in SUBSET (1 .. n) : Cardinality(d) <= n} = SUBSET (1 .. n)
    <3>1. IsFiniteSet(1 .. n) /\ Cardinality(1 .. n) = n  BY FS_Interval
    <3> QED  BY <3>1, FS_Subset
  <2>2. \A k \in Nat : \E it :
            IsFold(it, b, s, {d \in SUBSET (1 .. n) : Cardinality(d) <= k})
    BY FoldUpTo
  <2> QED  BY <2>1, <2>2
<1> DEFINE it == CHOOSE f : IsFold(f, b, s, SUBSET (1 .. n))
           after == [k \in 0 .. n |-> it[1 .. k]]
<1>2. IsFold(it, b, s, SUBSET (1 .. n))  BY <1>1
<1>3. Retained(b, s) = it[1 .. n]
  BY DEF Retained, V0!FoldLeft, V0!MapThenFoldSet, IsFold
<1> HIDE DEF it
<1>4. after[0] = b
  <2>1. 1 .. 0 = {}  OBVIOUS
  <2> QED  BY <1>2, <2>1 DEF IsFold
<1>5. ASSUME NEW k \in 1 .. n
      PROVE  after[k] = V0!Visit(after[k - 1], s[k])
  <2>1. 1 .. k \in SUBSET (1 .. n) /\ 1 .. k # {}
    <3>1. k \in 1 .. k  OBVIOUS
    <3>2. \A i \in 1 .. k : i \in 1 .. n  OBVIOUS
    <3> QED  BY <3>1, <3>2
  <2>2. V0!Max(1 .. k) = k
    <3>1. V0!Max(1 .. k) \in 1 .. k /\ \A i \in 1 .. k : i <= V0!Max(1 .. k)
      BY <2>1, MaxIs
    <3> QED  BY <3>1
  <2>3. (1 .. k) \ {k} = 1 .. (k - 1)  OBVIOUS
  <2>4. it[1 .. k] = V0!Visit(it[1 .. (k - 1)], s[k])
    BY <1>2, <2>1, <2>2, <2>3 DEF IsFold
  <2>5. k \in 0 .. n /\ k - 1 \in 0 .. n  OBVIOUS
  <2> QED  BY <2>4, <2>5
<1>6. after[n] = Retained(b, s)  BY <1>3
<1>7. Visits(after, b, s, n)  BY <1>4, <1>5, <1>6 DEF Visits
<1> QED  BY <1>7
\* What a partial fill of x leaves of order o.
LOCAL Lowered(o, x) == [o EXCEPT !.volume = @ - x]

\* An empty supply: the closure of retain keeps the order.
LEMMA VisitNone ==
    ASSUME NEW b, b.supply = 0, NEW o
    PROVE  V0!Visit(b, o) = b
BY DEF V0!Visit

LOCAL IsRecord(b) == b = V0!Book(b.seq, b.supply, b.given, b.orders)

LOCAL ServedFrom(b, u, n, R) == [V0!Grant(b, u, n) EXCEPT !.orders = R]

\* The book that Grant makes.
LEMMA GrantBook ==
    ASSUME NEW b, IsRecord(b), NEW u, NEW n
    PROVE  V0!Grant(b, u, n)
             = V0!Book(b.seq, b.supply - n, Credit(b.given, u, n), b.orders)
<1>1. \A w : V0!HeldIn(b, w) = GivenTo(b.given, w)
  BY DEF V0!HeldIn, GivenTo
<1> DEFINE more == [w \in DOMAIN b.given \cup {u} |->
                        IF w = u THEN V0!HeldIn(b, w) + n ELSE b.given[w]]
           credit == Credit(b.given, u, n)
<1>2. more = credit
  BY <1>1 DEF Credit
<1>3. V0!Grant(b, u, n) = [b EXCEPT !.supply = b.supply - n, !.given = more]
  BY DEF V0!Grant
<1> HIDE DEF more, credit
<1>4. V0!Grant(b, u, n) = V0!Book(b.seq, b.supply - n, credit, b.orders)
  BY <1>2, <1>3 DEF V0!Book, IsRecord
<1> QED  BY <1>4 DEF credit

\* The book that Grant and the change of the orders make.
LEMMA ServedBook ==
    ASSUME NEW b, IsRecord(b), NEW u, NEW n, NEW R
    PROVE  ServedFrom(b, u, n, R)
             = V0!Book(b.seq, b.supply - n, Credit(b.given, u, n), R)
<1>1. V0!Grant(b, u, n)
        = V0!Book(b.seq, b.supply - n, Credit(b.given, u, n), b.orders)
  BY GrantBook
<1> QED  BY <1>1 DEF V0!Book, ServedFrom

\* Enough for the order: it leaves the book.
LEMMA VisitFull ==
    ASSUME NEW b, IsRecord(b), NEW o, b.supply > 0, b.supply # 0,
           b.supply >= o.volume
    PROVE  V0!Visit(b, o)
             = V0!Book(b.seq, b.supply - o.volume,
                       Credit(b.given, o.user, o.volume), b.orders \ {o})
<1>1. V0!Visit(b, o) = ServedFrom(b, o.user, o.volume, b.orders \ {o})
  BY DEF V0!Visit, ServedFrom
<1> QED  BY <1>1, ServedBook

\* Less than that: the order stays, lowered by what was left.
LEMMA VisitPart ==
    ASSUME NEW b, IsRecord(b), NEW o, b.supply # 0, ~(b.supply >= o.volume)
    PROVE  V0!Visit(b, o)
             = V0!Book(b.seq, b.supply - b.supply, Credit(b.given, o.user, b.supply),
                       (b.orders \ {o}) \cup {Lowered(o, b.supply)})
<1>1. V0!Visit(b, o) = ServedFrom(b, o.user, b.supply,
                              (b.orders \ {o}) \cup {Lowered(o, b.supply)})
  BY DEF V0!Visit, ServedFrom, Lowered
<1> QED  BY <1>1, ServedBook

\* Book c is what a match of `total` with the orders O is on its way to, when
\* the orders in R have not been visited.
LOCAL OnTheWay(c, R, g, O, total) ==
    /\ c = V0!Book(c.seq, c.supply, c.given, c.orders)
    /\ c.supply \in Nat /\ IsAccount(c.given) /\ R \subseteq c.orders
    /\ c.supply > 0 => c.orders = R
    /\ OrdersAfter(O, total) = (c.orders \ R) \cup OrdersAfter(R, c.supply)
    /\ OfferAfter(O, total) = OfferAfter(R, c.supply)
    /\ GivenAfter(g, O, total) = GivenAfter(c.given, R, c.supply)

\* A visit of the first of the others goes one step on.
LEMMA VisitPeels ==
    ASSUME NEW U, NEW R, IsBook(R, U), NEW o, IsFirst(o, R), NEW c,
           NEW g, NEW O, NEW total, OnTheWay(c, R, g, O, total)
    PROVE  /\ OnTheWay(V0!Visit(c, o), R \ {o}, g, O, total)
           /\ V0!Visit(c, o).seq = c.seq
<1> DEFINE x == c.supply
           d == V0!Visit(c, o)
           lowered == Lowered(o, x)
<1>1. /\ c = V0!Book(c.seq, x, c.given, c.orders)
      /\ x \in Nat /\ IsAccount(c.given) /\ R \subseteq c.orders
      /\ x > 0 => c.orders = R
      /\ OrdersAfter(O, total) = (c.orders \ R) \cup OrdersAfter(R, x)
      /\ OfferAfter(O, total) = OfferAfter(R, x)
      /\ GivenAfter(g, O, total) = GivenAfter(c.given, R, x)
  BY DEF OnTheWay
<1>2. o \in R /\ o.volume \in Nat /\ IsBook(R \ {o}, U)
  BY FirstHasNoneAhead DEF IsFirst, IsBook
<1>v. c.supply = 0 => d = c
  BY VisitNone
<1>i. IsRecord(c)  BY <1>1 DEF IsRecord
<1>n. x \in Nat  BY <1>1
<1>f. c.supply > 0 /\ c.supply # 0 /\ c.supply >= o.volume =>
        V0!Visit(c, o) = V0!Book(c.seq, c.supply - o.volume,
                 Credit(c.given, o.user, o.volume), c.orders \ {o})
  BY <1>i, VisitFull
<1>p. c.supply # 0 /\ ~(c.supply >= o.volume) =>
        V0!Visit(c, o) = V0!Book(c.seq, c.supply - c.supply,
                Credit(c.given, o.user, c.supply),
                (c.orders \ {o}) \cup {Lowered(o, c.supply)})
  BY <1>i, VisitPart
<1>s. x > 0 => x # 0  BY <1>n
<1> HIDE DEF lowered, x, d
<1>3. CASE x = 0
  <2>1. OrdersAfter(R, 0) = R /\ OfferAfter(R, 0) = 0
        /\ GivenAfter(c.given, R, 0) = c.given
    BY <1>1, MatchIdle
  <2>2. OrdersAfter(R \ {o}, 0) = R \ {o} /\ OfferAfter(R \ {o}, 0) = 0
        /\ GivenAfter(c.given, R \ {o}, 0) = c.given
    BY <1>1, <1>2, MatchIdle
  <2>3. d = c  BY <1>3, <1>v DEF x
  <2>4. c.supply = 0 /\ ~(c.supply > 0)  BY <1>3 DEF x
  <2>5. (c.orders \ R) \cup R = (c.orders \ (R \ {o})) \cup (R \ {o})
    BY <1>1
  <2> QED  BY <1>1, <1>3, <2>1, <2>2, <2>3, <2>4, <2>5 DEF OnTheWay, x, d
<1>4. CASE x > 0 /\ x >= o.volume
  <2>1. d = V0!Book(c.seq, x - o.volume, Credit(c.given, o.user, o.volume), R \ {o})
    BY <1>1, <1>4, <1>s, <1>f DEF x, d
  <2>2. /\ d.seq = c.seq /\ d.supply = x - o.volume
        /\ d.given = Credit(c.given, o.user, o.volume) /\ d.orders = R \ {o}
    BY <2>1 DEF V0!Book
  <2>3. x - o.volume \in Nat /\ o.volume <= x  BY <1>1, <1>2, <1>4
  <2>4. /\ OrdersAfter(R, x) = OrdersAfter(R \ {o}, x - o.volume)
        /\ OfferAfter(R, x) = OfferAfter(R \ {o}, x - o.volume)
        /\ GivenAfter(c.given, R, x)
             = GivenAfter(Credit(c.given, o.user, o.volume), R \ {o}, x - o.volume)
    BY <1>1, <1>4, <2>3, MatchFull
  <2>5. IsAccount(d.given)  BY <1>1, <1>2, <2>2, CreditIsAccount
  <2>6. d.orders \ (R \ {o}) = {} /\ c.orders \ R = {}  BY <1>1, <1>4, <2>2
  <2>7. OnTheWay(d, R \ {o}, g, O, total)
    BY <1>1, <2>1, <2>2, <2>3, <2>4, <2>5, <2>6 DEF OnTheWay
  <2> QED  BY <2>2, <2>7 DEF d
<1>5. CASE x > 0 /\ ~(x >= o.volume)
  <2>1. d = V0!Book(c.seq, x - x, Credit(c.given, o.user, x), (R \ {o}) \cup {lowered})
    BY <1>1, <1>5, <1>s, <1>p DEF x, d, lowered
  <2>2. /\ d.seq = c.seq /\ d.supply = 0
        /\ d.given = Credit(c.given, o.user, x) /\ d.orders = (R \ {o}) \cup {lowered}
    <3>1. x - x = 0  BY <1>1
    <3> QED  BY <2>1, <3>1 DEF V0!Book
  <2>3. x < o.volume  BY <1>1, <1>2, <1>5
  <2>4. /\ OrdersAfter(R, x) = (R \ {o}) \cup {lowered}
        /\ OfferAfter(R, x) = 0 /\ GivenAfter(c.given, R, x) = Credit(c.given, o.user, x)
    BY <1>1, <1>5, <2>3, MatchPartial DEF lowered, Lowered
  <2>5. IsAccount(d.given)  BY <1>1, <2>2, CreditIsAccount
  <2>6. /\ OrdersAfter(R \ {o}, 0) = R \ {o} /\ OfferAfter(R \ {o}, 0) = 0
        /\ GivenAfter(d.given, R \ {o}, 0) = d.given
    BY <1>2, <2>5, MatchIdle
  <2>7. c.orders \ R = {} /\ d.orders = (d.orders \ (R \ {o})) \cup (R \ {o})
    BY <1>1, <1>5, <2>2
  <2>8. OnTheWay(d, R \ {o}, g, O, total)
    <3>1. 0 \in Nat /\ ~(0 > 0)  OBVIOUS
    <3>2. d = V0!Book(d.seq, d.supply, d.given, d.orders)
      <4>1. x - x = 0  BY <1>1
      <4> QED  BY <2>1, <2>2, <4>1
    <3>3. R \ {o} \subseteq d.orders  BY <2>2
    <3> QED  BY <1>1, <2>2, <2>4, <2>5, <2>6, <2>7, <3>1, <3>2, <3>3 DEF OnTheWay
  <2> QED  BY <2>2, <2>8 DEF d
<1> QED  BY <1>1, <1>3, <1>4, <1>5

\* The books of both models are told apart by nothing else than their fields.
LOCAL MatchOf(q, g, O, total) ==
    V0!Book(q, OfferAfter(O, total), GivenAfter(g, O, total), OrdersAfter(O, total))

\* sell_impl of the first version is a match of its book with the supply and the
\* volume sold.
LEMMA SellImplMatches ==
    ASSUME NEW U, NEW O, IsBook(O, U), NEW q, NEW x \in Nat, NEW g, IsAccount(g),
           NEW v \in Nat
    PROVE  V0!SellImpl(V0!Book(q, x, g, O), v) = MatchOf(q, g, O, x + v)
<1> DEFINE s == V0!InOrder(O)
           n == Cardinality(O)
           total == x + v
           start == V0!Book(q, total, g, O)
           R(k) == {s[i] : i \in k + 1 .. n}
<1>1. s \in V0!SetToSeqs(O) /\ \A i, j \in DOMAIN s : i < j => V0!Before(s[i], s[j])
  BY SortedExists DEF V0!InOrder
<1>2. n \in Nat  BY FS_CardinalityType DEF IsBook
<1>3. /\ s \in [1 .. n -> O] /\ \A i, j \in 1 .. n : i # j => s[i] # s[j]
      /\ \A i, j \in 1 .. n : i < j => Before(s[i], s[j])
  BY <1>1, BeforeRule, SameCardinality DEF V0!SetToSeqs
<1>4. V0!SellImpl(V0!Book(q, x, g, O), v) = Retained(start, s)
  BY DEF V0!SellImpl, V0!Book, Retained
<1> HIDE DEF s, n, total, start
<1>5. \A o \in O : \E i \in 1 .. n : s[i] = o
  <2>1. s \in Injection(1 .. n, O)  BY <1>3 DEF Injection, IsInjective
  <2>2. Cardinality(1 .. n) = n  BY <1>2, FS_Interval
  <2>3. s \in Surjection(1 .. n, O)
    BY <2>1, <2>2, FS_Injection DEF IsBook, n
  <2> QED  BY <2>3 DEF Surjection
<1>6. PICK after : Visits(after, start, s, n)
  <2>1. DOMAIN s = 1 .. n  BY <1>3
  <2> QED  BY <1>2, <2>1, FoldVisits
<1>7. /\ after[0] = start /\ after[n] = Retained(start, s)
      /\ \A k \in 1 .. n : after[k] = V0!Visit(after[k - 1], s[k])
  BY <1>6 DEF Visits
<1> DEFINE Right(k) == /\ OnTheWay(after[k], R(k), g, O, total)
                       /\ after[k].seq = q
           Bad == {k \in Nat : k <= n /\ ~Right(k)}
<1>8. total \in Nat  BY DEF total
<1>9. Right(0)
  <2>1. R(0) = O  BY <1>2, <1>3, <1>5
  <2>2. /\ start.seq = q /\ start.supply = total /\ start.given = g
        /\ start.orders = O
    BY DEF start, V0!Book
  <2>3. O = (O \ O) \cup O /\ O \subseteq O  OBVIOUS
  <2>4. OnTheWay(start, O, g, O, total)
    BY <1>8, <2>2 DEF OnTheWay, start
  <2> HIDE DEF R
  <2> QED  BY <1>7, <2>1, <2>2, <2>4
<1>10. ASSUME NEW k \in Nat, k + 1 <= n, Right(k)  PROVE Right(k + 1)
  <2> DEFINE o == s[k + 1]
  <2>1. k + 1 \in 1 .. n /\ k + 1 - 1 = k  BY <1>2, <1>10
  <2>2. o \in R(k) /\ R(k) \subseteq O
    <3>1. \A i \in k + 1 .. n : i \in 1 .. n  BY <1>2, <1>10
    <3>2. k + 1 \in k + 1 .. n  BY <1>2, <1>10
    <3> QED  BY <1>3, <3>1, <3>2
  <2>3. \A p \in R(k) : p = o \/ \E i \in k + 2 .. n : p = s[i] /\ k + 1 < i /\ i \in 1 .. n
    BY <1>2, <1>10
  <2>4. R(k) \ {o} = R(k + 1)
    <3>1. \A i \in k + 2 .. n : i \in k + 1 .. n /\ i \in 1 .. n /\ i # k + 1
      BY <1>2, <1>10
    <3>2. k + 1 + 1 = k + 2  OBVIOUS
    <3> QED  BY <1>3, <2>1, <2>3, <3>1, <3>2
  <2>5. IsFirst(o, R(k))
    <3>1. \A p \in R(k) : p = o \/ Before(o, p)  BY <1>3, <2>1, <2>3
    <3> HIDE DEF R, o
    <3> QED  BY <2>2, <3>1 DEF IsFirst
  <2>6. IsBook(R(k), U)
    <3>1. IsFiniteSet(R(k))  BY <2>2, FS_Subset DEF IsBook
    <3> HIDE DEF R
    <3> QED  BY <2>2, <3>1 DEF IsBook
  <2>7. OnTheWay(after[k], R(k), g, O, total) /\ after[k].seq = q
    BY <1>10
  <2>8. after[k + 1] = V0!Visit(after[k], o)  BY <1>7, <2>1
  <2> HIDE DEF R, o
  <2>9. /\ OnTheWay(V0!Visit(after[k], o), R(k) \ {o}, g, O, total)
        /\ V0!Visit(after[k], o).seq = after[k].seq
    BY <2>5, <2>6, <2>7, VisitPeels
  <2> QED  BY <2>4, <2>7, <2>8, <2>9
<1>11. Right(n)
  <2>1. ASSUME Bad # {}  PROVE FALSE
    <3>1. PICK m \in Bad : \A k \in Bad : m <= k
      <4>1. Bad \subseteq Nat  OBVIOUS
      <4> HIDE DEF Bad
      <4> QED  BY <2>1, <4>1, LeastNat
    <3> HIDE DEF Right
    <3>2. m \in Nat /\ m <= n /\ m # 0  BY <1>9
    <3>3. m - 1 \in Nat /\ m - 1 + 1 = m /\ ~(m <= m - 1)  BY <3>2
    <3>4. m - 1 <= n  BY <1>2, <3>2
    <3>5. Right(m - 1)  BY <3>1, <3>3, <3>4
    <3>6. Right(m)  BY <1>10, <3>2, <3>3, <3>5
    <3> QED  BY <3>6
  <2> HIDE DEF Right
  <2> QED  BY <1>2, <2>1
<1> DEFINE c == after[n]
<1>12. /\ c = V0!Book(c.seq, c.supply, c.given, c.orders) /\ c.seq = q
       /\ c.supply \in Nat /\ IsAccount(c.given)
       /\ OrdersAfter(O, total) = (c.orders \ {}) \cup OrdersAfter({}, c.supply)
       /\ OfferAfter(O, total) = OfferAfter({}, c.supply)
       /\ GivenAfter(g, O, total) = GivenAfter(c.given, {}, c.supply)
  <2>1. R(n) = {}  BY <1>2
  <2> HIDE DEF R
  <2> QED  BY <1>11, <2>1 DEF OnTheWay
<1> HIDE DEF c
<1>13. /\ OrdersAfter({}, c.supply) = {} /\ OfferAfter({}, c.supply) = c.supply
       /\ GivenAfter(c.given, {}, c.supply) = c.given
  <2>1. IsBook({}, U)  BY FS_EmptySet DEF IsBook
  <2> QED  BY <1>12, <2>1, MatchIdle
<1>14. c = MatchOf(q, g, O, total)
  <2>1. (c.orders \ {}) \cup {} = c.orders  OBVIOUS
  <2> QED  BY <1>12, <1>13, <2>1 DEF MatchOf
<1> QED  BY <1>4, <1>7, <1>14 DEF c, total

\* A book with one more bid in it.
Stored(c, o) == [c EXCEPT !.orders = @ \cup {o}]

\* It is a book again.
LEMMA StoredBook ==
    ASSUME NEW n, NEW y, NEW h, NEW S, NEW o
    PROVE  Stored(V0!Book(n, y, h, S), o) = V0!Book(n, y, h, S \cup {o})
<1> DEFINE r == V0!Book(n, y, h, S)
           T == S \cup {o}
<1>1. r.orders \cup {o} = T  BY DEF V0!Book
<1>2. [r EXCEPT !.orders = @ \cup {o}] = [r EXCEPT !.orders = T]  BY <1>1
<1> HIDE DEF T
<1>3. [r EXCEPT !.orders = T] = V0!Book(n, y, h, T)  BY DEF V0!Book
<1> HIDE DEF r
<1> QED  BY <1>2, <1>3 DEF Stored, T, r

\* The book with the next number.
LEMMA NextNumber ==
    ASSUME NEW q, NEW x, NEW g, NEW O
    PROVE  LET b == V0!Book(q, x, g, O)
               next == V0!Book(q + 1, x, g, O)
           IN  /\ b.seq = q /\ b.supply = x /\ next.supply = x
               /\ [b EXCEPT !.seq = b.seq + 1] = next
               /\ \A u, n : V0!Grant(next, u, n)
                                = V0!Book(q + 1, x - n, Credit(g, u, n), O)
<1> DEFINE b == V0!Book(q, x, g, O)
           k == q + 1
           next == V0!Book(k, x, g, O)
<1>1. /\ next.seq = k /\ next.supply = x /\ next.given = g /\ next.orders = O
      /\ IsRecord(next)
  BY DEF V0!Book, IsRecord
<1>2. b.seq = q /\ b.supply = x /\ [b EXCEPT !.seq = k] = next  BY DEF V0!Book
<1>3. \A u, n : V0!Grant(next, u, n) = V0!Book(k, x - n, Credit(g, u, n), O)
  <2> HIDE DEF next, k
  <2> QED  BY <1>1, GrantBook
<1> QED  BY <1>1, <1>2, <1>3

\* Without supply the bid is stored.
LEMMA BuyWaits ==
    ASSUME NEW q \in Nat, NEW x \in Nat, NEW g, NEW O, NEW u, NEW v \in Nat, NEW p,
           x = 0
    PROVE  V0!BuyImpl(V0!Book(q, x, g, O), u, v, p)
             = V0!Book(q + 1, x, g, O \cup {V0!Bid(u, v, p, q + 1)})
<1> DEFINE b == V0!Book(q, x, g, O)
           next == V0!Book(q + 1, x, g, O)
           Keep(c, n) == [c EXCEPT !.orders = @ \cup {V0!Bid(u, n, p, q + 1)}]
<1>1. /\ b.seq = q /\ b.supply = x
      /\ [b EXCEPT !.seq = b.seq + 1] = next
      /\ \A a, n : V0!Grant(next, a, n) = V0!Book(q + 1, x - n, Credit(g, a, n), O)
  BY NextNumber
<1> HIDE DEF b, next
<1>2. V0!BuyImpl(b, u, v, p) =
          CASE x = 0 -> Keep(next, v)
            [] x > 0 /\ x >= v -> V0!Grant(next, u, v)
            [] OTHER -> Keep(V0!Grant(next, u, x), v - x)
  <2>1. \A S : [next EXCEPT !.orders = S]
                  = [[b EXCEPT !.seq = q + 1] EXCEPT !.orders = S]
    BY <1>1
  <2> QED  BY <1>1, <2>1 DEF V0!BuyImpl
<1>3. V0!BuyImpl(b, u, v, p) = Stored(next, V0!Bid(u, v, p, q + 1))
  <2>1. V0!BuyImpl(b, u, v, p) = Keep(next, v)
    <3> HIDE DEF Keep
    <3> QED  BY <1>2
  <2> QED  BY <2>1 DEF Stored
<1> HIDE DEF Keep
<1> QED  BY <1>3, StoredBook DEF b, next

\* With enough supply the bid is served.
LEMMA BuyServed ==
    ASSUME NEW q \in Nat, NEW x \in Nat, NEW g, NEW O, NEW u, NEW v \in Nat, NEW p,
           x > 0, x >= v
    PROVE  V0!BuyImpl(V0!Book(q, x, g, O), u, v, p)
             = V0!Book(q + 1, x - v, Credit(g, u, v), O)
<1> DEFINE b == V0!Book(q, x, g, O)
           next == V0!Book(q + 1, x, g, O)
<1>1. /\ b.seq = q /\ b.supply = x
      /\ [b EXCEPT !.seq = b.seq + 1] = next
      /\ \A a, n : V0!Grant(next, a, n) = V0!Book(q + 1, x - n, Credit(g, a, n), O)
  BY NextNumber
<1> HIDE DEF b, next
<1>2. V0!BuyImpl(b, u, v, p) = V0!Grant(next, u, v)
  BY <1>1 DEF V0!BuyImpl, Stored
<1> QED  BY <1>1, <1>2 DEF b

\* With less it gets what there is, and its rest is stored.
LEMMA BuyPartly ==
    ASSUME NEW q \in Nat, NEW x \in Nat, NEW g, NEW O, NEW u, NEW v \in Nat, NEW p,
           x > 0, x < v
    PROVE  V0!BuyImpl(V0!Book(q, x, g, O), u, v, p)
             = V0!Book(q + 1, 0, Credit(g, u, x), O \cup {V0!Bid(u, v - x, p, q + 1)})
<1> DEFINE b == V0!Book(q, x, g, O)
           next == V0!Book(q + 1, x, g, O)
           Keep(c, n) == [c EXCEPT !.orders = @ \cup {V0!Bid(u, n, p, q + 1)}]
<1>1. /\ b.seq = q /\ b.supply = x
      /\ [b EXCEPT !.seq = b.seq + 1] = next
      /\ \A a, n : V0!Grant(next, a, n) = V0!Book(q + 1, x - n, Credit(g, a, n), O)
  BY NextNumber
<1> HIDE DEF b, next
<1>2. V0!BuyImpl(b, u, v, p) =
          CASE x = 0 -> Keep(next, v)
            [] x > 0 /\ x >= v -> V0!Grant(next, u, v)
            [] OTHER -> Keep(V0!Grant(next, u, x), v - x)
  <2>1. \A S : [next EXCEPT !.orders = S]
                  = [[b EXCEPT !.seq = q + 1] EXCEPT !.orders = S]
    BY <1>1
  <2> QED  BY <1>1, <2>1 DEF V0!BuyImpl
<1>3. V0!Grant(next, u, x) = V0!Book(q + 1, 0, Credit(g, u, x), O)
  <2>1. x - x = 0  OBVIOUS
  <2> QED  BY <1>1, <2>1
<1>4. V0!BuyImpl(b, u, v, p)
        = Stored(V0!Grant(next, u, x), V0!Bid(u, v - x, p, q + 1))
  <2>1. V0!BuyImpl(b, u, v, p) = Keep(V0!Grant(next, u, x), v - x)
    <3>1. x # 0 /\ ~(x >= v)  OBVIOUS
    <3> HIDE DEF Keep
    <3> QED  BY <1>2, <3>1
  <2> QED  BY <2>1 DEF Stored
<1> HIDE DEF Keep
<1> QED  BY <1>3, <1>4, StoredBook DEF b

\* buy_impl of the first version is a match of its supply with its book and the
\* bid, which has either no supply or no other bid to meet.
LEMMA BuyImplMatches ==
    ASSUME NEW U, NEW O, NEW q \in Nat, NEW x \in Nat, NEW g, IsAccount(g),
           x = 0 \/ O = {}, NEW u, NEW v \in Nat, NEW p,
           IsBook(O \cup {V0!Bid(u, v, p, q + 1)}, U)
    PROVE  V0!BuyImpl(V0!Book(q, x, g, O), u, v, p)
             = MatchOf(q + 1, g, O \cup {V0!Bid(u, v, p, q + 1)}, x)
<1> DEFINE o == V0!Bid(u, v, p, q + 1)
           lowered == [o EXCEPT !.volume = @ - x]
<1>1. o.user = u /\ o.volume = v /\ lowered = V0!Bid(u, v - x, p, q + 1)
  BY DEF V0!Bid
<1> HIDE DEF o
<1>2. CASE x = 0
  <2>1. /\ OrdersAfter(O \cup {o}, 0) = O \cup {o} /\ OfferAfter(O \cup {o}, 0) = 0
        /\ GivenAfter(g, O \cup {o}, 0) = g
    BY MatchIdle DEF o
  <2>2. MatchOf(q + 1, g, O \cup {o}, x) = V0!Book(q + 1, 0, g, O \cup {o})
    BY <1>2, <2>1 DEF MatchOf
  <2>3. V0!BuyImpl(V0!Book(q, x, g, O), u, v, p) = V0!Book(q + 1, 0, g, O \cup {o})
    BY <1>2, BuyWaits DEF o
  <2> QED  BY <2>2, <2>3 DEF o
<1>3. CASE x > 0
  <2>1. O = {} /\ O \cup {o} = {o} /\ IsBook({o}, U)  BY <1>3 DEF o
  <2>2. CASE x >= v
    <3>1. /\ OrdersAfter({o}, x) = {} /\ OfferAfter({o}, x) = x - v
          /\ GivenAfter(g, {o}, x) = Credit(g, u, v)
      BY <1>1, <1>3, <2>1, <2>2, MatchAlone
    <3>2. MatchOf(q + 1, g, {o}, x) = V0!Book(q + 1, x - v, Credit(g, u, v), {})
      BY <3>1 DEF MatchOf
    <3>3. V0!BuyImpl(V0!Book(q, x, g, {}), u, v, p)
            = V0!Book(q + 1, x - v, Credit(g, u, v), {})
      BY <1>3, <2>2, BuyServed
    <3> QED  BY <2>1, <3>2, <3>3 DEF o
  <2>3. CASE x < v
    <3>1. /\ OrdersAfter({o}, x) = {lowered} /\ OfferAfter({o}, x) = 0
          /\ GivenAfter(g, {o}, x) = Credit(g, u, x)
      BY <1>1, <1>3, <2>1, <2>3, MatchAlone
    <3> HIDE DEF lowered
    <3>2. MatchOf(q + 1, g, {o}, x) = V0!Book(q + 1, 0, Credit(g, u, x), {lowered})
      BY <3>1 DEF MatchOf
    <3>3. V0!BuyImpl(V0!Book(q, x, g, {}), u, v, p)
            = V0!Book(q + 1, 0, Credit(g, u, x), {} \cup {lowered})
      BY <1>1, <1>3, <2>3, BuyPartly
    <3> QED  BY <2>1, <3>2, <3>3 DEF o
  <2> QED  BY <2>2, <2>3
<1> QED  BY <1>2, <1>3

-----------------------------------------------------------------------------
(* The tests: their tasks, interleaved, are run one after the other *)

Task == Nat \X (BuyRequest \cup SellRequest)

\* Each busy worker runs a task of its own, which nobody else will take.
TasksTaken ==
    /\ pc \in [Workers -> Labels]
    /\ req \in [Workers -> BuyRequest \cup SellRequest \cup {NoRequest}]
    /\ running \in [Workers -> Task \cup {NoTask}]
    /\ phase \subseteq Task /\ pending \in Seq(SUBSET Task)
    /\ \A w \in Workers : pc[w] # "idle" =>
        /\ running[w] \in Task \ phase /\ running[w][2] = req[w]
        /\ \A v \in Workers : pc[v] # "idle" /\ running[v] = running[w] => v = w

\* What the tasks that are out consist of.
LEMMA OutstandingTasks ==
    Outstanding = phase \cup {running[w] : w \in {v \in Workers : pc[v] # "idle"}}
BY DEF Outstanding

\* A worker at work moves nobody else, and keeps its request until it returns.
LEMMA WorkMoves ==
    ASSUME TasksTaken, NEW w \in Workers, Lock(w) \/ Step(w)
    PROVE  /\ pc[w] # "idle"
           /\ pc' \in [Workers -> Labels]
           /\ req' \in [Workers -> BuyRequest \cup SellRequest \cup {NoRequest}]
           /\ \A v \in Workers \ {w} : pc'[v] = pc[v] /\ req'[v] = req[v]
           /\ pc'[w] # "idle" => req'[w] = req[w]
<1> USE DEF TasksTaken, Labels
<1>1. CASE Lock(w)  BY <1>1 DEF Lock
<1>2. CASE Bump(w)  BY <1>2 DEF Bump
<1>3. CASE Load(w)  BY <1>3 DEF Load
<1>4. CASE Add(w)  BY <1>4 DEF Add
<1>5. CASE NextBid(w)  BY <1>5 DEF NextBid
<1>6. CASE StoreBid(w)  BY <1>6 DEF StoreBid
<1>7. CASE KeepBid(w)  BY <1>7 DEF KeepBid
<1>8. CASE CompareExchange(w)  BY <1>8 DEF CompareExchange
<1>9. CASE GetAllocation(w)  BY <1>9 DEF GetAllocation
<1>10. CASE PutAllocation(w)  BY <1>10 DEF PutAllocation
<1>11. CASE EndSell(w)  BY <1>11 DEF EndSell
<1>12. CASE Metrics(w)  BY <1>12 DEF Metrics
<1>13. CASE PutPanics(w) \/ SumPanics(w) \/ Unlock(w)
  <2>1. pc[w] # "idle" /\ Return(w)
    BY <1>13 DEF PutPanics, SumPanics, Panic, Unlock
  <2> QED  BY <2>1 DEF Return
<1> QED
  BY <1>1, <1>2, <1>3, <1>4, <1>5, <1>6, <1>7, <1>8, <1>9, <1>10, <1>11,
     <1>12, <1>13 DEF Step

\* A task that was spawned is taken by one worker, and is out until it returns.
LEMMA TasksStep ==
    ASSUME TasksTaken, [NextTest]_testVars
    PROVE  TasksTaken'
<1>1. CASE Spawn
  <2>1. \A w \in Workers : pc[w] = "idle"
    BY <1>1, OutstandingTasks DEF Spawn
  <2>2. UNCHANGED <<pc, req, running>>
    BY <1>1 DEF Spawn, vars, locals
  <2>3. phase' \subseteq Task /\ pending' \in Seq(SUBSET Task)
    <3>1. Head(pending) \in SUBSET Task /\ Tail(pending) \in Seq(SUBSET Task)
      BY <1>1 DEF Spawn, TasksTaken
    <3> QED  BY <1>1, <3>1 DEF Spawn
  <2> QED  BY <2>1, <2>2, <2>3 DEF TasksTaken
<1>2. ASSUME NEW w \in Workers, Start(w)  PROVE TasksTaken'
  <2>1. PICK t \in phase : /\ Receive(w, t[2]) /\ phase' = phase \ {t}
                           /\ running' = [running EXCEPT ![w] = t]
    BY <1>2 DEF Start
  <2>2. t \in Task /\ t[2] \in BuyRequest \cup SellRequest
    BY DEF TasksTaken, Task
  <2>3. /\ pc[w] = "idle" /\ pc' = [pc EXCEPT ![w] = "lock"]
        /\ req' = [req EXCEPT ![w] = t[2]] /\ pending' = pending
    BY <1>2, <2>1 DEF Receive, Start
  <2> HIDE DEF Task
  <2>4. \A v \in Workers : pc'[v] # "idle" => v = w \/ pc[v] # "idle"
    BY <2>3 DEF TasksTaken
  <2>5. /\ running'[w] = t /\ req'[w] = t[2]
        /\ \A v \in Workers \ {w} : running'[v] = running[v] /\ req'[v] = req[v]
    BY <2>1, <2>3 DEF TasksTaken
  <2>6. \A v \in Workers : pc[v] # "idle" => running[v] \in Task \ phase
    BY DEF TasksTaken
  <2>7. /\ pc' \in [Workers -> Labels]
        /\ req' \in [Workers -> BuyRequest \cup SellRequest \cup {NoRequest}]
        /\ running' \in [Workers -> Task \cup {NoTask}]
        /\ phase' \subseteq Task /\ pending' \in Seq(SUBSET Task)
    BY <2>1, <2>2, <2>3 DEF TasksTaken, Labels
  <2>8. ASSUME NEW v \in Workers, pc'[v] # "idle"
        PROVE  /\ running'[v] \in Task \ phase' /\ running'[v][2] = req'[v]
               /\ \A u \in Workers : pc'[u] # "idle" /\ running'[u] = running'[v] => u = v
    <3>1. CASE v = w
      BY <2>1, <2>2, <2>4, <2>5, <2>6, <3>1
    <3>2. CASE v # w
      BY <2>1, <2>2, <2>4, <2>5, <2>6, <2>8, <3>2 DEF TasksTaken
    <3> QED  BY <3>1, <3>2
  <2> QED  BY <2>7, <2>8 DEF TasksTaken
<1>3. ASSUME NEW w \in Workers, Work(w)  PROVE TasksTaken'
  <2>1. /\ pc[w] # "idle" /\ pc' \in [Workers -> Labels]
        /\ req' \in [Workers -> BuyRequest \cup SellRequest \cup {NoRequest}]
        /\ \A v \in Workers \ {w} : pc'[v] = pc[v] /\ req'[v] = req[v]
        /\ pc'[w] # "idle" => req'[w] = req[w]
    BY <1>3, WorkMoves DEF Work
  <2>2. /\ phase' = phase /\ pending' = pending
        /\ running' = IF pc'[w] = "idle" THEN [running EXCEPT ![w] = NoTask]
                                         ELSE running
    BY <1>3 DEF Work
  <2> QED  BY <2>1, <2>2 DEF TasksTaken
<1>4. CASE UNCHANGED testVars
  BY <1>4 DEF testVars, script, vars, locals, TasksTaken
<1> QED  BY <1>1, <1>2, <1>3, <1>4 DEF NextTest, Joined

\* The tasks that are out: a worker that takes one changes nothing, one that
\* returns has run its own.
LEMMA OutstandingStep ==
    ASSUME TasksTaken, NEW w \in Workers
    PROVE  /\ Start(w) => Outstanding' = Outstanding
           /\ Work(w) /\ pc'[w] # "idle" => Outstanding' = Outstanding
           /\ Work(w) /\ pc'[w] = "idle" =>
                /\ running[w] \in Outstanding
                /\ Outstanding' = Outstanding \ {running[w]}
<1>1. Outstanding' = phase' \cup {running'[v] : v \in {u \in Workers : pc'[u] # "idle"}}
  BY DEF Outstanding
<1>2. ASSUME Start(w)  PROVE Outstanding' = Outstanding
  <2>1. PICK t \in phase : /\ Receive(w, t[2]) /\ phase' = phase \ {t}
                           /\ running' = [running EXCEPT ![w] = t]
    BY <1>2 DEF Start
  <2>2. /\ pc[w] = "idle" /\ pc'[w] = "lock" /\ running'[w] = t
        /\ \A v \in Workers \ {w} : pc'[v] = pc[v] /\ running'[v] = running[v]
    BY <2>1 DEF Receive, TasksTaken
  <2>3. \A v \in Workers : pc[v] # "idle" => running[v] # t
    BY DEF TasksTaken
  <2> QED  BY <1>1, <2>1, <2>2, <2>3, OutstandingTasks
<1>3. ASSUME Work(w)
      PROVE  /\ pc'[w] # "idle" => Outstanding' = Outstanding
             /\ pc'[w] = "idle" =>
                  /\ running[w] \in Outstanding
                  /\ Outstanding' = Outstanding \ {running[w]}
  <2>1. pc[w] # "idle" /\ \A v \in Workers \ {w} : pc'[v] = pc[v]
    BY <1>3, WorkMoves DEF Work
  <2>2. /\ phase' = phase
        /\ running' = IF pc'[w] = "idle" THEN [running EXCEPT ![w] = NoTask]
                                         ELSE running
    BY <1>3 DEF Work
  <2>3. \A v \in Workers \ {w} : running'[v] = running[v]
    BY <2>2 DEF TasksTaken
  <2>4. CASE pc'[w] # "idle"
    BY <1>1, <2>1, <2>2, <2>4, OutstandingTasks
  <2>5. CASE pc'[w] = "idle"
    <3>1. running[w] \notin phase
          /\ \A v \in Workers \ {w} : pc[v] # "idle" => running[v] # running[w]
      BY <2>1 DEF TasksTaken
    <3> QED  BY <1>1, <2>1, <2>2, <2>3, <2>5, <3>1, OutstandingTasks
  <2> QED  BY <2>4, <2>5
<1> QED  BY <1>2, <1>3

\* A test with a bid in its book from the start: one of the two that sell to it.
IsSolo(c) ==
    \E n, m \in Nat \ {0} :
        /\ c.start = V0!Book(0, 0, V0!Nobody, {V0!Bid("u1", n, 2, 1)})
        /\ c.phases = <<{<<1, V0!Sell(m)>>}>>

StartsWithout(c) == \E n \in Nat : c.start = V0!Book(0, n, V0!Nobody, {})

\* All the other tests start from an empty book.
LEMMA CaseStarts ==
    ASSUME NEW c \in http_tests \cup concurrency_tests \cup property_tests
                     \cup unit_tests
    PROVE  c \in V0!Cases /\ (StartsWithout(c) \/ IsSolo(c))
<1>1. c \in V0!Cases
  BY DEF http_tests, concurrency_tests, property_tests, unit_tests, V0!Cases,
     V0!UnitTests
<1>2. \A n, s, p : V0!Case(n, s, p).start = s
  BY DEF V0!Case
<1>3. \A n, s, p, r : V0!Expecting(n, s, p, r).start = s
  BY DEF V0!Expecting
<1>4. \A s : s = V0!Empty => \E n \in Nat : s = V0!Book(0, n, V0!Nobody, {})
  BY DEF V0!Empty, V0!Book, V0!Nobody
<1>5. \A n : V0!WithSupply(n) = V0!Book(0, n, V0!Nobody, {})
  BY DEF V0!WithSupply, V0!Empty, V0!Book, V0!Nobody
<1>6. \A o : V0!WithBid(o) = V0!Book(0, 0, V0!Nobody, {o})
  <2> TAKE o
  <2> DEFINE S == {o}
  <2> HIDE DEF S
  <2>1. [V0!Empty EXCEPT !.orders = S] = V0!Book(0, 0, V0!Nobody, S)
    BY DEF V0!Empty, V0!Book, V0!Nobody
  <2> QED  BY <2>1 DEF V0!WithBid, S
<1>m. MaxVolume \in Nat  BY TestsAssumption
<1>7. CASE c \in V0!test_basics_buy_sell_and_allocation \cup V0!unused_supply_auto_sold
  <2>1. c.start = V0!Empty
    BY <1>2, <1>3, <1>7
       DEF V0!test_basics_buy_sell_and_allocation, V0!unused_supply_auto_sold
  <2> QED  BY <1>1, <1>4, <2>1 DEF StartsWithout
<1>8. CASE c \in V0!same_price_buy_requests \cup V0!buy_and_sell \cup
                 V0!buys_no_oversell_v2
  <2>1. c.start = V0!Empty
    BY <1>2, <1>8
       DEF V0!same_price_buy_requests, V0!buy_and_sell, V0!buys_no_oversell_v2
  <2> QED  BY <1>1, <1>4, <2>1 DEF StartsWithout
<1>9. CASE c \in V0!buys_no_oversell
  <2>1. c.start = V0!WithSupply(500)  BY <1>2, <1>9 DEF V0!buys_no_oversell
  <2> QED  BY <1>1, <1>5, <2>1 DEF StartsWithout
<1>10. CASE c \in V0!allocation_monotonically_increases
  <2> DEFINE Round(b, s) == <<V0!Alone(V0!Buy("u1", b.volume, b.price))>> \o
                            [i \in DOMAIN s |-> V0!Alone(V0!Sell(s[i]))]
             Phases(s, bs) == V0!FlattenSeq([i \in DOMAIN bs |-> Round(bs[i], s)])
  <2>1. V0!allocation_monotonically_increases
          = {V0!Case("allocation_monotonically_increases", V0!Empty, Phases(s, bs)) :
                s \in V0!Vectors(V0!TestVolumes), bs \in V0!Vectors(V0!Pairs)}
    BY DEF V0!allocation_monotonically_increases
  <2> HIDE DEF Phases
  <2>2. \E s \in V0!Vectors(V0!TestVolumes), bs \in V0!Vectors(V0!Pairs) :
            c = V0!Case("allocation_monotonically_increases", V0!Empty, Phases(s, bs))
    BY <1>10, <2>1
  <2> QED  BY <1>1, <1>4, <2>2 DEF StartsWithout, V0!Case
<1>11. CASE c \in V0!supply_conservation
  <2> DEFINE Phases(s, bs) ==
                [i \in DOMAIN bs |-> V0!Alone(V0!Buy("u1", bs[i].volume, bs[i].price))]
                \o [i \in DOMAIN s |-> V0!Alone(V0!Sell(s[i]))]
  <2>1. V0!supply_conservation
          = {V0!Case("supply_conservation", V0!Empty, Phases(s, bs)) :
                s \in V0!Vectors(V0!TestVolumes), bs \in V0!Vectors(V0!Pairs)}
    BY DEF V0!supply_conservation
  <2> HIDE DEF Phases
  <2>2. \E s \in V0!Vectors(V0!TestVolumes), bs \in V0!Vectors(V0!Pairs) :
            c = V0!Case("supply_conservation", V0!Empty, Phases(s, bs))
    BY <1>11, <2>1
  <2> QED  BY <1>1, <1>4, <2>2 DEF StartsWithout, V0!Case
<1>12a. CASE c \in V0!fifo_within_same_price
  <2>1. \E s \in 1 .. 2 * MaxVolume, p \in V0!TestPrices, v \in V0!TestVolumes :
            c = V0!Case("fifo_within_same_price", V0!Empty,
                    <<V0!Alone(V0!Buy("u1", v, p)), V0!Alone(V0!Buy("u2", v, p)),
                      V0!Alone(V0!Sell(s))>>)
    BY <1>12a DEF V0!fifo_within_same_price
  <2> QED  BY <1>1, <1>4, <2>1 DEF StartsWithout, V0!Case
<1>12b. CASE c \in V0!higher_price_always_fills_first
  <2>1. \E s \in 1 .. 2 * MaxVolume, lo \in V0!TestPrices,
           hi \in MaxPrice + 1 .. 2 * MaxPrice, v \in V0!TestVolumes :
            c = V0!Case("higher_price_always_fills_first", V0!Empty,
                    <<V0!Alone(V0!Buy("lo", v, lo)), V0!Alone(V0!Buy("hi", v, hi)),
                      V0!Alone(V0!Sell(s))>>)
    BY <1>12b DEF V0!higher_price_always_fills_first
  <2> QED  BY <1>1, <1>4, <2>1 DEF StartsWithout, V0!Case
<1>12c. CASE c \in V0!allocated_never_exceeds_supply
  <2>1. \E n \in 0 .. MaxVolume, v \in 0 .. MaxVolume, p \in V0!TestPrices :
            c = V0!Case("allocated_never_exceeds_supply", V0!WithSupply(n),
                    <<V0!Alone(V0!Buy("u1", v, p))>>)
    BY <1>12c DEF V0!allocated_never_exceeds_supply
  <2>2. \E n \in Nat : c.start = V0!WithSupply(n)  BY <1>m, <2>1 DEF V0!Case
  <2> QED  BY <1>1, <1>5, <2>2 DEF StartsWithout
<1>12d. CASE c \in V0!partial_fill_remainder_stays_open
  <2>1. \E r \in {q \in V0!TestVolumes \X V0!TestVolumes : q[1] < q[2]},
           p \in V0!TestPrices :
            c = V0!Case("partial_fill_remainder_stays_open", V0!WithSupply(r[1]),
                    <<V0!Alone(V0!Buy("u1", r[2], p))>>)
    BY <1>12d DEF V0!partial_fill_remainder_stays_open
  <2>2. \E n \in Nat : c.start = V0!WithSupply(n)
    BY <1>m, <2>1 DEF V0!Case, V0!TestVolumes
  <2> QED  BY <1>1, <1>5, <2>2 DEF StartsWithout
<1>13. CASE c \in V0!sell
  <2>1. CASE c.start = V0!Empty
    BY <1>1, <1>4, <2>1 DEF StartsWithout
  <2>2. ASSUME NEW n \in Nat \ {0}, NEW m \in Nat \ {0}, NEW name, NEW result,
               c = V0!Expecting(name, V0!WithBid(V0!Bid("u1", n, 2, 1)),
                                <<V0!Sell(m)>>, result)
        PROVE  IsSolo(c)
    <3>1. c.start = V0!Book(0, 0, V0!Nobody, {V0!Bid("u1", n, 2, 1)})
      BY <1>3, <1>6, <2>2
    <3>2. c.phases = <<{<<1, V0!Sell(m)>>}>>
      BY <2>2 DEF V0!Expecting, V0!Alone
    <3> QED  BY <3>1, <3>2 DEF IsSolo
  <2> QED  BY <1>1, <1>3, <1>13, <2>1, <2>2 DEF V0!sell
<1>14. CASE c \in V0!buy
  <2>1. c.start = V0!Empty \/ \E n \in Nat : c.start = V0!WithSupply(n)
    BY <1>3, <1>14 DEF V0!buy
  <2> QED  BY <1>1, <1>4, <1>5, <2>1 DEF StartsWithout
<1>15. CASE c \in V0!higher_price_always_fills_first_unit
  <2>1. c.start = V0!Empty
    BY <1>3, <1>15 DEF V0!higher_price_always_fills_first_unit
  <2> QED  BY <1>1, <1>4, <2>1 DEF StartsWithout
<1>16. CASE c \in V0!buy_same_user_buys_twice
  <2>1. c.start = V0!Empty \/ \E n \in Nat : c.start = V0!WithSupply(n)
    BY <1>3, <1>16 DEF V0!buy_same_user_buys_twice
  <2> QED  BY <1>1, <1>4, <1>5, <2>1 DEF StartsWithout
<1> QED
  BY <1>7, <1>8, <1>9, <1>10, <1>11, <1>12a, <1>12b, <1>12c, <1>12d, <1>13, <1>14, <1>15, <1>16
     DEF http_tests, concurrency_tests, property_tests, unit_tests

-----------------------------------------------------------------------------
(* What a step of a test is in the first version *)

\* The book of the first version.
TestBook == V0!Book(base.seq, base.supply, base.allocations, base.bids)

\* As long as base, the tasks that are out and those to come stay, nothing has
\* happened.
LEMMA SameBook ==
    ASSUME UNCHANGED <<base, Outstanding, case, pending>>
    PROVE  UNCHANGED V0!vars
BY DEF V0!vars

\* Nothing does.
LEMMA IdleSteps ==
    ASSUME UNCHANGED testVars
    PROVE  UNCHANGED V0!vars
<1>1. UNCHANGED <<phase, pc, running, base, case, pending>>
  BY DEF testVars, script, vars, locals
<1>2. Outstanding' = Outstanding  BY <1>1 DEF Outstanding
<1> QED  BY <1>1, <1>2, SameBook

\* The tasks of a phase are spawned in both.
LEMMA SpawnSteps ==
    ASSUME TasksTaken, Spawn
    PROVE  V0!Spawn
<1>1. \A w \in Workers : pc[w] = "idle" /\ pc'[w] = "idle"
  BY OutstandingTasks DEF Spawn, vars, locals
<1>2. Outstanding' = phase'
  <2>1. Outstanding' = phase' \cup
            {running'[w] : w \in {v \in Workers : pc'[v] # "idle"}}
    BY DEF Outstanding
  <2> QED  BY <1>1, <2>1
<1>3. base' = base /\ case' = case  BY DEF Spawn
<1> QED  BY <1>2, <1>3 DEF Spawn, V0!Spawn

\* A worker that returns, with the book as its request makes it, has run its
\* task.
LEMMA ReturnSteps ==
    ASSUME TasksTaken, NEW w \in Workers, Work(w), pc[w] # "idle",
           pc'[w] = "idle", TestBook' = V0!Run(TestBook, req[w])
    PROVE  V0!RunTask
<1>1. req[w] = running[w][2]  BY DEF TasksTaken
<1>2. /\ running[w] \in Outstanding
      /\ Outstanding' = Outstanding \ {running[w]}
  BY OutstandingStep
<1>3. case' = case /\ pending' = pending  BY DEF Work
<1> QED  BY <1>1, <1>2, <1>3 DEF V0!RunTask, TestBook, V0!Book

-----------------------------------------------------------------------------
(* A test that starts from an empty book: the engine keeps all it promises *)

\* What the lock guards, when it was last taken.
BaseBook ==
    /\ base.seq \in Nat /\ base.supply \in Nat
    /\ IsAccount(base.allocations) /\ IsBook(base.bids, Users)
    /\ \A b \in base.bids : b.seq <= base.seq
    /\ base.supply = 0 \/ base.bids = {}

EngineHolds == IInv /\ Backed /\ Books /\ RefInv /\ BaseBook

\* The data of a free lock is a book, with no supply left over.
LEMMA StateIsBook ==
    ASSUME IInv, ~poisoned, holder = NoWorker, base = state
    PROVE  BaseBook
<1>1. /\ base.seq = buy_seq_no /\ base.supply = supply
      /\ base.allocations = allocations /\ base.bids = bids
  BY DEF state
<1>2. /\ IsBook(bids, Users) /\ IsAccount(allocations)
      /\ supply \in Nat /\ buy_seq_no \in Nat
  <2>1. bids \in SUBSET bids  OBVIOUS
  <2> QED  BY <2>1, BidsAreABook
<1>3. \A b \in bids : b.seq <= buy_seq_no  BY DEF IInv, BookKeys
<1>4. supply = 0 \/ bids = {}  BY <1>2 DEF IInv, NoIdleSupply
<1> QED  BY <1>1, <1>2, <1>3, <1>4 DEF BaseBook

\* The same after the step.
LEMMA NextStateIsBook ==
    IInv' /\ ~poisoned' /\ (holder = NoWorker)' /\ (base = state)' => BaseBook'
<1>1. IInv /\ ~poisoned /\ holder = NoWorker /\ base = state => BaseBook
  BY StateIsBook
<1> QED  BY <1>1, PTL

\* A handler that returns has done what buy_impl or sell_impl of the first
\* version does to the book in one go.
LEMMA ReturnRuns ==
    ASSUME IInv, BaseBook, NEW w \in Workers, pc[w] = "unlock", Done(w),
           base' = state
    PROVE  TestBook' = V0!Run(TestBook, req[w])
<1>1. TestBook' = V0!Book(buy_seq_no, supply, allocations, bids)
  BY DEF TestBook, state
<1>2. req[w] \in BuyRequest \/ req[w] \in SellRequest
  BY DEF IInv, LockDiscipline
<1>3. CASE req[w] \in BuyRequest
  <2>1. /\ req[w].op = "buy" /\ req[w].user \in Users
        /\ req[w].volume \in Volumes /\ req[w].price \in Prices
    BY <1>3 DEF BuyRequest
  <2>2. req[w].volume \in Nat /\ req[w].price \in Int
    <3>1. Volumes \subseteq Nat /\ Prices \subseteq Int
      BY ConstantsAssumption
    <3> QED  BY <2>1, <3>1
  <2> DEFINE o == V0!Bid(req[w].user, req[w].volume, req[w].price, base.seq + 1)
  <2>3. OrderOf(w) = o  BY DEF OrderOf, V0!Bid
  <2>4. IsBook(base.bids \cup {o}, Users)
    <3>1. o \in [user : Users, volume : Nat, price : Int, seq : Nat]
          /\ o.seq = base.seq + 1
      BY <2>1, <2>2 DEF BaseBook, V0!Bid
    <3> HIDE DEF o
    <3>2. IsFiniteSet(base.bids \cup {o})
      BY FS_AddElement DEF BaseBook, IsBook
    <3>3. \A b \in base.bids : b.seq \in Nat /\ b.seq <= base.seq
      BY DEF BaseBook, IsBook
    <3>4. \A b \in base.bids : b.seq # o.seq
      BY <3>1, <3>3 DEF BaseBook
    <3> QED  BY <3>1, <3>2, <3>4 DEF BaseBook, IsBook
  <2>5. V0!BuyImpl(TestBook, req[w].user, req[w].volume, req[w].price)
          = MatchOf(base.seq + 1, base.allocations, base.bids \cup {o}, base.supply)
    BY <2>2, <2>4, BuyImplMatches DEF BaseBook, TestBook
  <2>6. /\ buy_seq_no = base.seq + 1
        /\ Reached(base.bids \cup {o}, base.supply)
    BY <2>1, <2>3 DEF Done
  <2> HIDE DEF o
  <2>7. V0!Run(TestBook, req[w])
          = V0!BuyImpl(TestBook, req[w].user, req[w].volume, req[w].price)
    BY <2>1 DEF V0!Run
  <2> QED  BY <1>1, <2>5, <2>6, <2>7 DEF Reached, MatchOf
<1>4. CASE req[w] \in SellRequest
  <2>1. req[w].op = "sell" /\ req[w].volume \in Volumes
    BY <1>4 DEF SellRequest
  <2>2. req[w].volume \in Nat
    <3>1. Volumes \subseteq Nat  BY ConstantsAssumption
    <3> QED  BY <2>1, <3>1
  <2>3. V0!SellImpl(TestBook, req[w].volume)
          = MatchOf(base.seq, base.allocations, base.bids, base.supply + req[w].volume)
    BY <2>2, SellImplMatches DEF BaseBook, TestBook
  <2>4. /\ buy_seq_no = base.seq
        /\ Reached(base.bids, base.supply + req[w].volume)
    BY <2>1 DEF Done
  <2>5. V0!Run(TestBook, req[w]) = V0!SellImpl(TestBook, req[w].volume)
    BY <2>1 DEF V0!Run
  <2> QED  BY <1>1, <2>3, <2>4, <2>5 DEF Reached, MatchOf
<1> QED  BY <1>2, <1>3, <1>4

\* The steps of a test are steps of the engine.
LEMMA TestIsEngine ==
    ASSUME TasksTaken, RefInv, [NextTest]_testVars
    PROVE  [NextH]_<<vars, base>>
<1>1. CASE Spawn  BY <1>1 DEF Spawn
<1>2. ASSUME NEW w \in Workers, Start(w)  PROVE NextH
  <2>1. PICK t \in phase : Receive(w, t[2])  BY <1>2 DEF Start
  <2>2. t[2] \in BuyRequest \cup SellRequest  BY DEF TasksTaken, Task
  <2>3. Call(w)  BY <2>1, <2>2 DEF Call
  <2>4. state' = state /\ holder' = holder /\ base' = base
    BY <1>2, <2>1 DEF Receive, state, Start
  <2> QED  BY <2>3, <2>4 DEF NextH, Next, RefInv
<1>3. ASSUME NEW w \in Workers, Work(w)  PROVE NextH
  BY <1>3 DEF Work, NextH, Next
<1>4. CASE UNCHANGED testVars  BY <1>4 DEF testVars
<1> QED  BY <1>1, <1>2, <1>3, <1>4 DEF NextTest, Joined

\* Each step of a test is one of the first version, or none.
LEMMA TestStep ==
    ASSUME TasksTaken, EngineHolds, Fits, Fits', [NextTest]_testVars
    PROVE  EngineHolds' /\ [V0!Next]_V0!vars
<1> USE DEF EngineHolds
<1>1. [NextH]_<<vars, base>>  BY TestIsEngine
<1>2. [Next]_vars  BY <1>1 DEF NextH
<1>3. IInv' /\ Backed' /\ Books'  BY <1>2, InvStep, BackedStep, BooksStep
<1>4. RefInv'  BY <1>1, <1>3, NextRef
<1>5. base' = base \/ (holder' = NoWorker /\ base' = state')
  BY <1>1 DEF NextH
<1>6. BaseBook'
  <2>1. CASE base' = base  BY <2>1 DEF BaseBook
  <2>2. CASE holder' = NoWorker /\ base' = state'
    BY <1>3, <1>4, <2>2, NextStateIsBook DEF RefInv
  <2> QED  BY <1>5, <2>1, <2>2
<1>7. CASE Spawn  BY <1>3, <1>4, <1>6, <1>7, SpawnSteps DEF V0!Next
<1>8. ASSUME NEW w \in Workers, Start(w)  PROVE UNCHANGED V0!vars
  BY <1>8, OutstandingStep, SameBook DEF Start
<1>9. ASSUME NEW w \in Workers, Work(w)  PROVE [V0!Next]_V0!vars
  <2>1. case' = case /\ pending' = pending  BY <1>9 DEF Work
  <2>2. CASE Lock(w)
    <3>1. base' = base /\ pc'[w] # "idle"
      BY <1>3, <1>9, <2>2, OutsideProgress DEF Work, Lock, IInv, TypeOK
    <3> QED  BY <1>9, <2>1, <3>1, OutstandingStep, SameBook
  <2>3. CASE Step(w) /\ ~Unlock(w)
    <3>1. holder' # NoWorker /\ pc'[w] # "idle"
      BY <2>3, InsideKeepsLock
    <3>2. base' = base  BY <1>9, <3>1 DEF Work
    <3> QED  BY <1>9, <2>1, <3>1, <3>2, OutstandingStep, SameBook
  <2>4. CASE Unlock(w)
    <3>1. /\ pc[w] = "unlock" /\ pc'[w] = "idle" /\ holder' = NoWorker
          /\ state' = state
      BY <2>4 DEF Unlock, Return, state, IInv, TypeOK
    <3>2. base' = state  BY <1>9, <3>1 DEF Work
    <3>3. Done(w)  BY <3>1 DEF RefInv, Progress
    <3>4. TestBook' = V0!Run(TestBook, req[w])  BY <3>1, <3>2, <3>3, ReturnRuns
    <3> QED  BY <1>9, <3>1, <3>4, ReturnSteps DEF V0!Next
  <2> QED  BY <1>9, <2>2, <2>3, <2>4 DEF Work
<1>10. CASE UNCHANGED testVars
  BY <1>3, <1>4, <1>6, <1>10, IdleSteps
<1> QED  BY <1>3, <1>4, <1>6, <1>7, <1>8, <1>9, <1>10 DEF NextTest, Joined

\* A test that starts from an empty book starts like the engine, but for the
\* supply.
LEMMA InitEngine ==
    ASSUME InitTest, Fits, StartsWithout(case)
    PROVE  EngineHolds
<1>1. PICK n \in Nat : case.start = V0!Book(0, n, V0!Nobody, {})
  BY DEF StartsWithout
<1>2. /\ supply = n /\ bids = {} /\ buy_seq_no = 0 /\ offered = n
      /\ allocations = [u \in {} |-> 0] /\ DOMAIN allocations = {}
      /\ demand = [u \in Users |-> Open({}, u)]
  BY <1>1 DEF InitTest, V0!Book, V0!Nobody
<1>3. n \in U64  BY <1>2, ConstantsAssumption DEF Fits, U64
<1>4. demand = [u \in Users |-> 0]
  <2>1. \A u : Open({}, u) = 0
    <3>1. \A u : {b \in {} : b.user = u} = {}  OBVIOUS
    <3> QED  BY <3>1, SumEmpty DEF Open
  <2> QED  BY <1>2, <2>1
<1>5. TypeOK
  BY <1>2, <1>3, <1>4, U64Values, FS_EmptySet DEF InitTest, TypeOK, Labels
<1>6. LockDiscipline /\ BookKeys /\ VisitOrder /\ Taken /\ NothingPassedOver
      /\ NoIdleSupply /\ ReadsStayFresh
  <2>1. holder = NoWorker /\ NoWorker \notin Workers /\ ~poisoned
        /\ \A w \in Workers : pc[w] = "idle"
    BY ConstantsAssumption DEF InitTest
  <2>2. LockDiscipline  BY <2>1 DEF LockDiscipline
  <2>3. BookKeys /\ VisitOrder /\ Taken
    BY <1>2, <2>1 DEF BookKeys, VisitOrder, Taken
  <2>4. NothingPassedOver /\ NoIdleSupply /\ ReadsStayFresh
    BY <1>2, <2>1 DEF NothingPassedOver, NoIdleSupply, ReadsStayFresh
  <2> QED  BY <2>2, <2>3, <2>4
<1>7. IInv  BY <1>5, <1>6 DEF IInv
<1>8. InHand = 0 /\ TotalAllocated = 0
  <2>1. InHand = 0  BY DEF InitTest, InHand
  <2>2. TotalAllocated = 0
    BY <1>2, SumEmpty DEF TotalAllocated, SumFunction
  <2> QED  BY <2>1, <2>2
<1>9. Backed
  BY <1>2, <1>8 DEF Backed, Held
<1>10. Books  BY <1>2, <1>8 DEF Books
<1>11. RefInv  BY DEF InitTest, RefInv, Progress
<1>12. BaseBook  BY <1>7, StateIsBook DEF InitTest
<1> QED  BY <1>7, <1>9, <1>10, <1>11, <1>12 DEF EngineHolds

\* Nobody is busy when a test starts, and its tasks make requests.
LEMMA InitTasks ==
    ASSUME InitTest
    PROVE  TasksTaken /\ Outstanding = {} /\ case \in V0!Cases
<1>1. case \in V0!Cases  BY CaseStarts DEF InitTest
<1>2. pending \in Seq(SUBSET Task)
  BY <1>1, RequestsAssumption DEF InitTest, Task
<1>3. TasksTaken
  BY <1>2 DEF InitTest, TasksTaken, Labels
<1> QED  BY <1>1, <1>3, OutstandingTasks DEF InitTest

\* Both versions start a test from the same book.
LEMMA InitIsV0 ==
    ASSUME InitTest
    PROVE  V0!Init
<1>1. /\ case.start.seq = 0 /\ case.start.given = V0!Nobody
      /\ case.start = V0!Book(0, case.start.supply, V0!Nobody, case.start.orders)
  <2>1. \E n, S : case.start = V0!Book(0, n, V0!Nobody, S)
    <3>1. StartsWithout(case) \/ IsSolo(case)  BY CaseStarts DEF InitTest
    <3>2. ASSUME StartsWithout(case)
          PROVE  \E n, S : case.start = V0!Book(0, n, V0!Nobody, S)
      BY <3>2 DEF StartsWithout
    <3>3. ASSUME IsSolo(case)
          PROVE  \E n, S : case.start = V0!Book(0, n, V0!Nobody, S)
      BY <3>3 DEF IsSolo
    <3> QED  BY <3>1, <3>2, <3>3
  <2>2. PICK n, S : case.start = V0!Book(0, n, V0!Nobody, S)  BY <2>1
  <2>3. /\ case.start.seq = 0 /\ case.start.given = V0!Nobody
        /\ case.start.supply = n /\ case.start.orders = S
    BY <2>2 DEF V0!Book
  <2> QED  BY <2>2, <2>3
<1>2. /\ base.seq = 0 /\ base.supply = case.start.supply
      /\ base.bids = case.start.orders /\ base.allocations = V0!Nobody
  BY <1>1 DEF InitTest, state
<1>3. TestBook = case.start  BY <1>1, <1>2 DEF TestBook
<1> QED  BY <1>3, InitTasks DEF V0!Init, InitTest, TestBook, V0!Book

-----------------------------------------------------------------------------
(* The two unit tests that sell to a book with one bid in it *)

SoloBid(n) == V0!Bid("u1", n, 2, 1)

\* Where worker w is in a sell of m to a book of one bid, for n.
SoloPlace(w, n, m) ==
    LET o == SoloBid(n)
    IN  /\ pc[w] \in {"lock", "add", "next", "try", "get", "put", "unlock"}
        /\ pc[w] \in {"lock", "add"} => base = state
        /\ pc[w] \in {"next", "try", "get", "put"} => m < Modulus
        /\ pc[w] = "next" /\ todo[w] # {} => 
            /\ todo[w] = {o} /\ bids = {o} /\ allocations = V0!Nobody
            /\ supply = m
        /\ pc[w] = "next" /\ todo[w] = {} =>
            Reached({o}, m) /\ TotalAllocated <= m /\ TotalAllocated \in Nat
        /\ pc[w] \in Filling =>
            /\ bid[w] = o /\ todo[w] = {} /\ current[w] = m
            /\ bids = {o} /\ allocations = V0!Nobody
        /\ pc[w] = "try" => supply = m
        /\ pc[w] \in {"get", "put"} => supply = SaturatingSub(m, n)
        /\ pc[w] = "put" => held[w] = 0
        /\ pc[w] = "unlock" => Reached({o}, m)

\* The book is as the test starts with it, and so it is when the lock was taken.
SoloBase(n) ==
    /\ base = [supply |-> 0, allocations |-> V0!Nobody, bids |-> {SoloBid(n)},
               seq |-> 0]
    /\ buy_seq_no = 0 /\ ~poisoned /\ offered \in Nat

\* The locals of a worker that may meet bid o alone.
SoloLocals(n) ==
    /\ bid \in [Workers -> {NoBid, SoloBid(n)}]
    /\ todo \in [Workers -> SUBSET {SoloBid(n)}]
    /\ current \in [Workers -> Nat] /\ held \in [Workers -> Nat]

SoloBusy(w, n, m) ==
    /\ req[w] = V0!Sell(m)
    /\ holder = IF pc[w] = "lock" THEN NoWorker ELSE w
    /\ SoloBase(n) /\ SoloLocals(n) /\ SoloPlace(w, n, m)

\* The bid alone is a book.
LEMMA SoloBook ==
    ASSUME NEW n \in Nat
    PROVE  /\ IsBook({SoloBid(n)}, {"u1"}) /\ IsAccount(V0!Nobody)
           /\ SoloBid(n).user = "u1" /\ SoloBid(n).volume = n
<1> DEFINE o == SoloBid(n)
<1>1. o \in [user : {"u1"}, volume : Nat, price : Int, seq : Nat]
      /\ o.user = "u1" /\ o.volume = n
  BY DEF SoloBid, V0!Bid
<1>2. IsAccount(V0!Nobody)  BY DEF IsAccount, V0!Nobody
<1> HIDE DEF o
<1>3. IsFiniteSet({o})  BY FS_Singleton
<1> QED  BY <1>1, <1>2, <1>3 DEF IsBook, o

\* An account of one user sums to what the user has.
LEMMA SoloTotal ==
    ASSUME NEW f \in Nat
    PROVE  SumFunction(Credit(V0!Nobody, "u1", f)) = f
<1> DEFINE g == Credit(V0!Nobody, "u1", f)
<1>1. DOMAIN g = {"u1"} /\ g["u1"] = f
  BY DEF Credit, GivenTo, V0!Nobody
<1> HIDE DEF g
<1>2. SumFunctionOnSet(g, {} \cup {"u1"}) = g["u1"] + SumFunctionOnSet(g, {})
  BY <1>1, FS_EmptySet, SumAdd
<1>3. SumFunctionOnSet(g, {"u1"}) = f  BY <1>1, <1>2, SumEmpty
<1> QED  BY <1>1, <1>3 DEF SumFunction, g

\* The one bid is given its volume, or all that is sold.
LEMMA SoloPut ==
    ASSUME NEW w \in Workers, NEW n \in Nat \ {0}, NEW m \in Nat \ {0},
           SoloBusy(w, n, m), pc[w] = "put"
    PROVE  /\ ~PutPanics(w)
           /\ PutAllocation(w) =>
                /\ bids' = OrdersAfter({SoloBid(n)}, m)
                /\ supply = OfferAfter({SoloBid(n)}, m)
                /\ allocations' = GivenAfter(V0!Nobody, {SoloBid(n)}, m)
                /\ TotalAllocated' \in Nat /\ TotalAllocated' <= m
<1> DEFINE o == SoloBid(n)
           f == IF n <= m THEN n ELSE m
<1>1. /\ bid[w] = o /\ current[w] = m /\ held[w] = 0 /\ bids = {o}
      /\ allocations = V0!Nobody /\ supply = SaturatingSub(m, n) /\ m < Modulus
      /\ req[w].op = "sell"
  BY DEF SoloBusy, SoloPlace, V0!Sell
<1>2. /\ o.user = "u1" /\ o.volume = n /\ IsBook({o}, {"u1"})
      /\ IsAccount(V0!Nobody)
  BY SoloBook
<1> HIDE DEF o
<1>3. Fill(w) = f /\ f \in Nat /\ f <= m /\ f < Modulus
  BY <1>1, <1>2, ConstantsAssumption DEF Fill, Lesser
<1>4. ~AllocationOverflows(w) /\ WrappingAdd(held[w], Fill(w)) = f
  BY <1>1, <1>3, ConstantsAssumption DEF AllocationOverflows, WrappingAdd
<1>5. ~PutPanics(w)  BY <1>4 DEF PutPanics
<1>6. ASSUME PutAllocation(w)
      PROVE  /\ allocations' = Credit(V0!Nobody, "u1", f) /\ bids' = Settle(w)
  <2> DEFINE h == WrappingAdd(held[w], Fill(w))
  <2> HIDE DEF f
  <2>1. h = f  BY <1>4
  <2> HIDE DEF h
  <2>2. /\ allocations' = [u \in DOMAIN allocations \cup {bid[w].user} |->
                             IF u = bid[w].user THEN h ELSE allocations[u]]
        /\ bids' = Settle(w)
    BY <1>6 DEF PutAllocation, h
  <2>3. f + 0 = f /\ 0 + f = f  BY <1>3
  <2>4. GivenTo(V0!Nobody, "u1") = 0  BY DEF GivenTo, V0!Nobody
  <2> QED  BY <1>1, <1>2, <2>1, <2>2, <2>3, <2>4 DEF Credit
<1>7. ASSUME PutAllocation(w)
      PROVE  /\ bids' = OrdersAfter({o}, m) /\ supply = OfferAfter({o}, m)
             /\ allocations' = GivenAfter(V0!Nobody, {o}, m)
  <2>m. m \in Nat /\ m > 0  OBVIOUS
  <2>1. CASE n <= m
    <3>0. /\ OrdersAfter({o}, m) = {} /\ OfferAfter({o}, m) = m - n
          /\ GivenAfter(V0!Nobody, {o}, m) = Credit(V0!Nobody, "u1", n)
      <4>1. o.volume <= m  BY <1>2, <2>1
      <4>2. /\ OrdersAfter({o}, m) = {} /\ OfferAfter({o}, m) = m - o.volume
            /\ GivenAfter(V0!Nobody, {o}, m) = Credit(V0!Nobody, o.user, o.volume)
        BY <1>2, <2>m, <4>1, MatchAlone
      <4> QED  BY <1>2, <4>2
    <3>1. bids' = {}  BY <1>1, <1>2, <1>6, <1>7, <2>1 DEF Settle
    <3>2. supply = m - n  BY <1>1, <2>1 DEF SaturatingSub
    <3> QED  BY <1>6, <1>7, <2>1, <3>0, <3>1, <3>2
  <2>2. CASE n > m
    <3> DEFINE lowered == [o EXCEPT !.volume = @ - m]
    <3>1. Settle(w) = (bids \ {o}) \cup {[o EXCEPT !.volume = n - m]}
      BY <1>1, <1>2, <2>2 DEF Settle
    <3>2. [o EXCEPT !.volume = n - m] = lowered  BY <1>2
    <3> HIDE DEF lowered
    <3>3. bids' = {lowered}  BY <1>1, <1>6, <1>7, <3>1, <3>2
    <3>4. supply = 0  BY <1>1, <2>2 DEF SaturatingSub
    <3>5. /\ OrdersAfter({o}, m) = {lowered} /\ OfferAfter({o}, m) = 0
          /\ GivenAfter(V0!Nobody, {o}, m) = Credit(V0!Nobody, "u1", m)
      <4>1. o.volume > m  BY <1>2, <2>2
      <4>2. /\ OrdersAfter({o}, m) = {[o EXCEPT !.volume = @ - m]}
            /\ OfferAfter({o}, m) = 0
            /\ GivenAfter(V0!Nobody, {o}, m) = Credit(V0!Nobody, o.user, m)
        BY <1>2, <2>m, <4>1, MatchAlone
      <4> QED  BY <1>2, <4>2 DEF lowered
    <3> QED  BY <1>6, <1>7, <2>2, <3>3, <3>4, <3>5
  <2> QED  BY <2>1, <2>2
<1>8. ASSUME PutAllocation(w)  PROVE TotalAllocated' = f
  <2> HIDE DEF f
  <2>1. TotalAllocated' = SumFunction(allocations')  BY DEF TotalAllocated
  <2> QED  BY <1>3, <1>6, <1>8, <2>1, SoloTotal
<1> QED  BY <1>3, <1>5, <1>7, <1>8 DEF o

\* The sell goes on, and base stays until it returns.
LEMMA SoloWork ==
    ASSUME TasksTaken, Fits', NEW w \in Workers,
           NEW n \in Nat \ {0}, NEW m \in Nat \ {0}, SoloBusy(w, n, m),
           Lock(w) \/ (Step(w) /\ ~Unlock(w)),
           base' = IF holder' = NoWorker THEN state' ELSE base
    PROVE  /\ SoloBusy(w, n, m)' /\ pc'[w] # "idle" /\ base' = base
<1> DEFINE o == SoloBid(n)
<1>p. pc \in [Workers -> Labels] /\ w # NoWorker
  BY ConstantsAssumption DEF TasksTaken
<1>r. req[w].op = "sell" /\ req[w].volume = m
  BY DEF SoloBusy, V0!Sell
<1>s. SoloBase(n) /\ SoloLocals(n) /\ SoloPlace(w, n, m)
      /\ holder = (IF pc[w] = "lock" THEN NoWorker ELSE w)
  BY DEF SoloBusy
<1>b. /\ base.supply = 0 /\ base.allocations = V0!Nobody /\ base.bids = {o}
      /\ base.seq = 0
  BY <1>s DEF SoloBase
<1>i. /\ SoloBase(n) /\ UNCHANGED <<base, buy_seq_no, poisoned>> /\ offered' \in Nat
            => SoloBase(n)'
  BY <1>s DEF SoloBase
<1>q. ASSUME pc'[w] \in {"add", "next", "try", "get", "put", "unlock"},
             req' = req, holder' = w, UNCHANGED <<buy_seq_no, poisoned>>,
             offered' \in Nat, SoloLocals(n)',
             base' = base => SoloPlace(w, n, m)'
      PROVE  SoloBusy(w, n, m)' /\ pc'[w] # "idle" /\ base' = base
  <2>1. base' = base  BY <1>p, <1>q
  <2>2. SoloBase(n)'  BY <1>i, <1>q, <1>s, <2>1
  <2> QED  BY <1>q, <2>1, <2>2 DEF SoloBusy
<1>f. offered \in Nat  BY <1>s DEF SoloBase
<1> HIDE DEF o
<1>1. CASE Lock(w)
  <2>1. /\ pc[w] = "lock" /\ pc'[w] = "add" /\ holder' = w /\ req' = req
        /\ UNCHANGED <<buy_seq_no, poisoned, offered, bid, todo, current, held,
                       supply, allocations, bids>>
    BY <1>1, <1>p, <1>r DEF Lock
  <2>2. SoloLocals(n)'  BY <1>s, <2>1 DEF SoloLocals
  <2>3. base' = base => SoloPlace(w, n, m)'
    BY <1>s, <2>1 DEF SoloPlace, state
  <2> QED  BY <1>f, <1>q, <2>1, <2>2, <2>3
<1>2. CASE Add(w)
  <2>1. /\ pc[w] = "add" /\ pc'[w] = "next" /\ holder' = holder /\ req' = req
        /\ supply' = WrappingAdd(supply, m) /\ offered' = offered + m
        /\ todo' = [todo EXCEPT ![w] = bids]
        /\ UNCHANGED <<buy_seq_no, poisoned, bid, current, held,
                       allocations, bids>>
    BY <1>2, <1>p, <1>r DEF Add
  <2>2. /\ supply = 0 /\ bids = {o} /\ allocations = V0!Nobody /\ holder' = w
        /\ offered' \in Nat
    BY <1>b, <1>f, <1>s, <2>1 DEF SoloPlace, state
  <2>3. m < Modulus /\ supply' = m
    BY <1>f, <2>1, <2>2, ConstantsAssumption DEF Fits, WrappingAdd
  <2>4. SoloLocals(n)' /\ todo'[w] = {o}
    BY <1>s, <2>1, <2>2 DEF SoloLocals, o
  <2>5. base' = base => SoloPlace(w, n, m)'
    BY <2>1, <2>2, <2>3, <2>4 DEF SoloPlace, o
  <2> QED  BY <1>q, <2>1, <2>2, <2>4, <2>5
<1>3. CASE NextBid(w)
  <2>1. /\ pc[w] = "next" /\ pc'[w] = "try" /\ holder' = holder /\ req' = req
        /\ todo[w] # {}
        /\ bid' = [bid EXCEPT ![w] = First(todo[w])]
        /\ todo' = [todo EXCEPT ![w] = todo[w] \ {First(todo[w])}]
        /\ current' = [current EXCEPT ![w] = supply]
        /\ UNCHANGED <<buy_seq_no, poisoned, offered, held,
                       supply, allocations, bids>>
    BY <1>3, <1>p DEF NextBid
  <2>2. /\ todo[w] = {o} /\ bids = {o} /\ allocations = V0!Nobody /\ supply = m
        /\ m < Modulus /\ holder' = w
    BY <1>s, <2>1 DEF SoloPlace, o
  <2>3. First({o}) = o  BY DEF First
  <2>4. /\ SoloLocals(n)' /\ bid'[w] = o /\ todo'[w] = {} /\ current'[w] = m
    BY <1>s, <2>1, <2>2, <2>3 DEF SoloLocals, o
  <2>5. base' = base => SoloPlace(w, n, m)'
    BY <2>1, <2>2, <2>4 DEF SoloPlace, o
  <2> QED  BY <1>f, <1>q, <2>1, <2>2, <2>4, <2>5
<1>4. CASE CompareExchange(w)
  <2>1. /\ pc[w] = "try" /\ bid[w] = o /\ todo[w] = {} /\ current[w] = m
        /\ bids = {o} /\ allocations = V0!Nobody /\ supply = m /\ m < Modulus
        /\ holder = w
    BY <1>4, <1>s DEF SoloPlace, CompareExchange, o
  <2>2. o.volume = n  BY SoloBook DEF o
  <2>3. /\ pc'[w] = "get" /\ holder' = holder /\ req' = req
        /\ supply' = SaturatingSub(m, n)
        /\ UNCHANGED <<buy_seq_no, poisoned, offered, bid, todo, current, held,
                       allocations, bids>>
    BY <1>4, <1>p, <2>1, <2>2 DEF CompareExchange
  <2>4. SoloLocals(n)'  BY <1>s, <2>3 DEF SoloLocals
  <2>5. base' = base => SoloPlace(w, n, m)'
    BY <2>1, <2>3 DEF SoloPlace, SaturatingSub, o
  <2> QED  BY <1>f, <1>q, <2>1, <2>3, <2>4, <2>5
<1>5. CASE GetAllocation(w)
  <2>1. /\ pc[w] = "get" /\ bid[w] = o /\ todo[w] = {} /\ current[w] = m
        /\ bids = {o} /\ allocations = V0!Nobody /\ supply = SaturatingSub(m, n)
        /\ m < Modulus /\ holder = w
    BY <1>5, <1>s DEF SoloPlace, GetAllocation, o
  <2>2. Held(bid[w].user) = 0  BY <2>1 DEF Held, V0!Nobody
  <2>3. /\ pc'[w] = "put" /\ holder' = holder /\ req' = req
        /\ held' = [held EXCEPT ![w] = 0]
        /\ UNCHANGED <<buy_seq_no, poisoned, offered, bid, todo, current,
                       supply, allocations, bids>>
    BY <1>5, <1>p, <2>2 DEF GetAllocation
  <2>4. SoloLocals(n)' /\ held'[w] = 0  BY <1>s, <2>3 DEF SoloLocals
  <2>5. base' = base => SoloPlace(w, n, m)'
    BY <2>1, <2>3, <2>4 DEF SoloPlace, SaturatingSub, o
  <2> QED  BY <1>f, <1>q, <2>1, <2>3, <2>4, <2>5
<1>6. CASE PutAllocation(w)
  <2>1. pc[w] = "put" /\ todo[w] = {} /\ m < Modulus /\ holder = w
    BY <1>6, <1>s DEF SoloPlace, PutAllocation
  <2>2. /\ pc'[w] = "next" /\ holder' = holder /\ req' = req
        /\ UNCHANGED <<supply, buy_seq_no, poisoned, offered, bid, todo, current,
                       held>>
    BY <1>6, <1>p, <1>r DEF PutAllocation
  <2>3. /\ bids' = OrdersAfter({o}, m) /\ supply = OfferAfter({o}, m)
        /\ allocations' = GivenAfter(V0!Nobody, {o}, m)
        /\ TotalAllocated' \in Nat /\ TotalAllocated' <= m
    BY <1>6, <2>1, SoloPut DEF o
  <2>4. base' = base => Reached({o}, m)'
    BY <1>b, <2>2, <2>3 DEF Reached
  <2>5. SoloLocals(n)'  BY <1>s, <2>2 DEF SoloLocals
  <2>6. base' = base => SoloPlace(w, n, m)'
    <3>1. todo'[w] = {}  BY <2>1, <2>2
    <3> QED  BY <2>1, <2>2, <2>3, <2>4, <3>1 DEF SoloPlace, o
  <2> QED  BY <1>f, <1>q, <2>1, <2>2, <2>5, <2>6
<1>7. CASE EndSell(w)
  <2>1. pc[w] = "next" /\ todo[w] = {} /\ Reached({o}, m) /\ holder = w
    BY <1>7, <1>s DEF SoloPlace, EndSell, o
  <2>2. /\ pc'[w] = "unlock" /\ holder' = holder /\ req' = req
        /\ UNCHANGED <<buy_seq_no, poisoned, offered, bid, todo, current, held,
                       supply, allocations, bids>>
    BY <1>7, <1>p DEF EndSell
  <2>3. base' = base => Reached({o}, m)'  BY <2>1, <2>2 DEF Reached
  <2>4. SoloLocals(n)'  BY <1>s, <2>2 DEF SoloLocals
  <2>5. base' = base => SoloPlace(w, n, m)'
    BY <2>2, <2>3 DEF SoloPlace, o
  <2> QED  BY <1>f, <1>q, <2>1, <2>2, <2>4, <2>5
<1>8. ASSUME Bump(w) \/ Load(w) \/ StoreBid(w) \/ KeepBid(w) \/ PutPanics(w)
             \/ SumPanics(w) \/ Metrics(w)
      PROVE  FALSE
  <2>1. ~Bump(w) /\ ~Load(w) /\ ~Metrics(w)
    BY <1>s DEF SoloPlace, Bump, Load, Metrics
  <2>2. ~StoreBid(w)  BY <1>r DEF StoreBid
  <2>3. ~KeepBid(w)  BY <1>s DEF KeepBid, SoloPlace
  <2>4. ~PutPanics(w)  BY SoloPut DEF PutPanics
  <2>5. ~SumPanics(w)
    BY <1>s, ConstantsAssumption DEF SumPanics, SoloPlace
  <2> QED  BY <1>8, <2>1, <2>2, <2>3, <2>4, <2>5
<1> QED
  BY <1>1, <1>2, <1>3, <1>4, <1>5, <1>6, <1>7, <1>8 DEF Step

\* The sell that returns has done what sell_impl of the first version does.
LEMMA SoloReturn ==
    ASSUME TasksTaken, NEW w \in Workers,
           NEW n \in Nat \ {0}, NEW m \in Nat \ {0}, SoloBusy(w, n, m),
           Unlock(w), base' = IF holder' = NoWorker THEN state' ELSE base
    PROVE  /\ pc[w] # "idle" /\ pc'[w] = "idle"
           /\ TestBook' = V0!Run(TestBook, req[w])
<1> DEFINE o == SoloBid(n)
<1>1. pc[w] = "unlock" /\ pc'[w] = "idle" /\ holder' = NoWorker /\ state' = state
  BY DEF Unlock, Return, state, TasksTaken
<1>2. TestBook' = V0!Book(buy_seq_no, supply, allocations, bids)
  BY <1>1 DEF TestBook, state
<1>3. /\ Reached({o}, m) /\ SoloBase(n) /\ req[w].op = "sell"
      /\ req[w].volume = m
  BY <1>1 DEF SoloBusy, SoloPlace, V0!Sell
<1>4. /\ base.supply = 0 /\ base.allocations = V0!Nobody /\ base.bids = {o}
      /\ base.seq = 0 /\ buy_seq_no = 0
  BY <1>3 DEF SoloBase
<1>5. IsBook({o}, {"u1"}) /\ IsAccount(V0!Nobody)  BY SoloBook
<1> HIDE DEF o
<1>6. V0!SellImpl(V0!Book(0, 0, V0!Nobody, {o}), m) = MatchOf(0, V0!Nobody, {o}, 0 + m)
  BY <1>5, SellImplMatches
<1>7. 0 + m = m  OBVIOUS
<1>8. TestBook = V0!Book(0, 0, V0!Nobody, {o})  BY <1>4 DEF TestBook
<1>9. V0!Run(TestBook, req[w]) = MatchOf(0, V0!Nobody, {o}, m)
  BY <1>3, <1>6, <1>7, <1>8 DEF V0!Run
<1>10. TestBook' = MatchOf(0, V0!Nobody, {o}, m)
  BY <1>2, <1>3, <1>4 DEF Reached, MatchOf
<1> QED  BY <1>1, <1>9, <1>10

\* The test is before its sell, in it, or has joined it.
SoloWaits(n, m) ==
    /\ \A w \in Workers : pc[w] = "idle"
    /\ holder = NoWorker /\ base = state /\ SoloBase(n) /\ SoloLocals(n)
    /\ \/ phase = {} /\ pending = <<{<<1, V0!Sell(m)>>}>>
       \/ phase = {<<1, V0!Sell(m)>>} /\ pending = <<>>

SoloRuns(n, m) ==
    /\ phase = {} /\ pending = <<>>
    /\ \E w \in Workers :
        /\ SoloBusy(w, n, m)
        /\ \A v \in Workers \ {w} : pc[v] = "idle"

SoloOver ==
    phase = {} /\ pending = <<>> /\ \A w \in Workers : pc[w] = "idle"

SoloHolds == \E n, m \in Nat \ {0} : SoloWaits(n, m) \/ SoloRuns(n, m) \/ SoloOver

\* The one task is spawned, and a worker takes it.
LEMMA SoloStarts ==
    ASSUME TasksTaken, NEW n \in Nat \ {0}, NEW m \in Nat \ {0}, SoloWaits(n, m),
           [NextTest]_testVars
    PROVE  SoloHolds' /\ [V0!Next]_V0!vars
<1> DEFINE t == <<1, V0!Sell(m)>>
<1>0. SoloWaits(n, m)' \/ SoloRuns(n, m)' => SoloHolds'
  BY DEF SoloHolds
<1> HIDE DEF t
<1>1. CASE Spawn
  <2>0. pending # <<>> /\ phase' = Head(pending) /\ pending' = Tail(pending)
    BY <1>1 DEF Spawn
  <2>1. phase' = {t} /\ pending' = <<>>
    <3>1. pending = <<{t}>>  BY <2>0 DEF SoloWaits, t
    <3> DEFINE p == {t}
    <3> HIDE DEF p
    <3>2. Head(<<p>>) = p /\ Tail(<<p>>) = <<>>  OBVIOUS
    <3> QED  BY <2>0, <3>1, <3>2 DEF p
  <2>2. UNCHANGED <<pc, holder, base, state, buy_seq_no, poisoned, offered, bid,
                    todo, current, held>>
    BY <1>1 DEF Spawn, vars, locals, state
  <2>3. SoloBase(n)' /\ SoloLocals(n)'
    BY <2>2 DEF SoloWaits, SoloBase, SoloLocals
  <2>4. SoloWaits(n, m)'  BY <2>1, <2>2, <2>3 DEF SoloWaits, t
  <2> QED  BY <1>0, <1>1, <2>4, SpawnSteps DEF V0!Next
<1>2. ASSUME NEW w \in Workers, Start(w)
      PROVE  SoloHolds' /\ UNCHANGED V0!vars
  <2>1. PICK s \in phase : Receive(w, s[2]) /\ phase' = phase \ {s}
    BY <1>2 DEF Start
  <2>2. s = t /\ phase = {t} /\ pending = <<>>  BY DEF SoloWaits, t
  <2>3. /\ phase' = {} /\ pending' = <<>> /\ UNCHANGED <<base, case, pending>>
        /\ Receive(w, V0!Sell(m))
    BY <1>2, <2>1, <2>2 DEF Start, t
  <2>4. /\ pc' = [pc EXCEPT ![w] = "lock"]
        /\ req' = [req EXCEPT ![w] = V0!Sell(m)]
        /\ UNCHANGED <<holder, state, buy_seq_no, poisoned, offered, bid, todo,
                       current, held>>
    BY <2>3 DEF Receive, state
  <2>5. /\ pc'[w] = "lock" /\ req'[w] = V0!Sell(m)
        /\ \A v \in Workers \ {w} : pc'[v] = "idle"
    BY <2>4 DEF TasksTaken, SoloWaits
  <2>6. SoloBase(n)' /\ SoloLocals(n)' /\ holder' = NoWorker /\ base' = state'
    BY <2>3, <2>4 DEF SoloWaits, SoloBase, SoloLocals
  <2>7. SoloPlace(w, n, m)'  BY <2>5, <2>6 DEF SoloPlace
  <2>8. SoloBusy(w, n, m)'  BY <2>5, <2>6, <2>7 DEF SoloBusy
  <2>9. SoloRuns(n, m)'  BY <2>3, <2>5, <2>8 DEF SoloRuns
  <2> QED  BY <1>0, <1>2, <2>3, <2>9, OutstandingStep, SameBook
<1>3. ASSUME NEW w \in Workers, Work(w)  PROVE FALSE
  BY <1>3, WorkMoves DEF Work, SoloWaits
<1>4. CASE UNCHANGED testVars
  <2>1. UNCHANGED <<phase, pending, pc, holder, base, state, buy_seq_no, poisoned,
                    offered, bid, todo, current, held>>
    BY <1>4 DEF testVars, script, vars, locals, state
  <2>2. SoloBase(n)' /\ SoloLocals(n)'
    BY <2>1 DEF SoloWaits, SoloBase, SoloLocals
  <2>3. SoloWaits(n, m)'  BY <2>1, <2>2 DEF SoloWaits
  <2> QED  BY <1>0, <1>4, <2>3, IdleSteps
<1> QED  BY <1>1, <1>2, <1>3, <1>4 DEF NextTest, Joined

\* The worker runs it to its end.
LEMMA SoloGoesOn ==
    ASSUME TasksTaken, Fits', NEW n \in Nat \ {0}, NEW m \in Nat \ {0},
           SoloRuns(n, m), [NextTest]_testVars
    PROVE  SoloHolds' /\ [V0!Next]_V0!vars
<1>0. SoloRuns(n, m)' \/ SoloOver' => SoloHolds'
  BY DEF SoloHolds
<1>w. PICK w \in Workers : /\ SoloBusy(w, n, m)
                           /\ \A v \in Workers \ {w} : pc[v] = "idle"
  BY DEF SoloRuns
<1>p. pc[w] # "idle" /\ phase = {} /\ pending = <<>>
  BY <1>w DEF SoloBusy, SoloPlace, SoloRuns
<1>1. ~Spawn /\ \A v \in Workers : ~Start(v)
  BY <1>p DEF Spawn, Start
<1>2. ASSUME NEW v \in Workers, Work(v)
      PROVE  SoloHolds' /\ [V0!Next]_V0!vars
  <2>1. v = w  BY <1>2, <1>w, WorkMoves DEF Work
  <2>2. /\ \A u \in Workers \ {w} : pc'[u] = "idle"
        /\ UNCHANGED <<phase, pending, case>>
        /\ base' = IF holder' = NoWorker THEN state' ELSE base
        /\ Lock(w) \/ Step(w)
    BY <1>2, <1>w, <2>1, WorkMoves DEF Work
  <2>3. CASE Unlock(w)
    <3>1. /\ pc'[w] = "idle" /\ TestBook' = V0!Run(TestBook, req[w])
      BY <1>w, <2>2, <2>3, SoloReturn
    <3>2. V0!RunTask  BY <1>2, <1>p, <2>1, <3>1, ReturnSteps
    <3>3. SoloOver'  BY <1>p, <2>2, <3>1 DEF SoloOver
    <3> QED  BY <1>0, <3>2, <3>3 DEF V0!Next
  <2>4. CASE ~Unlock(w)
    <3>1. SoloBusy(w, n, m)' /\ pc'[w] # "idle" /\ base' = base
      BY <1>w, <2>2, <2>4, SoloWork
    <3>2. SoloRuns(n, m)'  BY <1>p, <2>2, <3>1 DEF SoloRuns
    <3> QED  BY <1>0, <1>2, <2>1, <2>2, <3>1, <3>2, OutstandingStep, SameBook
  <2> QED  BY <2>3, <2>4
<1>3. CASE UNCHANGED testVars
  <2>1. UNCHANGED <<phase, pending, pc, req, holder, base, state, supply, bids,
                    allocations, buy_seq_no, poisoned, offered, bid, todo,
                    current, held>>
    BY <1>3 DEF testVars, script, vars, locals, state
  <2>2. SoloBase(n)' /\ SoloLocals(n)'
    BY <1>w, <2>1 DEF SoloBusy, SoloBase, SoloLocals
  <2>3. SoloPlace(w, n, m)'
    BY <1>w, <2>1 DEF SoloBusy, SoloPlace, Reached, TotalAllocated
  <2>4. SoloBusy(w, n, m)'  BY <1>w, <2>1, <2>2, <2>3 DEF SoloBusy
  <2>5. SoloRuns(n, m)'  BY <1>w, <1>p, <2>1, <2>4 DEF SoloRuns
  <2> QED  BY <1>0, <1>3, <2>5, IdleSteps
<1> QED  BY <1>1, <1>2, <1>3 DEF NextTest, Joined

\* Then nothing more happens.
LEMMA SoloEnds ==
    ASSUME TasksTaken, SoloOver, [NextTest]_testVars
    PROVE  SoloOver' /\ UNCHANGED V0!vars
<1>1. ~Spawn /\ \A v \in Workers : ~Start(v)
  BY DEF SoloOver, Spawn, Start
<1>2. \A w \in Workers : ~Work(w)
  BY WorkMoves DEF Work, SoloOver
<1>3. UNCHANGED testVars  BY <1>1, <1>2 DEF NextTest, Joined
<1>4. SoloOver'
  BY <1>3 DEF SoloOver, testVars, script, vars, locals
<1> QED  BY <1>3, <1>4, IdleSteps

\* Each step of a test that sells to one bid is one of the first version, or
\* none.
LEMMA SoloStep ==
    ASSUME TasksTaken, SoloHolds, Fits', [NextTest]_testVars
    PROVE  SoloHolds' /\ [V0!Next]_V0!vars
<1>1. CASE SoloOver
  <2>1. SoloOver' /\ UNCHANGED V0!vars  BY <1>1, SoloEnds
  <2>2. 1 \in Nat \ {0}  OBVIOUS
  <2> QED  BY <2>1, <2>2 DEF SoloHolds
<1>2. CASE ~SoloOver
  <2>1. PICK n, m \in Nat \ {0} : SoloWaits(n, m) \/ SoloRuns(n, m)
    BY <1>2 DEF SoloHolds
  <2> QED  BY <2>1, SoloStarts, SoloGoesOn
<1> QED  BY <1>1, <1>2

\* Such a test starts with everything at rest.
LEMMA InitSolo ==
    ASSUME InitTest, IsSolo(case)
    PROVE  SoloHolds
<1>1. PICK n, m \in Nat \ {0} :
        /\ case.start = V0!Book(0, 0, V0!Nobody, {SoloBid(n)})
        /\ case.phases = <<{<<1, V0!Sell(m)>>}>>
  BY DEF IsSolo, SoloBid
<1>2. /\ supply = 0 /\ bids = {SoloBid(n)} /\ allocations = V0!Nobody
      /\ buy_seq_no = 0 /\ ~poisoned /\ offered = 0 /\ base = state
  BY <1>1 DEF InitTest, V0!Book
<1>3. SoloBase(n)  BY <1>2 DEF SoloBase, state
<1>4. SoloLocals(n)  BY DEF InitTest, SoloLocals
<1>5. SoloWaits(n, m)  BY <1>1, <1>2, <1>3, <1>4 DEF SoloWaits, InitTest
<1> QED  BY <1>5 DEF SoloHolds

-----------------------------------------------------------------------------
(* All tests *)

\* What holds throughout a test.
TestHolds ==
    /\ TasksTaken
    /\ StartsWithout(case) => EngineHolds
    /\ ~StartsWithout(case) => SoloHolds

\* A step keeps it and is a step of the first version, or none.
LEMMA TestHoldsStep ==
    ASSUME TestHolds, Fits, Fits', [NextTest]_testVars
    PROVE  TestHolds' /\ [V0!Next]_V0!vars
<1>1. case' = case
  BY DEF NextTest, Spawn, Joined, Start, Work, testVars, script
<1>2. StartsWithout(case)' <=> StartsWithout(case)
  BY <1>1 DEF StartsWithout
<1>3. TasksTaken'  BY TasksStep DEF TestHolds
<1>4. CASE StartsWithout(case)
  BY <1>2, <1>3, <1>4, TestStep DEF TestHolds
<1>5. CASE ~StartsWithout(case)
  BY <1>2, <1>3, <1>5, SoloStep DEF TestHolds
<1> QED  BY <1>4, <1>5

\* It holds at the start, where both have the same book.
LEMMA TestHoldsInit ==
    ASSUME InitTest, Fits
    PROVE  TestHolds /\ V0!Init
<1>1. TasksTaken  BY InitTasks
<1>2. StartsWithout(case) => EngineHolds  BY InitEngine
<1>3. ~StartsWithout(case) => SoloHolds  BY CaseStarts, InitSolo DEF InitTest
<1> QED  BY <1>1, <1>2, <1>3, InitIsV0 DEF TestHolds

\* Under every interleaving of the tasks of every test, the in-memory engine
\* does to the book what buy_impl and sell_impl of the first version compute,
\* one task after the other.
THEOREM TestsImplementTheBook ==
    TestSpec /\ [](offered < Modulus) => ImplementsBook
<1>1. InitTest /\ Fits => TestHolds /\ V0!Init  BY TestHoldsInit
<1>2. TestHolds /\ Fits /\ Fits' /\ [NextTest]_testVars
        => TestHolds' /\ [V0!Next]_V0!vars
  BY TestHoldsStep
<1>3. (offered < Modulus) <=> Fits  BY DEF Fits
<1> QED  BY <1>1, <1>2, <1>3, PTL DEF TestSpec, ImplementsBook, V0!Spec

-----------------------------------------------------------------------------
(* The asserts of the tests *)

\* What can happen to a test, seen from the first version.
TestMoves ==
    /\ case' = case
    /\ \/ /\ Outstanding = {} /\ pending # <<>>
          /\ Outstanding' = Head(pending) /\ pending' = Tail(pending)
          /\ TestBook' = TestBook
       \/ /\ \E task \in Outstanding :
                /\ Outstanding' = Outstanding \ {task}
                /\ TestBook' = V0!Run(TestBook, task[2])
          /\ pending' = pending
       \/ /\ Outstanding' = Outstanding /\ pending' = pending
          /\ TestBook' = TestBook

\* Every step of a test on the first version is one of these.
LEMMA MovesOfTest ==
    ASSUME [V0!Next]_V0!vars
    PROVE  TestMoves
<1>1. CASE V0!Spawn
  BY <1>1 DEF V0!Spawn, TestMoves, TestBook, V0!Book
<1>2. CASE V0!RunTask
  BY <1>2 DEF V0!RunTask, TestMoves, TestBook, V0!Book
<1>3. CASE UNCHANGED V0!vars
  BY <1>3 DEF V0!vars, TestMoves, TestBook, V0!Book
<1> QED  BY <1>1, <1>2, <1>3 DEF V0!Next

\* A test that makes its calls one after the other, with the books between
\* them.
Follows(c, books) ==
    /\ c.phases \in Seq(SUBSET Task)
    /\ books[0] = c.start
    /\ \A i \in 1 .. Len(c.phases) : \E call :
        /\ c.phases[i] = {<<1, call>>}
        /\ books[i] = V0!Run(books[i - 1], call)

\* The first k calls of it were made, or all but the last of these.
Along(books, k) ==
    LET n == Len(case.phases)
    IN  /\ k \in 0 .. n
        /\ pending \in Seq(SUBSET Task) /\ Len(pending) = n - k
        /\ \A i \in 1 .. n - k : pending[i] = case.phases[k + i]
        /\ \/ Outstanding = {} /\ TestBook = books[k]
           \/ /\ k > 0 /\ Outstanding = case.phases[k]
              /\ TestBook = books[k - 1]

\* A test of such calls is at one of their books.
OnTrack == \A books : Follows(case, books) => \E k \in Nat : Along(books, k)

\* A test that is on track stays on it.
LEMMA OnTrackStep ==
    ASSUME OnTrack, TestMoves
    PROVE  OnTrack'
<1> SUFFICES ASSUME NEW books, Follows(case, books)
             PROVE  \E k \in Nat : Along(books, k)'
  BY DEF OnTrack, TestMoves, Follows
<1>1. PICK k \in Nat : Along(books, k)  BY DEF OnTrack
<1> DEFINE p == case.phases
           n == Len(p)
<1>2. /\ n \in Nat /\ case' = case
      /\ \A i \in 1 .. n : \E call : /\ p[i] = {<<1, call>>}
                                     /\ books[i] = V0!Run(books[i - 1], call)
  BY DEF Follows, TestMoves
<1>3. /\ k \in 0 .. n /\ pending \in Seq(SUBSET Task) /\ Len(pending) = n - k
      /\ \A i \in 1 .. n - k : pending[i] = p[k + i]
      /\ \/ Outstanding = {} /\ TestBook = books[k]
         \/ k > 0 /\ Outstanding = p[k] /\ TestBook = books[k - 1]
  BY <1>1 DEF Along
<1>4. \A m \in Nat :
        /\ m \in 0 .. n
        /\ pending' \in Seq(SUBSET Task) /\ Len(pending') = n - m
        /\ \A i \in 1 .. n - m : pending'[i] = p[m + i]
        /\ \/ Outstanding' = {} /\ TestBook' = books[m]
           \/ m > 0 /\ Outstanding' = p[m] /\ TestBook' = books[m - 1]
        => Along(books, m)'
  BY <1>2 DEF Along
<1> HIDE DEF p, n
<1>5. CASE /\ Outstanding = {} /\ pending # <<>>
           /\ Outstanding' = Head(pending) /\ pending' = Tail(pending)
           /\ TestBook' = TestBook
  <2>1. /\ Len(pending) # 0 /\ Head(pending) = pending[1]
        /\ Tail(pending) \in Seq(SUBSET Task)
        /\ Len(Tail(pending)) = Len(pending) - 1
        /\ \A i \in 1 .. Len(pending) - 1 : Tail(pending)[i] = pending[i + 1]
    BY <1>3, <1>5
  <2>2. k + 1 \in 1 .. n /\ p[k + 1] = pending[1]  BY <1>2, <1>3, <2>1
  <2>3. p[k + 1] # {} /\ (k > 0 => p[k] # {})
    <3>1. \A i \in 1 .. n : p[i] # {}  BY <1>2
    <3>2. k > 0 => k \in 1 .. n  BY <1>2, <1>3
    <3> QED  BY <2>2, <3>1, <3>2
  <2>4. TestBook = books[k]  BY <1>3, <1>5, <2>3
  <2>5. /\ k + 1 \in Nat /\ k + 1 \in 0 .. n /\ k + 1 > 0 /\ k + 1 - 1 = k
        /\ pending' \in Seq(SUBSET Task) /\ Len(pending') = n - (k + 1)
    BY <1>2, <1>3, <1>5, <2>1, <2>2
  <2>6. \A i \in 1 .. n - (k + 1) : pending'[i] = p[k + 1 + i]
    <3> TAKE i \in 1 .. n - (k + 1)
    <3>1. i \in 1 .. Len(pending) - 1 /\ i + 1 \in 1 .. n - k
          /\ k + (i + 1) = k + 1 + i
      BY <1>2, <1>3
    <3> QED  BY <1>3, <1>5, <2>1, <3>1
  <2>7. Outstanding' = p[k + 1] /\ TestBook' = books[k]
    BY <1>5, <2>1, <2>2, <2>4
  <2>8. PICK m \in Nat : m = k + 1  BY <2>5
  <2>9. /\ m \in 0 .. n /\ m > 0
        /\ pending' \in Seq(SUBSET Task) /\ Len(pending') = n - m
        /\ \A i \in 1 .. n - m : pending'[i] = p[m + i]
    BY <2>5, <2>6, <2>8
  <2>10. Outstanding' = p[m] /\ TestBook' = books[m - 1]
    BY <2>5, <2>7, <2>8
  <2>11. Along(books, m)'  BY <1>4, <2>9, <2>10
  <2> QED  BY <2>11
<1>6. CASE /\ \E task \in Outstanding :
                /\ Outstanding' = Outstanding \ {task}
                /\ TestBook' = V0!Run(TestBook, task[2])
           /\ pending' = pending
  <2>1. PICK task \in Outstanding : /\ Outstanding' = Outstanding \ {task}
                                    /\ TestBook' = V0!Run(TestBook, task[2])
    BY <1>6
  <2>2. k > 0 /\ Outstanding = p[k] /\ TestBook = books[k - 1]
    BY <1>3, <2>1
  <2>3. k \in 1 .. n  BY <1>2, <1>3, <2>2
  <2>4. PICK call : p[k] = {<<1, call>>} /\ books[k] = V0!Run(books[k - 1], call)
    BY <1>2, <2>3
  <2>5. task = <<1, call>> /\ task[2] = call  BY <2>1, <2>2, <2>4
  <2>6. Outstanding' = {} /\ TestBook' = books[k]
    BY <2>1, <2>2, <2>4, <2>5
  <2>7. Along(books, k)'  BY <1>3, <1>4, <1>6, <2>6
  <2> QED  BY <2>7
<1>7. CASE /\ Outstanding' = Outstanding /\ pending' = pending
           /\ TestBook' = TestBook
  <2>1. Along(books, k)'  BY <1>3, <1>4, <1>7
  <2> QED  BY <2>1
<1> QED  BY <1>5, <1>6, <1>7 DEF TestMoves

\* It starts on it.
LEMMA OnTrackInit ==
    ASSUME InitTest
    PROVE  OnTrack
<1> SUFFICES ASSUME NEW books, Follows(case, books)
             PROVE  Along(books, 0)
  BY DEF OnTrack
<1>1. /\ Outstanding = {} /\ pending = case.phases  BY InitTasks DEF InitTest
<1>2. TestBook = case.start  BY InitIsV0 DEF V0!Init, TestBook, V0!Book
<1> QED  BY <1>1, <1>2 DEF Follows, Along

\* At its end the last of the books is reached.
LEMMA OnTrackEnd ==
    ASSUME OnTrack, V0!Done, NEW books, Follows(case, books)
    PROVE  TestBook = books[Len(case.phases)]
<1>1. PICK k \in Nat : Along(books, k)  BY DEF OnTrack
<1> DEFINE n == Len(case.phases)
<1>2. n \in Nat /\ Len(pending) = 0 /\ Outstanding = {}
  BY DEF Follows, V0!Done
<1>3. k = n  BY <1>1, <1>2 DEF Along
<1>4. n > 0 => case.phases[n] # {}
  <2>1. n > 0 => n \in 1 .. n  BY <1>2
  <2>2. \A i \in 1 .. n : case.phases[i] # {}  BY DEF Follows
  <2> QED  BY <2>1, <2>2
<1> QED  BY <1>1, <1>2, <1>3, <1>4 DEF Along

\* A bid and its rest.
LEMMA BidIs ==
    ASSUME NEW u, NEW v, NEW p, NEW s
    PROVE  /\ V0!Bid(u, v, p, s).user = u /\ V0!Bid(u, v, p, s).volume = v
           /\ V0!Bid(u, v, p, s).price = p /\ V0!Bid(u, v, p, s).seq = s
           /\ \A x : [V0!Bid(u, v, p, s) EXCEPT !.volume = @ - x]
                        = V0!Bid(u, v - x, p, s)
BY DEF V0!Bid

\* A book with one more bid, of a new number.
LEMMA BookGrows ==
    ASSUME NEW U, NEW R, IsBook(R, U), NEW u \in U, NEW v \in Nat, NEW p \in Int,
           NEW s \in Nat, \A c \in R : c.seq # s
    PROVE  IsBook(R \cup {V0!Bid(u, v, p, s)}, U)
<1> DEFINE o == V0!Bid(u, v, p, s)
<1>1. o \in [user : U, volume : Nat, price : Int, seq : Nat] /\ o.seq = s
  BY DEF V0!Bid
<1> HIDE DEF o
<1>2. IsFiniteSet(R \cup {o})  BY FS_AddElement DEF IsBook
<1> QED  BY <1>1, <1>2 DEF IsBook, o

\* A bid comes first in a book, and these are the other orders.
Leading(O, u, v, p, s, R) ==
    LET b == V0!Bid(u, v, p, s) IN IsFirst(b, O) /\ R = O \ {b}

\* A book with an order put into it.
With(R, o) == R \cup {o}

\* A bid for v gets all of it from t, or not.
Enough(t, v, left) == t \in Nat /\ v \in Nat /\ t > 0 /\ v <= t /\ left = t - v
Short(t, v, rest)  == t \in Nat /\ v \in Nat /\ t > 0 /\ t < v /\ rest = v - t

\* The orders that are left are a book as well.
LEMMA PartOfBook ==
    ASSUME NEW U, NEW O, NEW u, NEW v, NEW p, NEW s, NEW R,
           IsBook(O, U), Leading(O, u, v, p, s, R)
    PROVE  IsBook(R, U)
<1>1. R \subseteq O  BY DEF Leading
<1> QED  BY <1>1, FS_Subset DEF IsBook

\* A match that serves the first bid in full goes on without it.
LEMMA MatchGoesOn ==
    ASSUME NEW U, NEW O, NEW u, NEW v, NEW p, NEW s, NEW R, NEW q, NEW g, NEW t,
           NEW left, IsBook(O, U), Leading(O, u, v, p, s, R), IsAccount(g),
           Enough(t, v, left)
    PROVE  MatchOf(q, g, O, t) = MatchOf(q, Credit(g, u, v), R, left)
<1> DEFINE o == V0!Bid(u, v, p, s)
<1>1. IsFirst(o, O) /\ R = O \ {o} /\ o.user = u /\ o.volume = v
  BY BidIs DEF Leading
<1>a. t \in Nat /\ v \in Nat /\ t > 0 /\ v <= t /\ left = t - v  BY DEF Enough
<1> HIDE DEF o
<1>2. ASSUME NEW total \in Nat, total > 0, o.volume <= total
      PROVE  /\ OrdersAfter(O, total) = OrdersAfter(O \ {o}, total - o.volume)
             /\ OfferAfter(O, total) = OfferAfter(O \ {o}, total - o.volume)
             /\ GivenAfter(g, O, total)
                  = GivenAfter(Credit(g, o.user, o.volume), O \ {o}, total - o.volume)
  <2>1. PICK r, l, c : /\ r = O \ {o} /\ l = total - o.volume
                       /\ c = Credit(g, o.user, o.volume)
    OBVIOUS
  <2> QED  BY <1>1, <1>2, <2>1, MatchFull
<1>3. /\ OrdersAfter(O, t) = OrdersAfter(O \ {o}, t - o.volume)
      /\ OfferAfter(O, t) = OfferAfter(O \ {o}, t - o.volume)
      /\ GivenAfter(g, O, t)
           = GivenAfter(Credit(g, o.user, o.volume), O \ {o}, t - o.volume)
  BY <1>a, <1>1, <1>2
<1>4. O \ {o} = R /\ t - o.volume = left  BY <1>a, <1>1
<1> QED  BY <1>1, <1>3, <1>4 DEF MatchOf

\* A match that the first bid takes all of ends there.
LEMMA MatchEnds ==
    ASSUME NEW U, NEW O, NEW u, NEW v, NEW p, NEW s, NEW R, NEW q, NEW g, NEW t,
           NEW rest, IsBook(O, U), Leading(O, u, v, p, s, R), IsAccount(g),
           Short(t, v, rest)
    PROVE  MatchOf(q, g, O, t)
             = V0!Book(q, 0, Credit(g, u, t), With(R, V0!Bid(u, rest, p, s)))
<1> DEFINE o == V0!Bid(u, v, p, s)
           lowered == [o EXCEPT !.volume = @ - t]
<1>1. IsFirst(o, O) /\ R = O \ {o} /\ o.user = u /\ o.volume = v
  BY BidIs DEF Leading
<1>a. t \in Nat /\ v \in Nat /\ t > 0 /\ t < v /\ rest = v - t  BY DEF Short
<1>2. lowered = V0!Bid(u, rest, p, s)  BY <1>a, BidIs
<1> HIDE DEF o
<1>3. ASSUME NEW total \in Nat, total > 0, total < o.volume
      PROVE  /\ OrdersAfter(O, total)
                   = (O \ {o}) \cup {[o EXCEPT !.volume = @ - total]}
             /\ OfferAfter(O, total) = 0
             /\ GivenAfter(g, O, total) = Credit(g, o.user, total)
  BY <1>1, <1>3, MatchPartial
<1>4. /\ OrdersAfter(O, t) = (O \ {o}) \cup {lowered}
      /\ OfferAfter(O, t) = 0 /\ GivenAfter(g, O, t) = Credit(g, o.user, t)
  BY <1>a, <1>1, <1>3
<1> HIDE DEF lowered
<1>5. OrdersAfter(O, t) = With(R, V0!Bid(u, rest, p, s))
  BY <1>1, <1>2, <1>4 DEF With
<1> QED  BY <1>1, <1>4, <1>5 DEF MatchOf

\* Nothing is left, or nobody is there, to serve.
LEMMA NoneServed ==
    ASSUME NEW U, NEW O, IsBook(O, U), NEW q, NEW g, IsAccount(g), NEW t \in Nat,
           t = 0 \/ O = {}
    PROVE  MatchOf(q, g, O, t) = V0!Book(q, t, g, O)
BY MatchIdle DEF MatchOf

\* A call of a test, by its kind.
LEMMA RunCall ==
    ASSUME NEW b, NEW u, NEW v, NEW p
    PROVE  /\ V0!Run(b, V0!Buy(u, v, p)) = V0!BuyImpl(b, u, v, p)
           /\ V0!Run(b, V0!Sell(v)) = V0!SellImpl(b, v)
BY DEF V0!Run, V0!Buy, V0!Sell

\* A test that makes these calls, one after the other.
Making(c, asked) ==
    /\ c.phases \in Seq(SUBSET Task) /\ Len(c.phases) = Len(asked)
    /\ \A i \in 1 .. Len(asked) : c.phases[i] = {<<1, asked[i]>>}

\* The books between them.
Leads(c, asked, books) ==
    /\ books[1] = c.start
    /\ \A i \in 1 .. Len(asked) : books[i + 1] = V0!Run(books[i], asked[i])

\* It ends with the last of the books that the calls lead to.
LEMMA LastBook ==
    ASSUME OnTrack, V0!Done, NEW asked, Making(case, asked), NEW books,
           Leads(case, asked, books)
    PROVE  TestBook = books[Len(asked) + 1]
<1> DEFINE n == Len(asked)
           at == [i \in 0 .. n |-> books[i + 1]]
<1>1. /\ Len(case.phases) = n /\ case.phases \in Seq(SUBSET Task) /\ n \in Nat
      /\ \A i \in 1 .. n : case.phases[i] = {<<1, asked[i]>>}
      /\ books[1] = case.start
      /\ \A i \in 1 .. n : books[i + 1] = V0!Run(books[i], asked[i])
  BY DEF Making, Leads
<1> HIDE DEF n
<1>2. \A i \in 0 .. n : at[i] = books[i + 1]  OBVIOUS
<1>3. at[0] = case.start
  <2>1. 0 \in 0 .. n /\ 0 + 1 = 1  BY <1>1
  <2> QED  BY <1>1, <1>2, <2>1
<1>4. \A i \in 1 .. n : at[i] = V0!Run(at[i - 1], asked[i])
  <2> TAKE i \in 1 .. n
  <2>1. i \in 0 .. n /\ i - 1 \in 0 .. n /\ (i - 1) + 1 = i  BY <1>1
  <2>2. at[i] = books[i + 1] /\ at[i - 1] = books[i]
    <3> HIDE DEF at
    <3> QED  BY <1>2, <2>1
  <2> QED  BY <1>1, <2>2
<1> HIDE DEF at
<1>5. Follows(case, at)
  BY <1>1, <1>3, <1>4 DEF Follows
<1>6. TestBook = at[n]  BY <1>1, <1>5, OnTrackEnd
<1> QED  BY <1>1, <1>2, <1>6 DEF n

\* Where the calls of a test lead to, from one to five of them.
LEMMA AfterOne ==
    ASSUME OnTrack, V0!Done, NEW c1,
           Making(case, <<c1>>)
    PROVE  TestBook = V0!Run(case.start, c1)
<1> DEFINE asked == <<c1>>
           a == V0!Run(case.start, c1)
           books == <<case.start, a>>
<1> HIDE DEF a
<1>1. /\ Len(asked) = 1 /\ asked[1] = c1
      /\ books[1] = case.start /\ books[2] = a
  OBVIOUS
<1>2. Making(case, asked)  OBVIOUS
<1> HIDE DEF asked, books
<1>3. \A i \in 1 .. 1 : books[i + 1] = V0!Run(books[i], asked[i])
  <2> TAKE i \in 1 .. 1
  <2>1. i = 1  OBVIOUS
  <2> QED  BY <1>1, <2>1 DEF a
<1>4. Leads(case, asked, books)  BY <1>1, <1>3 DEF Leads
<1>5. TestBook = books[Len(asked) + 1]  BY <1>2, <1>4, LastBook
<1> QED  BY <1>1, <1>5 DEF a

\* After two calls.
LEMMA AfterTwo ==
    ASSUME OnTrack, V0!Done, NEW c1, NEW c2,
           Making(case, <<c1, c2>>)
    PROVE  TestBook = V0!Run(V0!Run(case.start, c1), c2)
<1> DEFINE asked == <<c1, c2>>
           a == V0!Run(case.start, c1)
           b == V0!Run(a, c2)
           books == <<case.start, a, b>>
<1> HIDE DEF a, b
<1>1. /\ Len(asked) = 2 /\ asked[1] = c1 /\ asked[2] = c2
      /\ books[1] = case.start /\ books[2] = a /\ books[3] = b
  OBVIOUS
<1>2. Making(case, asked)  OBVIOUS
<1> HIDE DEF asked, books
<1>3. \A i \in 1 .. 2 : books[i + 1] = V0!Run(books[i], asked[i])
  <2> TAKE i \in 1 .. 2
  <2>1. i = 1 \/ i = 2  OBVIOUS
  <2> QED  BY <1>1, <2>1 DEF a, b
<1>4. Leads(case, asked, books)  BY <1>1, <1>3 DEF Leads
<1>5. TestBook = books[Len(asked) + 1]  BY <1>2, <1>4, LastBook
<1> QED  BY <1>1, <1>5 DEF a, b

\* After three calls.
LEMMA AfterThree ==
    ASSUME OnTrack, V0!Done, NEW c1, NEW c2, NEW c3,
           Making(case, <<c1, c2, c3>>)
    PROVE  TestBook = V0!Run(V0!Run(V0!Run(case.start, c1), c2), c3)
<1> DEFINE asked == <<c1, c2, c3>>
           a == V0!Run(case.start, c1)
           b == V0!Run(a, c2)
           c == V0!Run(b, c3)
           books == <<case.start, a, b, c>>
<1> HIDE DEF a, b, c
<1>1. /\ Len(asked) = 3 /\ asked[1] = c1 /\ asked[2] = c2 /\ asked[3] = c3
      /\ books[1] = case.start /\ books[2] = a /\ books[3] = b /\ books[4] = c
  OBVIOUS
<1>2. Making(case, asked)  OBVIOUS
<1> HIDE DEF asked, books
<1>3. \A i \in 1 .. 3 : books[i + 1] = V0!Run(books[i], asked[i])
  <2> TAKE i \in 1 .. 3
  <2>1. i = 1 \/ i = 2 \/ i = 3  OBVIOUS
  <2> QED  BY <1>1, <2>1 DEF a, b, c
<1>4. Leads(case, asked, books)  BY <1>1, <1>3 DEF Leads
<1>5. TestBook = books[Len(asked) + 1]  BY <1>2, <1>4, LastBook
<1> QED  BY <1>1, <1>5 DEF a, b, c

\* After four calls.
LEMMA AfterFour ==
    ASSUME OnTrack, V0!Done, NEW c1, NEW c2, NEW c3, NEW c4,
           Making(case, <<c1, c2, c3, c4>>)
    PROVE  TestBook = V0!Run(V0!Run(V0!Run(V0!Run(case.start, c1), c2), c3), c4)
<1> DEFINE asked == <<c1, c2, c3, c4>>
           a == V0!Run(case.start, c1)
           b == V0!Run(a, c2)
           c == V0!Run(b, c3)
           d == V0!Run(c, c4)
           books == <<case.start, a, b, c, d>>
<1> HIDE DEF a, b, c, d
<1>1. /\ Len(asked) = 4
      /\ asked[1] = c1 /\ asked[2] = c2 /\ asked[3] = c3 /\ asked[4] = c4
      /\ books[1] = case.start /\ books[2] = a /\ books[3] = b /\ books[4] = c /\ books[5] = d
  OBVIOUS
<1>2. Making(case, asked)  OBVIOUS
<1> HIDE DEF asked, books
<1>3. \A i \in 1 .. 4 : books[i + 1] = V0!Run(books[i], asked[i])
  <2> TAKE i \in 1 .. 4
  <2>1. i = 1 \/ i = 2 \/ i = 3 \/ i = 4  OBVIOUS
  <2> QED  BY <1>1, <2>1 DEF a, b, c, d
<1>4. Leads(case, asked, books)  BY <1>1, <1>3 DEF Leads
<1>5. TestBook = books[Len(asked) + 1]  BY <1>2, <1>4, LastBook
<1> QED  BY <1>1, <1>5 DEF a, b, c, d

\* After five calls.
LEMMA AfterFive ==
    ASSUME OnTrack, V0!Done, NEW c1, NEW c2, NEW c3, NEW c4, NEW c5,
           Making(case, <<c1, c2, c3, c4, c5>>)
    PROVE  TestBook = V0!Run(V0!Run(V0!Run(V0!Run(V0!Run(case.start, c1), c2), c3), c4), c5)
<1> DEFINE asked == <<c1, c2, c3, c4, c5>>
           a == V0!Run(case.start, c1)
           b == V0!Run(a, c2)
           c == V0!Run(b, c3)
           d == V0!Run(c, c4)
           e == V0!Run(d, c5)
           books == <<case.start, a, b, c, d, e>>
<1> HIDE DEF a, b, c, d, e
<1>1. /\ Len(asked) = 5 /\ asked[1] = c1 /\ asked[2] = c2
      /\ asked[3] = c3 /\ asked[4] = c4 /\ asked[5] = c5
      /\ books[1] = case.start /\ books[2] = a /\ books[3] = b
      /\ books[4] = c /\ books[5] = d /\ books[6] = e
  OBVIOUS
<1>2. Making(case, asked)  OBVIOUS
<1> HIDE DEF asked, books
<1>3. \A i \in 1 .. 5 : books[i + 1] = V0!Run(books[i], asked[i])
  <2> TAKE i \in 1 .. 5
  <2>1. i = 1 \/ i = 2 \/ i = 3 \/ i = 4 \/ i = 5  OBVIOUS
  <2> QED  BY <1>1, <2>1 DEF a, b, c, d, e
<1>4. Leads(case, asked, books)  BY <1>1, <1>3 DEF Leads
<1>5. TestBook = books[Len(asked) + 1]  BY <1>2, <1>4, LastBook
<1> QED  BY <1>1, <1>5 DEF a, b, c, d, e

-----------------------------------------------------------------------------
(* The tests that make one call after the other *)

\* The books that tests start from.
LEMMA StartBooks ==
    /\ V0!Empty = V0!Book(0, 0, V0!Nobody, {})
    /\ \A n : V0!WithSupply(n) = V0!Book(0, n, V0!Nobody, {})
    /\ \A o : V0!WithBid(o) = V0!Book(0, 0, V0!Nobody, {o})
<1>1. V0!Empty = V0!Book(0, 0, V0!Nobody, {})
  BY DEF V0!Empty, V0!Book, V0!Nobody
<1>2. \A n : V0!WithSupply(n) = V0!Book(0, n, V0!Nobody, {})
  <2> TAKE n
  <2>1. V0!Empty = V0!Book(0, 0, V0!Nobody, {})  BY <1>1
  <2>2. [V0!Book(0, 0, V0!Nobody, {}) EXCEPT !.supply = n]
          = V0!Book(0, n, V0!Nobody, {})
    BY DEF V0!Book
  <2> QED  BY <2>1, <2>2 DEF V0!WithSupply
<1>3. \A o : V0!WithBid(o) = V0!Book(0, 0, V0!Nobody, {o})
  <2> TAKE o
  <2> DEFINE S == {o}
  <2> HIDE DEF S
  <2>1. [V0!Empty EXCEPT !.orders = S] = V0!Book(0, 0, V0!Nobody, S)
    BY DEF V0!Empty, V0!Book, V0!Nobody
  <2> QED  BY <2>1 DEF V0!WithBid, S
<1> QED  BY <1>1, <1>2, <1>3

\* A test of the unit tests makes the calls it was given.
LEMMA ExpectingMakes ==
    ASSUME NEW name, NEW start, NEW asked, NEW result, Len(asked) \in Nat,
           DOMAIN asked = 1 .. Len(asked),
           NEW c \in V0!Cases, c = V0!Expecting(name, start, asked, result)
    PROVE  Making(c, asked) /\ c.start = start /\ c.expect = result
<1>1. c.phases \in Seq(SUBSET Task)  BY RequestsAssumption DEF Task
<1>2. /\ c.start = start /\ c.expect = result
      /\ c.phases = [i \in DOMAIN asked |-> V0!Alone(asked[i])]
  BY DEF V0!Expecting
<1>3. DOMAIN c.phases = 1 .. Len(c.phases) /\ Len(c.phases) \in Nat  BY <1>1
<1>4. Len(c.phases) = Len(asked)  BY <1>2, <1>3
<1>5. \A i \in 1 .. Len(asked) : c.phases[i] = {<<1, asked[i]>>}
  BY <1>2 DEF V0!Alone
<1> QED  BY <1>1, <1>2, <1>4, <1>5 DEF Making

\* The users of the tests that make one call after the other.
Names == {"u1", "u2", "u3", "lo", "hi"}

\* They are these.
LEMMA AllNames == "u1" \in Names /\ "u2" \in Names /\ "u3" \in Names
                  /\ "lo" \in Names /\ "hi" \in Names
BY DEF Names

\* Before the first sale, nobody has anything.
LEMMA NobodyIsAccount == IsAccount(V0!Nobody)
BY DEF IsAccount, V0!Nobody

\* A book without orders.
LEMMA NoBook == IsBook({}, Names)
BY FS_EmptySet DEF IsBook

\* Books of few orders.
One(a) == {a}
Two(a, b) == {a, b}
Three(a, b, c) == {a, b, c}

\* The books that up to three buys without supply make.
LEMMA OneWaits ==
    ASSUME NEW u, NEW v, NEW p, u \in Names, v \in Nat, p \in Int
    PROVE  /\ IsBook(One(V0!Bid(u, v, p, 1)), Names)
           /\ V0!Run(V0!Empty, V0!Buy(u, v, p))
                = V0!Book(1, 0, V0!Nobody, One(V0!Bid(u, v, p, 1)))
<1> DEFINE o == V0!Bid(u, v, p, 1)
<1>1. IsBook({} \cup {o}, Names)  BY NoBook, BookGrows
<1>2. {} \cup {o} = One(o)  BY DEF One
<1>3. V0!Run(V0!Empty, V0!Buy(u, v, p)) = V0!Book(1, 0, V0!Nobody, {} \cup {o})
  BY RunCall, BuyWaits, StartBooks
<1> HIDE DEF o
<1> QED  BY <1>1, <1>2, <1>3 DEF o

\* Two buys without supply.
LEMMA TwoWait ==
    ASSUME NEW u, NEW v, NEW p, NEW w, NEW x, NEW r,
           u \in Names, v \in Nat, p \in Int, w \in Names, x \in Nat, r \in Int
    PROVE  /\ IsBook(Two(V0!Bid(u, v, p, 1), V0!Bid(w, x, r, 2)), Names)
           /\ V0!Run(V0!Run(V0!Empty, V0!Buy(u, v, p)), V0!Buy(w, x, r))
                = V0!Book(2, 0, V0!Nobody, Two(V0!Bid(u, v, p, 1), V0!Bid(w, x, r, 2)))
<1> DEFINE a == V0!Bid(u, v, p, 1)
           b == V0!Bid(w, x, r, 2)
<1>1. /\ IsBook(One(a), Names) /\ \A c \in One(a) : c.seq # 2
      /\ V0!Run(V0!Empty, V0!Buy(u, v, p)) = V0!Book(1, 0, V0!Nobody, One(a))
  BY OneWaits, BidIs DEF One
<1>2. IsBook(One(a) \cup {b}, Names)
  <2> HIDE DEF a
  <2> QED  BY <1>1, BookGrows
<1>3. One(a) \cup {b} = Two(a, b)  BY DEF One, Two
<1>4. V0!Run(V0!Book(1, 0, V0!Nobody, One(a)), V0!Buy(w, x, r))
        = V0!Book(2, 0, V0!Nobody, One(a) \cup {b})
  BY RunCall, BuyWaits
<1> HIDE DEF a, b
<1> QED  BY <1>1, <1>2, <1>3, <1>4 DEF a, b

\* Three buys without supply.
LEMMA ThreeWait ==
    ASSUME NEW u, NEW v, NEW p, NEW w, NEW x, NEW r, NEW y, NEW z, NEW t,
           u \in Names, v \in Nat, p \in Int, w \in Names, x \in Nat, r \in Int,
           y \in Names, z \in Nat, t \in Int
    PROVE  LET all == Three(V0!Bid(u, v, p, 1), V0!Bid(w, x, r, 2), V0!Bid(y, z, t, 3))
           IN  /\ IsBook(all, Names)
               /\ V0!Run(V0!Run(V0!Run(V0!Empty, V0!Buy(u, v, p)), V0!Buy(w, x, r)),
                         V0!Buy(y, z, t))
                     = V0!Book(3, 0, V0!Nobody, all)
<1> DEFINE a == V0!Bid(u, v, p, 1)
           b == V0!Bid(w, x, r, 2)
           c == V0!Bid(y, z, t, 3)
<1>1. /\ IsBook(Two(a, b), Names) /\ \A o \in Two(a, b) : o.seq # 3
      /\ V0!Run(V0!Run(V0!Empty, V0!Buy(u, v, p)), V0!Buy(w, x, r))
            = V0!Book(2, 0, V0!Nobody, Two(a, b))
  BY TwoWait, BidIs DEF Two
<1>2. IsBook(Two(a, b) \cup {c}, Names)
  <2> HIDE DEF a, b
  <2> QED  BY <1>1, BookGrows
<1>3. Two(a, b) \cup {c} = Three(a, b, c)  BY DEF Two, Three
<1>4. V0!Run(V0!Book(2, 0, V0!Nobody, Two(a, b)), V0!Buy(y, z, t))
        = V0!Book(3, 0, V0!Nobody, Two(a, b) \cup {c})
  BY RunCall, BuyWaits
<1> HIDE DEF a, b, c
<1> QED  BY <1>1, <1>2, <1>3, <1>4 DEF a, b, c

\* A sell to a book without supply.
LEMMA SellMatches ==
    ASSUME NEW U, NEW O, NEW q, NEW g, NEW v, IsBook(O, U), IsAccount(g), v \in Nat
    PROVE  V0!Run(V0!Book(q, 0, g, O), V0!Sell(v)) = MatchOf(q, g, O, v)
<1>1. V0!SellImpl(V0!Book(q, 0, g, O), v) = MatchOf(q, g, O, 0 + v)
  BY SellImplMatches
<1>2. 0 + v = v  OBVIOUS
<1> QED  BY <1>1, <1>2, RunCall

\* A bid alone in the book is filled, or in part.
LEMMA AloneFilled ==
    ASSUME NEW u, NEW v, NEW p, NEW s, NEW q, NEW g, NEW t, NEW left,
           IsBook(One(V0!Bid(u, v, p, s)), Names), IsAccount(g),
           Enough(t, v, left)
    PROVE  MatchOf(q, g, One(V0!Bid(u, v, p, s)), t)
             = V0!Book(q, left, Credit(g, u, v), {})
<1> DEFINE O == One(V0!Bid(u, v, p, s))
<1>1. PICK none : none = {}  OBVIOUS
<1>2. Leading(O, u, v, p, s, none)  BY <1>1 DEF Leading, IsFirst, One
<1> HIDE DEF O
<1>3. IsBook(O, Names)  BY DEF O
<1>4. MatchOf(q, g, O, t) = MatchOf(q, Credit(g, u, v), none, left)
  BY <1>2, <1>3, MatchGoesOn
<1>5. MatchOf(q, Credit(g, u, v), none, left) = V0!Book(q, left, Credit(g, u, v), none)
  <2>1. IsAccount(Credit(g, u, v)) /\ left \in Nat  BY CreditIsAccount DEF Enough
  <2>2. IsBook(none, Names)  BY <1>1, NoBook
  <2> QED  BY <1>1, <2>1, <2>2, NoneServed
<1> QED  BY <1>1, <1>4, <1>5 DEF O

\* A bid alone in the book that wants more than there is keeps the rest.
LEMMA AloneLowered ==
    ASSUME NEW u, NEW v, NEW p, NEW s, NEW q, NEW g, NEW t, NEW rest,
           IsBook(One(V0!Bid(u, v, p, s)), Names), IsAccount(g),
           Short(t, v, rest)
    PROVE  MatchOf(q, g, One(V0!Bid(u, v, p, s)), t)
             = V0!Book(q, 0, Credit(g, u, t), One(V0!Bid(u, rest, p, s)))
<1> DEFINE O == One(V0!Bid(u, v, p, s))
<1>1. PICK none : none = {}  OBVIOUS
<1>2. Leading(O, u, v, p, s, none)  BY <1>1 DEF Leading, IsFirst, One
<1> HIDE DEF O
<1>3. IsBook(O, Names)  BY DEF O
<1>4. MatchOf(q, g, O, t)
        = V0!Book(q, 0, Credit(g, u, t), With(none, V0!Bid(u, rest, p, s)))
  BY <1>2, <1>3, MatchEnds
<1>5. With(none, V0!Bid(u, rest, p, s)) = One(V0!Bid(u, rest, p, s))
  BY <1>1 DEF With, One
<1> QED  BY <1>4, <1>5 DEF O

\* The test of the document: the bids of u3 and u1 are filled, that of u2 in
\* part.
LEMMA UnusedSupply ==
    ASSUME OnTrack, V0!Done, case \in V0!unused_supply_auto_sold, case \in V0!Cases
    PROVE  TestBook = case.expect
<1> DEFINE c1 == V0!Buy("u1", 100, 3)
           c2 == V0!Buy("u2", 150, 2)
           c3 == V0!Buy("u3", 50, 4)
           c4 == V0!Sell(250)
           asked == <<c1, c2, c3, c4>>
           o1 == V0!Bid("u1", 100, 3, 1)
           o2 == V0!Bid("u2", 150, 2, 2)
           o3 == V0!Bid("u3", 50, 4, 3)
           given == [u1 |-> 100, u2 |-> 100, u3 |-> 50]
           final == V0!Book(3, 0, given, {V0!Bid("u2", 50, 2, 2)})
           g1 == Credit(V0!Nobody, "u3", 50)
           g2 == Credit(g1, "u1", 100)
           g3 == Credit(g2, "u2", 100)
<1>1. case = V0!Expecting("unused_supply_auto_sold", V0!Empty, asked, final)
  BY DEF V0!unused_supply_auto_sold
<1>2. Making(case, asked) /\ case.start = V0!Empty /\ case.expect = final
  <2>1. Len(asked) = 4 /\ DOMAIN asked = 1 .. Len(asked)  OBVIOUS
  <2> HIDE DEF asked, final
  <2> QED  BY <1>1, <2>1, ExpectingMakes
<1>3. TestBook = V0!Run(V0!Run(V0!Run(V0!Run(V0!Empty, c1), c2), c3), c4)
  <2> HIDE DEF c1, c2, c3, c4
  <2> QED  BY <1>2, AfterFour
<1>4. /\ IsBook(Three(o1, o2, o3), Names)
      /\ V0!Run(V0!Run(V0!Run(V0!Empty, c1), c2), c3)
            = V0!Book(3, 0, V0!Nobody, Three(o1, o2, o3))
  BY ThreeWait, AllNames
<1>5. /\ Leading(Three(o1, o2, o3), "u3", 50, 4, 3, Two(o1, o2))
      /\ Leading(Two(o1, o2), "u1", 100, 3, 1, One(o2))
  <2>1. /\ o1.price = 3 /\ o2.price = 2 /\ o3.price = 4
        /\ o1.seq = 1 /\ o2.seq = 2 /\ o3.seq = 3
    BY BidIs
  <2> HIDE DEF o1, o2, o3
  <2>2. /\ IsFirst(o3, Three(o1, o2, o3)) /\ Two(o1, o2) = Three(o1, o2, o3) \ {o3}
        /\ IsFirst(o1, Two(o1, o2)) /\ One(o2) = Two(o1, o2) \ {o1}
    BY <2>1 DEF IsFirst, Before, One, Two, Three
  <2> QED  BY <2>2 DEF Leading, o1, o2, o3
<1> HIDE DEF o1, o2, o3, c1, c2, c3, c4
<1>6. TestBook = MatchOf(3, V0!Nobody, Three(o1, o2, o3), 250)
  BY <1>3, <1>4, SellMatches, NobodyIsAccount DEF c4
<1>7. IsBook(Two(o1, o2), Names) /\ IsBook(One(o2), Names)
  BY <1>4, <1>5, PartOfBook
<1>8. IsAccount(g1) /\ IsAccount(g2)  BY NobodyIsAccount, CreditIsAccount
<1>s. Enough(250, 50, 200) /\ Enough(200, 100, 100) /\ Short(100, 150, 50)
  BY DEF Enough, Short
<1>9. MatchOf(3, V0!Nobody, Three(o1, o2, o3), 250) = MatchOf(3, g1, Two(o1, o2), 200)
  BY <1>4, <1>5, <1>s, MatchGoesOn, NobodyIsAccount
<1>10. MatchOf(3, g1, Two(o1, o2), 200) = MatchOf(3, g2, One(o2), 100)
  <2> HIDE DEF g1
  <2> QED  BY <1>5, <1>7, <1>8, <1>s, MatchGoesOn
<1>11. MatchOf(3, g2, One(o2), 100) = V0!Book(3, 0, g3, One(V0!Bid("u2", 50, 2, 2)))
  <2> HIDE DEF g2
  <2> QED  BY <1>7, <1>8, <1>s, AloneLowered DEF o2
<1>12. g3 = given
  <2>1. DOMAIN g1 = {"u3"} /\ g1["u3"] = 50 BY DEF Credit, GivenTo, V0!Nobody
  <2>2. DOMAIN g2 = {"u1", "u3"} /\ g2["u1"] = 100 /\ g2["u3"] = 50
    <3> HIDE DEF g1
    <3> QED  BY <2>1 DEF Credit, GivenTo
  <2>3. /\ DOMAIN g3 = {"u1", "u2", "u3"} /\ g3["u1"] = 100 /\ g3["u2"] = 100
        /\ g3["u3"] = 50 /\ g3 = [u \in DOMAIN g3 |-> g3[u]]
    <3> HIDE DEF g2
    <3> QED  BY <2>2 DEF Credit, GivenTo
  <2> HIDE DEF g3
  <2> QED  BY <2>3
<1> HIDE DEF g1, g2, g3
<1> QED  BY <1>2, <1>6, <1>9, <1>10, <1>11, <1>12 DEF One

\* What a user has after a credit.
LEMMA CreditNobody == \A n \in Nat : Credit(V0!Nobody, "u1", n) = [u1 |-> n]
<1> TAKE n \in Nat
<1> DEFINE g == Credit(V0!Nobody, "u1", n)
<1>1. DOMAIN g = {"u1"} /\ g["u1"] = n /\ g = [u \in DOMAIN g |-> g[u]]
  BY DEF Credit, GivenTo, V0!Nobody
<1> HIDE DEF g
<1>2. g = [u1 |-> n]  BY <1>1
<1> QED  BY <1>2 DEF g

\* A credit to a user who has one adds to it.
LEMMA CreditAgain ==
    \A m, n \in Nat : Credit([u1 |-> m], "u1", n) = [u1 |-> m + n]
<1> TAKE m, n \in Nat
<1> DEFINE g == Credit([u1 |-> m], "u1", n)
<1>1. DOMAIN g = {"u1"} /\ g["u1"] = m + n /\ g = [u \in DOMAIN g |-> g[u]]
  BY DEF Credit, GivenTo
<1> HIDE DEF g
<1>2. g = [u1 |-> m + n]  BY <1>1
<1> QED  BY <1>2 DEF g

\* A test of one call ends with what the call makes of its start, a test of two
\* with what they make.
LEMMA ExpectingOne ==
    ASSUME OnTrack, V0!Done, case \in V0!Cases, NEW name, NEW start, NEW c1,
           NEW result, case = V0!Expecting(name, start, <<c1>>, result)
    PROVE  TestBook = V0!Run(start, c1) /\ case.expect = result
<1> DEFINE asked == <<c1>>
<1>1. Making(case, asked) /\ case.start = start /\ case.expect = result
  <2>1. Len(asked) = 1 /\ DOMAIN asked = 1 .. Len(asked)
        /\ case = V0!Expecting(name, start, asked, result)  OBVIOUS
  <2> HIDE DEF asked
  <2> QED  BY <2>1, ExpectingMakes
<1> QED  BY <1>1, AfterOne

\* The same for a test of two calls.
LEMMA ExpectingTwo ==
    ASSUME OnTrack, V0!Done, case \in V0!Cases, NEW name, NEW start, NEW c1, NEW c2,
           NEW result, case = V0!Expecting(name, start, <<c1, c2>>, result)
    PROVE  TestBook = V0!Run(V0!Run(start, c1), c2) /\ case.expect = result
<1> DEFINE asked == <<c1, c2>>
<1>1. Making(case, asked) /\ case.start = start /\ case.expect = result
  <2>1. Len(asked) = 2 /\ DOMAIN asked = 1 .. Len(asked)
        /\ case = V0!Expecting(name, start, asked, result)  OBVIOUS
  <2> HIDE DEF asked
  <2> QED  BY <2>1, ExpectingMakes
<1> QED  BY <1>1, AfterTwo

\* The same for a test of three calls.
LEMMA ExpectingThree ==
    ASSUME OnTrack, V0!Done, case \in V0!Cases, NEW name, NEW start, NEW c1, NEW c2,
           NEW c3, NEW result, case = V0!Expecting(name, start, <<c1, c2, c3>>, result)
    PROVE  /\ TestBook = V0!Run(V0!Run(V0!Run(start, c1), c2), c3)
           /\ case.expect = result
<1> DEFINE asked == <<c1, c2, c3>>
<1>1. Making(case, asked) /\ case.start = start /\ case.expect = result
  <2>1. Len(asked) = 3 /\ DOMAIN asked = 1 .. Len(asked)
        /\ case = V0!Expecting(name, start, asked, result)  OBVIOUS
  <2> HIDE DEF asked
  <2> QED  BY <2>1, ExpectingMakes
<1> QED  BY <1>1, AfterThree

\* sell: nobody waits, the bid of u1 is filled, or in part.
LEMMA SellTest ==
    ASSUME OnTrack, V0!Done, case \in V0!Cases, case \in V0!sell
    PROVE  TestBook = case.expect
<1> DEFINE a == V0!Bid("u1", 200, 2, 1)
           b == V0!Bid("u1", 100, 2, 1)
<1>0. IsBook(One(a), Names) /\ IsBook(One(b), Names)
      /\ "u1" \in Names
  BY OneWaits, AllNames
<1>1. CASE case = V0!Expecting("sell", V0!Empty, <<V0!Sell(400)>>,
                               V0!Book(0, 400, V0!Nobody, {}))
  <2>1. /\ TestBook = V0!Run(V0!Empty, V0!Sell(400))
        /\ case.expect = V0!Book(0, 400, V0!Nobody, {})
    <3> DEFINE c == V0!Sell(400)
               r == V0!Book(0, 400, V0!Nobody, {})
    <3> HIDE DEF c, r
    <3> QED  BY <1>1, ExpectingOne DEF c, r
  <2>2. PICK none : none = {}  OBVIOUS
  <2>3. IsBook(none, Names)  BY <2>2, NoBook
  <2>4. V0!Run(V0!Book(0, 0, V0!Nobody, none), V0!Sell(400))
          = MatchOf(0, V0!Nobody, none, 400)
    BY <2>3, SellMatches, NobodyIsAccount
  <2>5. MatchOf(0, V0!Nobody, none, 400) = V0!Book(0, 400, V0!Nobody, none)
    BY <2>2, <2>3, NoneServed, NobodyIsAccount
  <2> QED  BY <2>1, <2>2, <2>4, <2>5, StartBooks
<1>2. CASE case = V0!Expecting("sell", V0!WithBid(a), <<V0!Sell(300)>>,
                               V0!Book(0, 100, [u1 |-> 200], {}))
  <2>1. /\ TestBook = V0!Run(V0!WithBid(a), V0!Sell(300))
        /\ case.expect = V0!Book(0, 100, [u1 |-> 200], {})
    <3> DEFINE c == V0!Sell(300)
               r == V0!Book(0, 100, [u1 |-> 200], {})
    <3> HIDE DEF c, r, a
    <3> QED  BY <1>2, ExpectingOne DEF c, r
  <2>2. V0!WithBid(a) = V0!Book(0, 0, V0!Nobody, One(a))
    <3> HIDE DEF a
    <3> QED  BY StartBooks DEF One
  <2>3. V0!Run(V0!Book(0, 0, V0!Nobody, One(a)), V0!Sell(300))
          = MatchOf(0, V0!Nobody, One(a), 300)
    <3> HIDE DEF a
    <3> QED  BY <1>0, SellMatches, NobodyIsAccount
  <2>4. Enough(300, 200, 100)  BY DEF Enough
  <2>5. MatchOf(0, V0!Nobody, One(a), 300)
          = V0!Book(0, 100, Credit(V0!Nobody, "u1", 200), {})
    BY <1>0, <2>4, AloneFilled, NobodyIsAccount
  <2> HIDE DEF a
  <2> QED  BY <2>1, <2>2, <2>3, <2>5, CreditNobody
<1>3. CASE case = V0!Expecting("sell", V0!WithBid(b), <<V0!Sell(50)>>,
                               V0!Book(0, 0, [u1 |-> 50], {V0!Bid("u1", 50, 2, 1)}))
  <2>1. /\ TestBook = V0!Run(V0!WithBid(b), V0!Sell(50))
        /\ case.expect = V0!Book(0, 0, [u1 |-> 50], One(V0!Bid("u1", 50, 2, 1)))
    <3> DEFINE c == V0!Sell(50)
               r == V0!Book(0, 0, [u1 |-> 50], {V0!Bid("u1", 50, 2, 1)})
    <3>1. r = V0!Book(0, 0, [u1 |-> 50], One(V0!Bid("u1", 50, 2, 1)))
      BY DEF One
    <3> HIDE DEF c, r, b
    <3> QED  BY <1>3, <3>1, ExpectingOne DEF c, r
  <2>2. V0!WithBid(b) = V0!Book(0, 0, V0!Nobody, One(b))
    <3> HIDE DEF b
    <3> QED  BY StartBooks DEF One
  <2>3. V0!Run(V0!Book(0, 0, V0!Nobody, One(b)), V0!Sell(50))
          = MatchOf(0, V0!Nobody, One(b), 50)
    <3> HIDE DEF b
    <3> QED  BY <1>0, SellMatches, NobodyIsAccount
  <2>4. Short(50, 100, 50)  BY DEF Short
  <2>5. MatchOf(0, V0!Nobody, One(b), 50)
          = V0!Book(0, 0, Credit(V0!Nobody, "u1", 50), One(V0!Bid("u1", 50, 2, 1)))
    BY <1>0, <2>4, AloneLowered, NobodyIsAccount
  <2> HIDE DEF b
  <2> QED  BY <2>1, <2>2, <2>3, <2>5, CreditNobody
<1> QED  BY <1>1, <1>2, <1>3 DEF V0!sell

\* A book with supply and no orders.
LEMMA NoneWaits ==
    ASSUME NEW q, NEW g, NEW t, NEW u, NEW v, NEW p, 
           q \in Nat, t \in Nat, v \in Nat
    PROVE  /\ t > 0 /\ t >= v =>
                V0!Run(V0!Book(q, t, g, {}), V0!Buy(u, v, p))
                    = V0!Book(q + 1, t - v, Credit(g, u, v), {})
           /\ t > 0 /\ t < v =>
                V0!Run(V0!Book(q, t, g, {}), V0!Buy(u, v, p))
                    = V0!Book(q + 1, 0, Credit(g, u, t),
                              One(V0!Bid(u, v - t, p, q + 1)))
<1>1. PICK none : none = {}  OBVIOUS
<1>2. CASE t > 0 /\ t >= v
  <2>1. V0!BuyImpl(V0!Book(q, t, g, none), u, v, p)
          = V0!Book(q + 1, t - v, Credit(g, u, v), none)
    BY <1>2, BuyServed
  <2> QED  BY <1>1, <1>2, <2>1, RunCall
<1>3. CASE t > 0 /\ t < v
  <2> DEFINE o == V0!Bid(u, v - t, p, q + 1)
  <2>1. V0!BuyImpl(V0!Book(q, t, g, none), u, v, p)
          = V0!Book(q + 1, 0, Credit(g, u, t), none \cup {o})
    BY <1>3, BuyPartly
  <2>2. none \cup {o} = One(o)
    <3> HIDE DEF o
    <3> QED  BY <1>1 DEF One
  <2> HIDE DEF o
  <2> QED  BY <1>1, <1>3, <2>1, <2>2, RunCall DEF o
<1> QED  BY <1>2, <1>3

\* buy: served, in part, or kept without supply.
LEMMA BuyTest ==
    ASSUME OnTrack, V0!Done, case \in V0!Cases, case \in V0!buy
    PROVE  TestBook = case.expect
<1> DEFINE c1 == V0!Buy("u1", 200, 2)
           c2 == V0!Buy("u1", 100, 2)
           c3 == V0!Buy("u2", 100, 2)
           c4 == V0!Buy("u3", 100, 3)
           r1 == V0!Book(1, 0, [u1 |-> 200], {})
           r2 == V0!Book(1, 0, [u1 |-> 50], {V0!Bid("u1", 50, 2, 1)})
           r3 == V0!Book(3, 0, V0!Nobody, {V0!Bid("u1", 100, 2, 1),
                         V0!Bid("u2", 100, 2, 2), V0!Bid("u3", 100, 3, 3)})
<1>1. \/ case = V0!Expecting("buy", V0!WithSupply(200), <<c1>>, r1)
      \/ case = V0!Expecting("buy", V0!WithSupply(50), <<c2>>, r2)
      \/ case = V0!Expecting("buy", V0!Empty, <<c2, c3, c4>>, r3)
  BY DEF V0!buy
<1>a. V0!Run(V0!WithSupply(200), c1) = r1
  <2>1. V0!Run(V0!Book(0, 200, V0!Nobody, {}), c1)
          = V0!Book(0 + 1, 200 - 200, Credit(V0!Nobody, "u1", 200), {})
    BY NoneWaits
  <2>2. 0 + 1 = 1 /\ 200 - 200 = 0  OBVIOUS
  <2> HIDE DEF c1
  <2> QED  BY <2>1, <2>2, CreditNobody, StartBooks
<1>b. V0!Run(V0!WithSupply(50), c2) = r2
  <2>1. V0!Run(V0!Book(0, 50, V0!Nobody, {}), c2)
          = V0!Book(0 + 1, 0, Credit(V0!Nobody, "u1", 50),
                    One(V0!Bid("u1", 100 - 50, 2, 0 + 1)))
    BY NoneWaits
  <2>2. 0 + 1 = 1 /\ 100 - 50 = 50  OBVIOUS
  <2> HIDE DEF c2
  <2> QED  BY <2>1, <2>2, CreditNobody, StartBooks DEF One
<1>c. V0!Run(V0!Run(V0!Run(V0!Empty, c2), c3), c4) = r3
  <2>1. V0!Run(V0!Run(V0!Run(V0!Empty, c2), c3), c4)
          = V0!Book(3, 0, V0!Nobody, Three(V0!Bid("u1", 100, 2, 1),
                        V0!Bid("u2", 100, 2, 2), V0!Bid("u3", 100, 3, 3)))
    BY ThreeWait, AllNames
  <2> QED  BY <2>1 DEF Three
<1> HIDE DEF c1, c2, c3, c4, r1, r2, r3
<1>2. CASE case = V0!Expecting("buy", V0!WithSupply(200), <<c1>>, r1)
  BY <1>2, <1>a, ExpectingOne
<1>3. CASE case = V0!Expecting("buy", V0!WithSupply(50), <<c2>>, r2)
  BY <1>3, <1>b, ExpectingOne
<1>4. CASE case = V0!Expecting("buy", V0!Empty, <<c2, c3, c4>>, r3)
  BY <1>4, <1>c, ExpectingThree
<1> QED  BY <1>1, <1>2, <1>3, <1>4

\* A user who buys twice holds both bids, or what the supply gave.
LEMMA BuyTwiceTest ==
    ASSUME OnTrack, V0!Done, case \in V0!Cases, case \in V0!buy_same_user_buys_twice
    PROVE  TestBook = case.expect
<1> DEFINE name == "buy_same_user_buys_twice"
           c1 == V0!Buy("u1", 200, 2)
           c2 == V0!Buy("u1", 100, 2)
           r1 == V0!Book(2, 0, [u1 |-> 400], {})
           r2 == V0!Book(2, 0, [u1 |-> 300], {V0!Bid("u1", 100, 2, 2)})
           r3 == V0!Book(2, 0, V0!Nobody, {V0!Bid("u1", 100, 2, 1), V0!Bid("u1", 100, 2, 2)})
<1>1. \/ case = V0!Expecting(name, V0!WithSupply(400), <<c1, c1>>, r1)
      \/ case = V0!Expecting(name, V0!WithSupply(300), <<c1, c1>>, r2)
      \/ case = V0!Expecting(name, V0!Empty, <<c2, c2>>, r3)
  BY DEF V0!buy_same_user_buys_twice
<1>a. V0!Run(V0!Run(V0!WithSupply(400), c1), c1) = r1
  <2>1. V0!Run(V0!Book(0, 400, V0!Nobody, {}), c1)
          = V0!Book(0 + 1, 400 - 200, Credit(V0!Nobody, "u1", 200), {})
    BY NoneWaits
  <2>2. V0!Run(V0!Book(1, 200, [u1 |-> 200], {}), c1)
          = V0!Book(1 + 1, 200 - 200, Credit([u1 |-> 200], "u1", 200), {})
    BY NoneWaits
  <2>3. 0 + 1 = 1 /\ 400 - 200 = 200 /\ 1 + 1 = 2 /\ 200 - 200 = 0
        /\ 200 + 200 = 400
    OBVIOUS
  <2>4. Credit([u1 |-> 200], "u1", 200) = [u1 |-> 400]
    <3>1. Credit([u1 |-> 200], "u1", 200) = [u1 |-> 200 + 200]  BY CreditAgain
    <3> QED  BY <2>3, <3>1
  <2> HIDE DEF c1
  <2> QED  BY <2>1, <2>2, <2>3, <2>4, CreditNobody, StartBooks
<1>b. V0!Run(V0!Run(V0!WithSupply(300), c1), c1) = r2
  <2>1. V0!Run(V0!Book(0, 300, V0!Nobody, {}), c1)
          = V0!Book(0 + 1, 300 - 200, Credit(V0!Nobody, "u1", 200), {})
    BY NoneWaits
  <2>2. V0!Run(V0!Book(1, 100, [u1 |-> 200], {}), c1)
          = V0!Book(1 + 1, 0, Credit([u1 |-> 200], "u1", 100),
                    One(V0!Bid("u1", 200 - 100, 2, 1 + 1)))
    BY NoneWaits
  <2>3. 0 + 1 = 1 /\ 300 - 200 = 100 /\ 1 + 1 = 2 /\ 200 - 100 = 100
        /\ 200 + 100 = 300
    OBVIOUS
  <2>4. Credit([u1 |-> 200], "u1", 100) = [u1 |-> 300]
    <3>1. Credit([u1 |-> 200], "u1", 100) = [u1 |-> 200 + 100]  BY CreditAgain
    <3> QED  BY <2>3, <3>1
  <2> HIDE DEF c1
  <2> QED  BY <2>1, <2>2, <2>3, <2>4, CreditNobody, StartBooks DEF One
<1>c. V0!Run(V0!Run(V0!Empty, c2), c2) = r3
  BY TwoWait, AllNames DEF Two
<1> HIDE DEF c1, c2, r1, r2, r3, name
<1>2. CASE case = V0!Expecting(name, V0!WithSupply(400), <<c1, c1>>, r1)
  BY <1>2, <1>a, ExpectingTwo
<1>3. CASE case = V0!Expecting(name, V0!WithSupply(300), <<c1, c1>>, r2)
  BY <1>3, <1>b, ExpectingTwo
<1>4. CASE case = V0!Expecting(name, V0!Empty, <<c2, c2>>, r3)
  BY <1>4, <1>c, ExpectingTwo
<1> QED  BY <1>1, <1>2, <1>3, <1>4

\* Three calls and one or two more.
LEMMA ThreeAnd ==
    ASSUME NEW a, NEW b, NEW c, NEW d
    PROVE  /\ <<a, b, c>> \o <<d>> = <<a, b, c, d>>
           /\ <<a, b, c>> \o <<d, d>> = <<a, b, c, d, d>>
<1> DEFINE S == {a, b, c, d}
           three == <<a, b, c>>
           one == <<d>>
           two == <<d, d>>
           x == three \o one
           y == three \o two
<1>1. three \in Seq(S) /\ one \in Seq(S) /\ two \in Seq(S)
  OBVIOUS
<1>2. /\ Len(three) = 3 /\ three[1] = a /\ three[2] = b /\ three[3] = c
      /\ Len(one) = 1 /\ one[1] = d
      /\ Len(two) = 2 /\ two[1] = d /\ two[2] = d
  OBVIOUS
<1> HIDE DEF three, one, two, S
<1>3. x \in Seq(S) /\ y \in Seq(S)  BY <1>1
<1>4. Len(x) = Len(three) + Len(one) /\ Len(y) = Len(three) + Len(two)  BY <1>1
<1>5. /\ \A i \in 1 .. Len(three) : x[i] = three[i]
      /\ \A i \in 1 .. Len(three) : y[i] = three[i]
  BY <1>1
<1>6. /\ \A i \in 1 .. Len(one) : x[Len(three) + i] = one[i]
      /\ \A i \in 1 .. Len(two) : y[Len(three) + i] = two[i]
  BY <1>1
<1> HIDE DEF x, y
<1>7. /\ Len(x) = 4 /\ x[1] = a /\ x[2] = b /\ x[3] = c /\ x[4] = d
      /\ Len(y) = 5 /\ y[1] = a /\ y[2] = b /\ y[3] = c /\ y[4] = d /\ y[5] = d
  BY <1>2, <1>4, <1>5, <1>6
<1>8. x \in [1 .. 4 -> S] /\ y \in [1 .. 5 -> S]  BY <1>3, <1>7, LenProperties
<1>9. <<a, b, c, d>> \in [1 .. 4 -> S] /\ <<a, b, c, d, d>> \in [1 .. 5 -> S]
  BY DEF S
<1>10. x = <<a, b, c, d>>
  <2> HIDE DEF S
  <2> QED  BY <1>7, <1>8, <1>9
<1>11. y = <<a, b, c, d, d>>
  <2> HIDE DEF S
  <2> QED  BY <1>7, <1>8, <1>9
<1> QED  BY <1>10, <1>11 DEF x, y, three, one, two

\* The higher of the waiting bids is filled first, by one sell or by two.
LEMMA HigherUnitTest ==
    ASSUME OnTrack, V0!Done, case \in V0!Cases,
           case \in V0!higher_price_always_fills_first_unit
    PROVE  TestBook = case.expect
<1> DEFINE name == "higher_price_always_fills_first_unit"
           c1 == V0!Buy("u1", 200, 2)
           c2 == V0!Buy("u2", 200, 4)
           c3 == V0!Buy("u3", 200, 10)
           c4 == V0!Sell(200)
           o1 == V0!Bid("u1", 200, 2, 1)
           o2 == V0!Bid("u2", 200, 4, 2)
           o3 == V0!Bid("u3", 200, 10, 3)
           r1 == V0!Book(3, 0, [u3 |-> 200], {o1, o2})
           r2 == V0!Book(3, 0, [u2 |-> 200, u3 |-> 200], {o1})
           four == <<c1, c2, c3, c4>>
           five == <<c1, c2, c3, c4, c4>>
           start == V0!Run(V0!Run(V0!Run(V0!Empty, c1), c2), c3)
           g1 == Credit(V0!Nobody, "u3", 200)
           g2 == Credit(g1, "u2", 200)
<1>1. /\ IsBook(Three(o1, o2, o3), Names)
      /\ start = V0!Book(3, 0, V0!Nobody, Three(o1, o2, o3))
  BY ThreeWait, AllNames
<1>2. /\ Leading(Three(o1, o2, o3), "u3", 200, 10, 3, Two(o1, o2))
      /\ Leading(Two(o1, o2), "u2", 200, 4, 2, One(o1))
  <2>1. /\ o1.price = 2 /\ o2.price = 4 /\ o3.price = 10
        /\ o1.seq = 1 /\ o2.seq = 2 /\ o3.seq = 3
    BY BidIs
  <2> HIDE DEF o1, o2, o3
  <2>2. /\ IsFirst(o3, Three(o1, o2, o3)) /\ Two(o1, o2) = Three(o1, o2, o3) \ {o3}
        /\ IsFirst(o2, Two(o1, o2)) /\ One(o1) = Two(o1, o2) \ {o2}
    BY <2>1 DEF IsFirst, Before, One, Two, Three
  <2> QED  BY <2>2 DEF Leading, o1, o2, o3
<1>3. g1 = [u3 |-> 200] /\ g2 = [u2 |-> 200, u3 |-> 200]
  <2>1. DOMAIN g1 = {"u3"} /\ g1["u3"] = 200 /\ g1 = [u \in DOMAIN g1 |-> g1[u]]
    BY DEF Credit, GivenTo, V0!Nobody
  <2>2. /\ DOMAIN g2 = {"u2", "u3"} /\ g2["u2"] = 200 /\ g2["u3"] = 200
        /\ g2 = [u \in DOMAIN g2 |-> g2[u]]
    <3> HIDE DEF g1
    <3> QED  BY <2>1 DEF Credit, GivenTo
  <2> HIDE DEF g1, g2
  <2>3. g1 = [u3 |-> 200]  BY <2>1
  <2>4. g2 = [u2 |-> 200, u3 |-> 200]  BY <2>2
  <2> QED  BY <2>3, <2>4
<1>4. IsBook(Two(o1, o2), Names) /\ IsBook(One(o1), Names)
  <2> HIDE DEF o1, o2, o3
  <2>1. IsBook(Two(o1, o2), Names)  BY <1>1, <1>2, PartOfBook
  <2> QED  BY <1>2, <2>1, PartOfBook
<1>5. IsAccount(g1) /\ IsAccount(g2)  BY NobodyIsAccount, CreditIsAccount
<1> HIDE DEF o1, o2, o3, g1, g2, start
<1>6. Enough(200, 200, 0)  BY DEF Enough
<1>7. V0!Run(start, c4) = V0!Book(3, 0, g1, Two(o1, o2))
  <2>1. V0!Run(V0!Book(3, 0, V0!Nobody, Three(o1, o2, o3)), c4)
          = MatchOf(3, V0!Nobody, Three(o1, o2, o3), 200)
    BY <1>1, SellMatches, NobodyIsAccount
  <2>2. MatchOf(3, V0!Nobody, Three(o1, o2, o3), 200) = MatchOf(3, g1, Two(o1, o2), 0)
    BY <1>1, <1>2, <1>6, MatchGoesOn, NobodyIsAccount DEF g1
  <2>3. MatchOf(3, g1, Two(o1, o2), 0) = V0!Book(3, 0, g1, Two(o1, o2))
    BY <1>4, <1>5, NoneServed
  <2> HIDE DEF c4
  <2> QED  BY <1>1, <2>1, <2>2, <2>3
<1>8. V0!Run(V0!Book(3, 0, g1, Two(o1, o2)), c4) = V0!Book(3, 0, g2, One(o1))
  <2>1. V0!Run(V0!Book(3, 0, g1, Two(o1, o2)), c4) = MatchOf(3, g1, Two(o1, o2), 200)
    BY <1>4, <1>5, SellMatches
  <2>2. MatchOf(3, g1, Two(o1, o2), 200) = MatchOf(3, g2, One(o1), 0)
    BY <1>2, <1>4, <1>5, <1>6, MatchGoesOn DEF g2
  <2>3. MatchOf(3, g2, One(o1), 0) = V0!Book(3, 0, g2, One(o1))
    BY <1>4, <1>5, NoneServed
  <2> HIDE DEF c4
  <2> QED  BY <2>1, <2>2, <2>3
<1>9. V0!Run(start, c4) = r1 /\ V0!Run(V0!Run(start, c4), c4) = r2
  <2> HIDE DEF c4
  <2> QED  BY <1>3, <1>7, <1>8 DEF One, Two
<1>10. \/ case = V0!Expecting(name, V0!Empty, four, r1)
       \/ case = V0!Expecting(name, V0!Empty, five, r2)
  <2> DEFINE three == <<c1, c2, c3>>
  <2>1. three \o <<c4>> = four /\ three \o <<c4, c4>> = five
    <3> HIDE DEF c1, c2, c3, c4
    <3> QED  BY ThreeAnd
  <2>2. \/ case = V0!Expecting(name, V0!Empty, three \o <<c4>>, r1)
        \/ case = V0!Expecting(name, V0!Empty, three \o <<c4, c4>>, r2)
    BY DEF V0!higher_price_always_fills_first_unit, o1, o2
  <2> HIDE DEF three, four, five, r1, r2
  <2> QED  BY <2>1, <2>2
<1>11. /\ Len(four) = 4 /\ DOMAIN four = 1 .. Len(four)
       /\ Len(five) = 5 /\ DOMAIN five = 1 .. Len(five)
  <2> HIDE DEF c1, c2, c3, c4
  <2> QED  OBVIOUS
<1> HIDE DEF c1, c2, c3, c4, r1, r2, name
<1>12. CASE case = V0!Expecting(name, V0!Empty, four, r1)
  <2>1. Making(case, four) /\ case.start = V0!Empty /\ case.expect = r1
    <3> HIDE DEF four
    <3> QED  BY <1>11, <1>12, ExpectingMakes
  <2> QED  BY <1>9, <2>1, AfterFour DEF start
<1>13. CASE case = V0!Expecting(name, V0!Empty, five, r2)
  <2>1. Making(case, five) /\ case.start = V0!Empty /\ case.expect = r2
    <3> HIDE DEF five
    <3> QED  BY <1>11, <1>13, ExpectingMakes
  <2> QED  BY <1>9, <2>1, AfterFive DEF start
<1> QED  BY <1>10, <1>12, <1>13

\* A property test with one, two or three calls.
LEMMA CaseOne ==
    ASSUME OnTrack, V0!Done, case \in V0!Cases, NEW name, NEW start, NEW c1,
           case = V0!Case(name, start, <<V0!Alone(c1)>>)
    PROVE  TestBook = V0!Run(start, c1) /\ case.start = start
<1> DEFINE p1 == V0!Alone(c1)
           p == <<p1>>
           asked == <<c1>>
<1>1. case.phases = p /\ case.start = start  BY DEF V0!Case
<1>2. case.phases \in Seq(SUBSET Task)  BY RequestsAssumption DEF Task
<1>3. /\ Len(p) = 1 /\ p[1] = p1
      /\ Len(asked) = 1 /\ asked[1] = c1
  OBVIOUS
<1>4. p1 = {<<1, c1>>}  BY DEF V0!Alone
<1> HIDE DEF p1, p, asked
<1>5. \A i \in 1 .. 1 : p[i] = {<<1, asked[i]>>}
  <2> TAKE i \in 1 .. 1
  <2>1. i = 1  OBVIOUS
  <2> QED  BY <1>3, <1>4, <2>1
<1>6. Making(case, asked)  BY <1>1, <1>2, <1>3, <1>5 DEF Making
<1> QED  BY <1>1, <1>6, AfterOne DEF asked

\* The same for two calls.
LEMMA CaseTwo ==
    ASSUME OnTrack, V0!Done, case \in V0!Cases, NEW name, NEW start, NEW c1, NEW c2,
           case = V0!Case(name, start, <<V0!Alone(c1), V0!Alone(c2)>>)
    PROVE  TestBook = V0!Run(V0!Run(start, c1), c2) /\ case.start = start
<1> DEFINE p1 == V0!Alone(c1)
           p2 == V0!Alone(c2)
           p == <<p1, p2>>
           asked == <<c1, c2>>
<1>1. case.phases = p /\ case.start = start  BY DEF V0!Case
<1>2. case.phases \in Seq(SUBSET Task)  BY RequestsAssumption DEF Task
<1>4. p1 = {<<1, c1>>} /\ p2 = {<<1, c2>>}  BY DEF V0!Alone
<1> HIDE DEF p1, p2
<1>3. /\ Len(p) = 2 /\ p[1] = p1 /\ p[2] = p2
      /\ Len(asked) = 2 /\ asked[1] = c1 /\ asked[2] = c2
  OBVIOUS
<1> HIDE DEF p, asked
<1>5. \A i \in 1 .. 2 : p[i] = {<<1, asked[i]>>}
  <2> TAKE i \in 1 .. 2
  <2>1. i = 1 \/ i = 2  OBVIOUS
  <2> QED  BY <1>3, <1>4, <2>1
<1>6. Making(case, asked)  BY <1>1, <1>2, <1>3, <1>5 DEF Making
<1> QED  BY <1>1, <1>6, AfterTwo DEF asked

\* The same for three calls.
LEMMA CaseThree ==
    ASSUME OnTrack, V0!Done, case \in V0!Cases, NEW name, NEW start,
           NEW c1, NEW c2, NEW c3,
           case = V0!Case(name, start, <<V0!Alone(c1), V0!Alone(c2), V0!Alone(c3)>>)
    PROVE  TestBook = V0!Run(V0!Run(V0!Run(start, c1), c2), c3) /\ case.start = start
<1> DEFINE p1 == V0!Alone(c1)
           p2 == V0!Alone(c2)
           p3 == V0!Alone(c3)
           p == <<p1, p2, p3>>
           asked == <<c1, c2, c3>>
<1>1. case.phases = p /\ case.start = start  BY DEF V0!Case
<1>2. case.phases \in Seq(SUBSET Task)  BY RequestsAssumption DEF Task
<1>4. p1 = {<<1, c1>>} /\ p2 = {<<1, c2>>} /\ p3 = {<<1, c3>>}  BY DEF V0!Alone
<1> HIDE DEF p1, p2, p3
<1>3. /\ Len(p) = 3 /\ p[1] = p1 /\ p[2] = p2 /\ p[3] = p3
      /\ Len(asked) = 3 /\ asked[1] = c1 /\ asked[2] = c2 /\ asked[3] = c3
  OBVIOUS
<1> HIDE DEF p, asked
<1>5. \A i \in 1 .. 3 : p[i] = {<<1, asked[i]>>}
  <2> TAKE i \in 1 .. 3
  <2>1. i = 1 \/ i = 2 \/ i = 3  OBVIOUS
  <2> QED  BY <1>3, <1>4, <2>1
<1>6. Making(case, asked)  BY <1>1, <1>2, <1>3, <1>5 DEF Making
<1> QED  BY <1>1, <1>6, AfterThree DEF asked

\* What a user holds in a book.
LEMMA HeldOf ==
    \A q, t, f, O, a : V0!HeldIn(V0!Book(q, t, f, O), a) = IF a \in DOMAIN f THEN f[a] ELSE 0
BY DEF V0!Book, V0!HeldIn

\* What the users hold after the match with the bids of two of them.
LEMMA HeldAfterCredit ==
    ASSUME NEW q, NEW t, NEW u, NEW n, NEW O, NEW w, NEW m,
           n \in Nat, m \in Nat, u # w
    PROVE  LET g == Credit(V0!Nobody, u, n)
               h == Credit(g, w, m)
           IN  /\ V0!HeldIn(V0!Book(q, t, g, O), u) = n
               /\ V0!HeldIn(V0!Book(q, t, g, O), w) = 0
               /\ V0!HeldIn(V0!Book(q, t, h, O), u) = n
               /\ V0!HeldIn(V0!Book(q, t, h, O), w) = m
<1> DEFINE g == Credit(V0!Nobody, u, n)
           h == Credit(g, w, m)
<1>1. DOMAIN g = {u} /\ g[u] = n  BY DEF Credit, GivenTo, V0!Nobody
<1>2. DOMAIN h = {u, w} /\ h[u] = n /\ h[w] = m
  <2> HIDE DEF g
  <2> QED  BY <1>1 DEF Credit, GivenTo
<1> HIDE DEF g, h
<1>3. \A f, a : V0!HeldIn(V0!Book(q, t, f, O), a) = IF a \in DOMAIN f THEN f[a] ELSE 0
  BY HeldOf
<1>4. /\ V0!HeldIn(V0!Book(q, t, g, O), u) = n
      /\ V0!HeldIn(V0!Book(q, t, g, O), w) = 0
  BY <1>1, <1>3
<1>5. /\ V0!HeldIn(V0!Book(q, t, h, O), u) = n
      /\ V0!HeldIn(V0!Book(q, t, h, O), w) = m
  BY <1>2, <1>3
<1> QED  BY <1>4, <1>5 DEF g, h

\* Of two bids for the same volume the first gets no less than the second.
LEMMA FirstHasMore ==
    ASSUME NEW O, NEW u, NEW v, NEW p, NEW i, NEW w, NEW r, NEW j, NEW q, NEW t,
           IsBook(O, Names), Leading(O, u, v, p, i, One(V0!Bid(w, v, r, j))),
           v \in Nat \ {0}, t \in Nat \ {0}, u # w
    PROVE  LET b == MatchOf(q, V0!Nobody, O, t)
           IN  V0!HeldIn(b, u) >= V0!HeldIn(b, w)
<1> DEFINE o == V0!Bid(w, v, r, j)
           g == Credit(V0!Nobody, u, v)
<1>1. CASE t < v
  <2>1. PICK rest : rest = v - t  OBVIOUS
  <2>2. Short(t, v, rest)  BY <1>1, <2>1 DEF Short
  <2>3. MatchOf(q, V0!Nobody, O, t)
          = V0!Book(q, 0, Credit(V0!Nobody, u, t), With(One(o), V0!Bid(u, rest, p, i)))
    BY <2>2, MatchEnds, NobodyIsAccount
  <2> HIDE DEF o
  <2> QED  BY <2>3, HeldAfterCredit
<1>2. CASE v <= t
  <2>1. PICK left : left = t - v  OBVIOUS
  <2>2. left \in Nat /\ Enough(t, v, left)  BY <1>2, <2>1 DEF Enough
  <2>3. MatchOf(q, V0!Nobody, O, t) = MatchOf(q, g, One(o), left)
    BY <2>2, MatchGoesOn, NobodyIsAccount
  <2>4. IsBook(One(o), Names) /\ IsAccount(g)
    BY PartOfBook, NobodyIsAccount, CreditIsAccount
  <2>5. CASE left = 0
    <3>1. MatchOf(q, g, One(o), left) = V0!Book(q, left, g, One(o))
      <4> HIDE DEF o, g
      <4> QED  BY <2>2, <2>4, <2>5, NoneServed
    <3> HIDE DEF o
    <3> QED  BY <2>3, <3>1, HeldAfterCredit
  <2>6. CASE left > 0 /\ v <= left
    <3>1. PICK l : l = left - v  OBVIOUS
    <3>2. Enough(left, v, l)  BY <2>2, <2>6, <3>1 DEF Enough
    <3>3. MatchOf(q, g, One(o), left) = V0!Book(q, l, Credit(g, w, v), {})
      <4> HIDE DEF g
      <4> QED  BY <2>4, <3>2, AloneFilled
    <3>4. PICK none : none = {}  OBVIOUS
    <3>5. MatchOf(q, V0!Nobody, O, t) = V0!Book(q, l, Credit(g, w, v), none)
      BY <2>3, <3>3, <3>4
    <3> QED  BY <3>5, HeldAfterCredit
  <2>7. CASE left > 0 /\ left < v
    <3>1. PICK rest : rest = v - left  OBVIOUS
    <3>2. Short(left, v, rest)  BY <2>2, <2>7, <3>1 DEF Short
    <3>3. MatchOf(q, g, One(o), left)
            = V0!Book(q, 0, Credit(g, w, left), One(V0!Bid(w, rest, r, j)))
      <4> HIDE DEF g
      <4> QED  BY <2>4, <3>2, AloneLowered
    <3> QED  BY <2>2, <2>3, <2>7, <3>3, HeldAfterCredit
  <2> QED  BY <2>2, <2>5, <2>6, <2>7
<1> QED  BY <1>1, <1>2

\* Equal prices: the earlier bid is first.
LEMMA FifoTest ==
    ASSUME OnTrack, V0!Done, case \in V0!Cases, case \in V0!fifo_within_same_price
    PROVE  V0!HeldIn(TestBook, "u1") >= V0!HeldIn(TestBook, "u2")
<1>1. PICK s \in 1 .. 2 * MaxVolume, p \in V0!TestPrices, v \in V0!TestVolumes :
        case = V0!Case("fifo_within_same_price", V0!Empty,
                       <<V0!Alone(V0!Buy("u1", v, p)), V0!Alone(V0!Buy("u2", v, p)),
                         V0!Alone(V0!Sell(s))>>)
  BY DEF V0!fifo_within_same_price
<1>2. s \in Nat \ {0} /\ v \in Nat \ {0} /\ p \in Int
  BY TestsAssumption DEF V0!TestPrices, V0!TestVolumes
<1> DEFINE a == V0!Bid("u1", v, p, 1)
           b == V0!Bid("u2", v, p, 2)
<1>3. TestBook = V0!Run(V0!Run(V0!Run(V0!Empty, V0!Buy("u1", v, p)), V0!Buy("u2", v, p)),
                        V0!Sell(s))
  BY <1>1, CaseThree
<1>4. /\ IsBook(Two(a, b), Names)
      /\ V0!Run(V0!Run(V0!Empty, V0!Buy("u1", v, p)), V0!Buy("u2", v, p))
            = V0!Book(2, 0, V0!Nobody, Two(a, b))
  BY <1>2, TwoWait, AllNames
<1>5. Leading(Two(a, b), "u1", v, p, 1, One(b))
  <2>1. a.price = p /\ b.price = p /\ a.seq = 1 /\ b.seq = 2  BY BidIs
  <2> HIDE DEF a, b
  <2>2. IsFirst(a, Two(a, b)) /\ One(b) = Two(a, b) \ {a}
    BY <1>2, <2>1 DEF IsFirst, Before, One, Two
  <2> QED  BY <2>2 DEF Leading, a, b
<1>6. TestBook = MatchOf(2, V0!Nobody, Two(a, b), s)
  <2> HIDE DEF a, b
  <2> QED  BY <1>2, <1>3, <1>4, SellMatches, NobodyIsAccount
<1>7. "u1" # "u2"  OBVIOUS
<1>8. LET m == MatchOf(2, V0!Nobody, Two(a, b), s)
      IN  V0!HeldIn(m, "u1") >= V0!HeldIn(m, "u2")
  BY <1>2, <1>4, <1>5, <1>7, FirstHasMore
<1> QED  BY <1>6, <1>8

\* The higher price is first, though it came later.
LEMMA HigherTest ==
    ASSUME OnTrack, V0!Done, case \in V0!Cases,
           case \in V0!higher_price_always_fills_first
    PROVE  V0!HeldIn(TestBook, "hi") >= V0!HeldIn(TestBook, "lo")
<1>1. PICK s \in 1 .. 2 * MaxVolume, p \in V0!TestPrices,
           r \in MaxPrice + 1 .. 2 * MaxPrice, v \in V0!TestVolumes :
        case = V0!Case("higher_price_always_fills_first", V0!Empty,
                       <<V0!Alone(V0!Buy("lo", v, p)), V0!Alone(V0!Buy("hi", v, r)),
                         V0!Alone(V0!Sell(s))>>)
  BY DEF V0!higher_price_always_fills_first
<1>2. s \in Nat \ {0} /\ v \in Nat \ {0} /\ p \in Int /\ r \in Int /\ r > p
  BY TestsAssumption DEF V0!TestPrices, V0!TestVolumes
<1> DEFINE a == V0!Bid("lo", v, p, 1)
           b == V0!Bid("hi", v, r, 2)
<1>3. TestBook = V0!Run(V0!Run(V0!Run(V0!Empty, V0!Buy("lo", v, p)), V0!Buy("hi", v, r)),
                        V0!Sell(s))
  BY <1>1, CaseThree
<1>4. /\ IsBook(Two(a, b), Names)
      /\ V0!Run(V0!Run(V0!Empty, V0!Buy("lo", v, p)), V0!Buy("hi", v, r))
            = V0!Book(2, 0, V0!Nobody, Two(a, b))
  BY <1>2, TwoWait, AllNames
<1>5. Leading(Two(a, b), "hi", v, r, 2, One(a))
  <2>1. a.price = p /\ b.price = r /\ a.seq = 1 /\ b.seq = 2  BY BidIs
  <2> HIDE DEF a, b
  <2>2. IsFirst(b, Two(a, b)) /\ One(a) = Two(a, b) \ {b}
    BY <1>2, <2>1 DEF IsFirst, Before, One, Two
  <2> QED  BY <2>2 DEF Leading, a, b
<1>6. TestBook = MatchOf(2, V0!Nobody, Two(a, b), s)
  <2> HIDE DEF a, b
  <2> QED  BY <1>2, <1>3, <1>4, SellMatches, NobodyIsAccount
<1>7. "hi" # "lo"  OBVIOUS
<1>8. LET m == MatchOf(2, V0!Nobody, Two(a, b), s)
      IN  V0!HeldIn(m, "hi") >= V0!HeldIn(m, "lo")
  BY <1>2, <1>4, <1>5, <1>7, FirstHasMore
<1> QED  BY <1>6, <1>8

\* A buy is never given more than the supply it met.
LEMMA NeverExceedsTest ==
    ASSUME OnTrack, V0!Done, case \in V0!Cases,
           case \in V0!allocated_never_exceeds_supply
    PROVE  V0!HeldIn(TestBook, "u1") <= case.start.supply
<1>1. PICK s \in 0 .. MaxVolume, v \in 0 .. MaxVolume, p \in V0!TestPrices :
        case = V0!Case("allocated_never_exceeds_supply", V0!WithSupply(s),
                       <<V0!Alone(V0!Buy("u1", v, p))>>)
  BY DEF V0!allocated_never_exceeds_supply
<1>2. s \in Nat /\ v \in Nat  BY TestsAssumption
<1>3. /\ TestBook = V0!Run(V0!Book(0, s, V0!Nobody, {}), V0!Buy("u1", v, p))
      /\ case.start = V0!Book(0, s, V0!Nobody, {})
  BY <1>1, CaseOne, StartBooks
<1>4. case.start.supply = s  BY <1>3 DEF V0!Book
<1>5. \A q, t, O : /\ V0!HeldIn(V0!Book(q, t, V0!Nobody, O), "u1") = 0
                   /\ \A n \in Nat :
                        V0!HeldIn(V0!Book(q, t, Credit(V0!Nobody, "u1", n), O), "u1") = n
  <2> TAKE q, t, O
  <2>1. V0!HeldIn(V0!Book(q, t, V0!Nobody, O), "u1") = 0
    BY DEF V0!HeldIn, V0!Book, V0!Nobody
  <2>2. ASSUME NEW n \in Nat
        PROVE  V0!HeldIn(V0!Book(q, t, Credit(V0!Nobody, "u1", n), O), "u1") = n
    <3> DEFINE g == Credit(V0!Nobody, "u1", n)
    <3>1. DOMAIN g = {"u1"} /\ g["u1"] = n  BY DEF Credit, GivenTo, V0!Nobody
    <3> HIDE DEF g
    <3>2. V0!HeldIn(V0!Book(q, t, g, O), "u1") = n  BY <3>1, HeldOf
    <3> QED  BY <3>2 DEF g
  <2> QED  BY <2>1, <2>2
<1>6. CASE s = 0
  <2>1. PICK none, all : none = {} /\ all = none \cup {V0!Bid("u1", v, p, 0 + 1)}
    OBVIOUS
  <2>2. V0!BuyImpl(V0!Book(0, s, V0!Nobody, none), "u1", v, p)
          = V0!Book(0 + 1, s, V0!Nobody, none \cup {V0!Bid("u1", v, p, 0 + 1)})
    BY <1>2, <1>6, BuyWaits
  <2>3. TestBook = V0!Book(0 + 1, s, V0!Nobody, all)
    BY <1>3, <2>1, <2>2, RunCall
  <2> QED  BY <1>4, <1>5, <1>6, <2>3
<1>7. CASE s > 0 /\ s >= v
  <2>1. PICK none : none = {}  OBVIOUS
  <2>2. TestBook = V0!Book(0 + 1, s - v, Credit(V0!Nobody, "u1", v), none)
    BY <1>2, <1>3, <1>7, <2>1, NoneWaits
  <2>3. PICK l, n : l = s - v /\ n = 0 + 1  OBVIOUS
  <2> QED  BY <1>2, <1>4, <1>5, <1>7, <2>2, <2>3
<1>8. CASE s > 0 /\ s < v
  <2>1. PICK all : all = One(V0!Bid("u1", v - s, p, 0 + 1))  OBVIOUS
  <2>2. TestBook = V0!Book(0 + 1, 0, Credit(V0!Nobody, "u1", s), all)
    BY <1>2, <1>3, <1>8, <2>1, NoneWaits
  <2> QED  BY <1>2, <1>4, <1>5, <1>8, <2>2
<1> QED  BY <1>2, <1>6, <1>7, <1>8

\* What a buy did not get stays in the book.
LEMMA RemainderTest ==
    ASSUME OnTrack, V0!Done, case \in V0!Cases,
           case \in V0!partial_fill_remainder_stays_open
    PROVE  TestBook.supply = 0 /\ TestBook.orders # {}
<1>1. PICK r \in V0!TestVolumes \X V0!TestVolumes, p \in V0!TestPrices :
        /\ r[1] < r[2]
        /\ case = V0!Case("partial_fill_remainder_stays_open", V0!WithSupply(r[1]),
                          <<V0!Alone(V0!Buy("u1", r[2], p))>>)
  BY DEF V0!partial_fill_remainder_stays_open
<1>2. PICK s, v : s = r[1] /\ v = r[2] /\ s \in Nat /\ v \in Nat /\ s > 0 /\ s < v
  BY <1>1, TestsAssumption DEF V0!TestVolumes
<1>3. TestBook = V0!Run(V0!Book(0, s, V0!Nobody, {}), V0!Buy("u1", v, p))
  BY <1>1, <1>2, CaseOne, StartBooks
<1>4. TestBook = V0!Book(0 + 1, 0, Credit(V0!Nobody, "u1", s),
                         One(V0!Bid("u1", v - s, p, 0 + 1)))
  BY <1>2, <1>3, NoneWaits
<1> QED  BY <1>4 DEF V0!Book, One

\* The HTTP test: a user with an allocation, one without, and no user.
LEMMA BasicsTest ==
    ASSUME OnTrack, V0!Done, case \in V0!Cases,
           case \in V0!test_basics_buy_sell_and_allocation
    PROVE  /\ V0!AllocationHandler(TestBook, "u1") = [status |-> 200, body |-> Text(100)]
           /\ V0!AllocationHandler(TestBook, "u8").status = 400
           /\ V0!AllocationHandler(TestBook, "").status = 400
<1> DEFINE c1 == V0!Buy("u1", 100, 2)
           c2 == V0!Sell(100)
           o == V0!Bid("u1", 100, 2, 1)
           g == Credit(V0!Nobody, "u1", 100)
<1>1. TestBook = V0!Run(V0!Run(V0!Empty, c1), c2)
  <2>1. case = V0!Case("test_basics_buy_sell_and_allocation", V0!Empty,
                       <<V0!Alone(c1), V0!Alone(c2)>>)
    BY DEF V0!test_basics_buy_sell_and_allocation
  <2> HIDE DEF c1, c2
  <2> QED  BY <2>1, CaseTwo
<1>2. /\ IsBook(One(o), Names)
      /\ V0!Run(V0!Empty, c1) = V0!Book(1, 0, V0!Nobody, One(o))
  BY OneWaits, AllNames
<1>3. V0!Run(V0!Book(1, 0, V0!Nobody, One(o)), c2) = MatchOf(1, V0!Nobody, One(o), 100)
  <2> HIDE DEF o
  <2> QED  BY <1>2, SellMatches, NobodyIsAccount
<1>4. Enough(100, 100, 0)  BY DEF Enough
<1>5. MatchOf(1, V0!Nobody, One(o), 100) = V0!Book(1, 0, g, {})
  BY <1>2, <1>4, AloneFilled, NobodyIsAccount
<1> HIDE DEF c1, c2, o
<1>6. TestBook = V0!Book(1, 0, g, {})  BY <1>1, <1>2, <1>3, <1>5
<1>7. TestBook.given = [u1 |-> 100]
  <2>1. TestBook.given = g
    <3> HIDE DEF g
    <3> QED  BY <1>6 DEF V0!Book
  <2> QED  BY <2>1, CreditNobody
<1>8. DOMAIN TestBook.given = {"u1"} /\ TestBook.given["u1"] = 100  BY <1>7
<1> HIDE DEF g
<1> QED  BY <1>8 DEF V0!AllocationHandler

-----------------------------------------------------------------------------
(* What a test sells and what its users hold *)

\* A request does to the book what the match of its order or volume makes of it.
LEMMA RunMatches ==
    ASSUME BaseBook, NEW r, r \in BuyRequest \cup SellRequest
    PROVE  \/ /\ r.op = "buy"
              /\ \E O : /\ IsBook(O, Users)
                        /\ V0!Run(TestBook, r)
                             = MatchOf(base.seq + 1, base.allocations, O, base.supply)
           \/ /\ r.op = "sell" /\ r.volume \in Nat
              /\ V0!Run(TestBook, r)
                   = MatchOf(base.seq, base.allocations, base.bids, base.supply + r.volume)
<1>1. Volumes \subseteq Nat /\ Prices \subseteq Int  BY ConstantsAssumption
<1>2. CASE r \in BuyRequest
  <2>1. /\ r.op = "buy" /\ r.user \in Users /\ r.volume \in Nat /\ r.price \in Int
    BY <1>1, <1>2 DEF BuyRequest
  <2> DEFINE O == base.bids \cup {V0!Bid(r.user, r.volume, r.price, base.seq + 1)}
  <2>2. IsBook(O, Users)
    <3>1. \A b \in base.bids : b.seq \in Nat /\ b.seq <= base.seq
      BY DEF BaseBook, IsBook
    <3>2. base.seq + 1 \in Nat /\ \A b \in base.bids : b.seq # base.seq + 1
      BY <3>1 DEF BaseBook
    <3> QED  BY <2>1, <3>2, BookGrows DEF BaseBook
  <2>3. V0!BuyImpl(TestBook, r.user, r.volume, r.price)
          = MatchOf(base.seq + 1, base.allocations, O, base.supply)
    BY <2>1, <2>2, BuyImplMatches DEF BaseBook, TestBook
  <2>4. V0!Run(TestBook, r) = V0!BuyImpl(TestBook, r.user, r.volume, r.price)
    BY <2>1 DEF V0!Run
  <2> HIDE DEF O
  <2> QED  BY <2>1, <2>2, <2>3, <2>4
<1>3. CASE r \in SellRequest
  <2>1. r.op = "sell" /\ r.volume \in Nat  BY <1>1, <1>3 DEF SellRequest
  <2>2. V0!SellImpl(TestBook, r.volume)
          = MatchOf(base.seq, base.allocations, base.bids, base.supply + r.volume)
    BY <2>1, SellImplMatches DEF BaseBook, TestBook
  <2>3. V0!Run(TestBook, r) = V0!SellImpl(TestBook, r.volume)
    BY <2>1 DEF V0!Run
  <2> QED  BY <2>1, <2>2, <2>3
<1> QED  BY <1>2, <1>3

\* The volume that a task sells, and that tasks sell together.
SoldBy(t) == IF t[2].op = "sell" THEN t[2].volume ELSE 0
Worth(T) == SumFunctionOnSet([t \in T |-> SoldBy(t)], T)

\* All the volume in a book.
Total(b) == SumFunction(b.given) + b.supply

\* A task takes nothing from any user.
LEMMA RunGives ==
    ASSUME BaseBook, NEW r, r \in BuyRequest \cup SellRequest, NEW u
    PROVE  /\ V0!HeldIn(TestBook, u) \in Nat
           /\ V0!HeldIn(V0!Run(TestBook, r), u) >= V0!HeldIn(TestBook, u)
<1> DEFINE b == V0!Run(TestBook, r)
           g == base.allocations
<1>1. /\ TestBook.given = g /\ IsAccount(g)
      /\ base.supply \in Nat /\ IsBook(base.bids, Users)
  BY DEF TestBook, V0!Book, BaseBook
<1>2. ASSUME NEW q, NEW O, IsBook(O, Users), NEW x \in Nat,
             b = MatchOf(q, g, O, x)
      PROVE  V0!HeldIn(b, u) \in Nat /\ GivenTo(g, u) <= V0!HeldIn(b, u)
  <2> DEFINE after == GivenAfter(g, O, x)
  <2>1. /\ \A a \in DOMAIN after : after[a] \in Nat
        /\ GivenTo(g, u) <= GivenTo(after, u)
    BY <1>1, <1>2, MatchGives DEF IsAccount
  <2>2. b.given = after  BY <1>2 DEF MatchOf, V0!Book
  <2> HIDE DEF b, after
  <2> QED  BY <2>1, <2>2 DEF V0!HeldIn, GivenTo
<1>3. V0!HeldIn(TestBook, u) = GivenTo(g, u) /\ GivenTo(g, u) \in Nat
  BY <1>1 DEF V0!HeldIn, GivenTo, IsAccount
<1>4. V0!HeldIn(b, u) \in Nat /\ GivenTo(g, u) <= V0!HeldIn(b, u)
  <2>1. \/ \E O : IsBook(O, Users) /\ b = MatchOf(base.seq + 1, g, O, base.supply)
        \/ r.volume \in Nat /\ b = MatchOf(base.seq, g, base.bids, base.supply + r.volume)
    BY RunMatches
  <2> HIDE DEF b, g
  <2>2. CASE \E O : IsBook(O, Users) /\ b = MatchOf(base.seq + 1, g, O, base.supply)
    <3>1. PICK O : IsBook(O, Users) /\ b = MatchOf(base.seq + 1, g, O, base.supply)
      BY <2>2
    <3>2. PICK q : q = base.seq + 1  OBVIOUS
    <3> QED  BY <1>1, <1>2, <3>1, <3>2
  <2>3. CASE r.volume \in Nat /\ b = MatchOf(base.seq, g, base.bids, base.supply + r.volume)
    <3>1. PICK x : x = base.supply + r.volume /\ x \in Nat  BY <1>1, <2>3
    <3> QED  BY <1>1, <1>2, <2>3, <3>1
  <2> QED  BY <2>1, <2>2, <2>3
<1> HIDE DEF b, g
<1> QED  BY <1>3, <1>4 DEF b

\* A task adds to the book what it sells.
LEMMA RunConserves ==
    ASSUME BaseBook, IsFiniteSet(DOMAIN base.allocations), NEW t, t \in Task
    PROVE  LET b == V0!Run(TestBook, t[2])
           IN  /\ IsFiniteSet(DOMAIN b.given) /\ SoldBy(t) \in Nat
               /\ Total(TestBook) \in Nat /\ Total(b) = Total(TestBook) + SoldBy(t)
<1> DEFINE b == V0!Run(TestBook, t[2])
<1>1. ASSUME NEW q, NEW O, IsBook(O, Users), NEW x \in Nat,
             b = MatchOf(q, base.allocations, O, x)
      PROVE  /\ IsFiniteSet(DOMAIN b.given) /\ SumFunction(base.allocations) \in Nat
             /\ Total(b) = x + SumFunction(base.allocations)
  <2> DEFINE g == base.allocations
             after == GivenAfter(g, O, x)
             left == OfferAfter(O, x)
  <2>1. /\ IsFiniteSet(DOMAIN after)
        /\ SumFunction(g) \in Nat /\ SumFunction(after) \in Nat
        /\ SumFunction(after) + left = SumFunction(g) + x
    BY <1>1, MatchConserves DEF BaseBook
  <2>2. b.given = after /\ b.supply = left  BY <1>1 DEF MatchOf, V0!Book
  <2>3. left \in Int
    BY <1>1, PortionsFit DEF OfferAfter
  <2> HIDE DEF b, after, left, g
  <2>4. Total(b) = SumFunction(after) + left  BY <2>2 DEF Total
  <2>5. Total(b) = x + SumFunction(g)  BY <2>1, <2>3, <2>4
  <2> QED  BY <2>1, <2>2, <2>5 DEF g
<1>2. t[2] \in BuyRequest \cup SellRequest  BY DEF Task
<1>3. /\ TestBook.supply = base.supply /\ TestBook.given = base.allocations
      /\ base.supply \in Nat /\ IsBook(base.bids, Users)
  BY DEF TestBook, V0!Book, BaseBook
<1>4. Total(TestBook) = SumFunction(base.allocations) + base.supply
  BY <1>3 DEF Total
<1>5. CASE t[2].op = "buy"
  <2>1. PICK O : /\ IsBook(O, Users)
                 /\ b = MatchOf(base.seq + 1, base.allocations, O, base.supply)
    BY <1>2, <1>5, RunMatches
  <2>2. SoldBy(t) = 0  BY <1>5 DEF SoldBy
  <2> HIDE DEF b
  <2>3. PICK q : q = base.seq + 1  OBVIOUS
  <2>4. /\ IsFiniteSet(DOMAIN b.given) /\ SumFunction(base.allocations) \in Nat
        /\ Total(b) = base.supply + SumFunction(base.allocations)
    BY <1>1, <1>3, <2>1, <2>3
  <2> QED  BY <1>3, <1>4, <2>2, <2>4 DEF b
<1>6. CASE t[2].op = "sell"
  <2>1. /\ t[2].volume \in Nat
        /\ b = MatchOf(base.seq, base.allocations, base.bids, base.supply + t[2].volume)
    BY <1>2, <1>6, RunMatches
  <2>2. SoldBy(t) = t[2].volume  BY <1>6 DEF SoldBy
  <2> HIDE DEF b
  <2>3. PICK x : x = base.supply + t[2].volume /\ x \in Nat  BY <1>3, <2>1
  <2>4. /\ IsFiniteSet(DOMAIN b.given) /\ SumFunction(base.allocations) \in Nat
        /\ Total(b) = x + SumFunction(base.allocations)
    BY <1>1, <1>3, <2>1, <2>3
  <2> QED  BY <1>3, <1>4, <2>1, <2>2, <2>3, <2>4 DEF b
<1> QED  BY <1>2, <1>5, <1>6, RunMatches

\* A sale has a volume.
LEMMA SoldByNat == \A t \in Task : SoldBy(t) \in Nat
<1>1. Volumes \subseteq Nat  BY ConstantsAssumption
<1> QED  BY <1>1 DEF Task, SoldBy, BuyRequest, SellRequest

\* The worth of tasks is that of one of them and of the others.
LEMMA WorthSteps ==
    ASSUME NEW T, IsFiniteSet(T), T \subseteq Task
    PROVE  /\ Worth(T) \in Nat
           /\ \A t \in T : Worth(T) = SoldBy(t) + Worth(T \ {t})
<1>1. \A t \in Task : SoldBy(t) \in Nat  BY SoldByNat
<1> DEFINE f == [t \in T |-> SoldBy(t)]
<1>2. \A t \in T : f[t] \in Nat /\ f[t] = SoldBy(t)  BY <1>1
<1>3. Worth(T) = SumFunctionOnSet(f, T)  BY DEF Worth
<1>4. ASSUME NEW t \in T
      PROVE  Worth(T) = SoldBy(t) + Worth(T \ {t})
  <2> DEFINE R == T \ {t}
             g == [s \in R |-> SoldBy(s)]
  <2>1. R \subseteq T /\ IsFiniteSet(R) /\ Worth(R) = SumFunctionOnSet(g, R)
    BY FS_Subset DEF Worth
  <2>2. \A s \in R : f[s] = g[s]  OBVIOUS
  <2> HIDE DEF f, g
  <2>3. SumFunctionOnSet(f, R) = SumFunctionOnSet(g, R)
    <3> HIDE DEF R
    <3> QED  BY <2>1, <2>2, SumSame
  <2>4. SumFunctionOnSet(f, T) = f[t] + SumFunctionOnSet(f, R)
    BY <1>2, SumRemove
  <2> QED  BY <1>2, <1>3, <2>1, <2>3, <2>4
<1> HIDE DEF f
<1>5. Worth(T) \in Nat  BY <1>2, <1>3, SumNat
<1> QED  BY <1>4, <1>5

\* No tasks sell nothing.
LEMMA WorthNothing == Worth({}) = 0
BY SumEmpty DEF Worth

\* A test of finitely many tasks, and what its first k phases sell.
IsCounted(c) ==
    /\ c.phases \in Seq(SUBSET Task)
    /\ \A i \in 1 .. Len(c.phases) : IsFiniteSet(c.phases[i])
SoldUpTo(c, k) == SumFunctionOnSet([i \in DOMAIN c.phases |-> Worth(c.phases[i])], 1 .. k)

\* After k phases, all that was sold is in the book or comes with a task that is
\* out.
BalanceAt(k) ==
    LET n == Len(case.phases)
    IN  /\ k \in 0 .. n
        /\ pending \in Seq(SUBSET Task) /\ Len(pending) = n - k
        /\ \A i \in 1 .. n - k : pending[i] = case.phases[k + i]
        /\ IsFiniteSet(Outstanding) /\ Outstanding \subseteq Task
        /\ IsFiniteSet(DOMAIN TestBook.given) /\ Total(TestBook) \in Nat
        /\ Total(TestBook) + Worth(Outstanding) = case.start.supply + SoldUpTo(case, k)

Balance == IsCounted(case) => \E k \in Nat : BalanceAt(k)

\* What k phases sell is what the first k - 1 and the last of them sell.
LEMMA SoldStep ==
    ASSUME NEW c, IsCounted(c), NEW k \in 1 .. Len(c.phases)
    PROVE  /\ SoldUpTo(c, k) = SoldUpTo(c, k - 1) + Worth(c.phases[k])
           /\ SoldUpTo(c, k) \in Nat /\ SoldUpTo(c, k - 1) \in Nat
<1> DEFINE n == Len(c.phases)
           f == [i \in 1 .. n |-> Worth(c.phases[i])]
           S == 1 .. k - 1
<1>1. n \in Nat /\ DOMAIN c.phases = 1 .. n  BY DEF IsCounted
<1>2. \A i \in 1 .. n : f[i] \in Nat
  <2> TAKE i \in 1 .. n
  <2>1. c.phases[i] \in SUBSET Task /\ IsFiniteSet(c.phases[i])
    BY <1>1 DEF IsCounted
  <2> QED  BY <2>1, WorthSteps
<1>3. /\ SoldUpTo(c, k) = SumFunctionOnSet(f, 1 .. k)
      /\ SoldUpTo(c, k - 1) = SumFunctionOnSet(f, S)
  BY <1>1 DEF SoldUpTo
<1>4. f[k] = Worth(c.phases[k])  BY <1>1
<1>5. /\ 1 .. k = S \cup {k} /\ k \notin S /\ IsFiniteSet(S)
      /\ \A i \in S \cup {k} : i \in 1 .. n
  <2>1. IsFiniteSet(S)  BY <1>1, FS_Interval
  <2> QED  BY <1>1, <2>1
<1>a. PICK all : all = 1 .. k  OBVIOUS
<1> HIDE DEF f, S
<1>b. \A i \in S \cup {k} : f[i] \in Int  BY <1>2, <1>5
<1>6. SumFunctionOnSet(f, all) = f[k] + SumFunctionOnSet(f, S)
  <2>1. SumFunctionOnSet(f, S \cup {k}) = f[k] + SumFunctionOnSet(f, S)
    <3>1. k \notin S /\ IsFiniteSet(S)  BY <1>5
    <3> HIDE DEF n
    <3> QED  BY <1>b, <3>1, SumAdd
  <2> QED  BY <1>5, <1>a, <2>1
<1>7. SumFunctionOnSet(f, S) \in Nat /\ f[k] \in Nat
  BY <1>2, <1>5, SumNat
<1>8. SoldUpTo(c, k) = SumFunctionOnSet(f, all)  BY <1>3, <1>a
<1> QED  BY <1>3, <1>4, <1>6, <1>7, <1>8

\* No step of a test changes the balance: a spawn puts out what a phase sells, a
\* task that runs moves what it sells into the book.
LEMMA BalanceStep ==
    ASSUME Balance, BaseBook, TestMoves,
           case.start.supply \in Nat
    PROVE  Balance'
<1> SUFFICES ASSUME IsCounted(case)
             PROVE  \E k \in Nat : BalanceAt(k)'
  BY DEF Balance, TestMoves, IsCounted
<1>1. PICK k \in Nat : BalanceAt(k)  BY DEF Balance
<1> DEFINE p == case.phases
           n == Len(p)
           x == case.start.supply
<1>2. n \in Nat /\ case' = case /\ \A i \in 1 .. n : p[i] \in SUBSET Task /\ IsFiniteSet(p[i])
  BY DEF IsCounted, TestMoves
<1>3. /\ k \in 0 .. n /\ pending \in Seq(SUBSET Task) /\ Len(pending) = n - k
      /\ \A i \in 1 .. n - k : pending[i] = p[k + i]
      /\ IsFiniteSet(Outstanding) /\ Outstanding \subseteq Task
      /\ IsFiniteSet(DOMAIN TestBook.given) /\ Total(TestBook) \in Nat
      /\ Total(TestBook) + Worth(Outstanding) = x + SoldUpTo(case, k)
  BY <1>1 DEF BalanceAt
<1>4. \A m \in Nat :
        /\ m \in 0 .. n
        /\ pending' \in Seq(SUBSET Task) /\ Len(pending') = n - m
        /\ \A i \in 1 .. n - m : pending'[i] = p[m + i]
        /\ IsFiniteSet(Outstanding') /\ Outstanding' \subseteq Task
        /\ IsFiniteSet(DOMAIN TestBook'.given) /\ Total(TestBook') \in Nat
        /\ Total(TestBook') + Worth(Outstanding') = x + SoldUpTo(case, m)
        => BalanceAt(m)'
  BY <1>2 DEF BalanceAt
<1>5. CASE /\ Outstanding = {} /\ pending # <<>>
           /\ Outstanding' = Head(pending) /\ pending' = Tail(pending)
           /\ TestBook' = TestBook
  <2>1. /\ Len(pending) # 0 /\ Head(pending) = pending[1]
        /\ Tail(pending) \in Seq(SUBSET Task)
        /\ Len(Tail(pending)) = Len(pending) - 1
        /\ \A i \in 1 .. Len(pending) - 1 : Tail(pending)[i] = pending[i + 1]
    BY <1>3, <1>5
  <2>2. PICK m \in Nat : m = k + 1  BY <1>3
  <2>3. m \in 1 .. n /\ m - 1 = k /\ p[m] = pending[1]
    <3>1. 1 \in 1 .. n - k  BY <1>2, <1>3, <2>1
    <3>2. pending[1] = p[k + 1]  BY <1>3, <3>1
    <3> QED  BY <1>2, <1>3, <2>2, <3>1, <3>2
  <2>4. /\ m \in 0 .. n
        /\ pending' \in Seq(SUBSET Task) /\ Len(pending') = n - m
    BY <1>2, <1>3, <1>5, <2>1, <2>2, <2>3
  <2>5. \A i \in 1 .. n - m : pending'[i] = p[m + i]
    <3> TAKE i \in 1 .. n - m
    <3>1. i \in 1 .. Len(pending) - 1 /\ i + 1 \in 1 .. n - k
          /\ k + (i + 1) = m + i
      BY <1>2, <1>3, <2>2
    <3> QED  BY <1>3, <1>5, <2>1, <3>1
  <2>6. Outstanding' = p[m] /\ IsFiniteSet(p[m]) /\ p[m] \subseteq Task
    BY <1>2, <1>5, <2>1, <2>3
  <2>7. Total(TestBook') + Worth(Outstanding') = x + SoldUpTo(case, m)
    <3>1. Total(TestBook) = x + SoldUpTo(case, k)
      BY <1>3, <1>5, WorthNothing
    <3>2. /\ SoldUpTo(case, m) = SoldUpTo(case, k) + Worth(p[m])
          /\ SoldUpTo(case, m) \in Nat /\ SoldUpTo(case, k) \in Nat
      BY <2>3, SoldStep
    <3>3. Worth(p[m]) \in Nat  BY <2>6, WorthSteps
    <3> HIDE DEF x, p
    <3> QED  BY <1>5, <2>6, <3>1, <3>2, <3>3 DEF x
  <2> HIDE DEF p, n, x
  <2>8. BalanceAt(m)'  BY <1>3, <1>4, <1>5, <2>4, <2>5, <2>6, <2>7
  <2> QED  BY <2>8
<1>6. CASE /\ \E task \in Outstanding :
                /\ Outstanding' = Outstanding \ {task}
                /\ TestBook' = V0!Run(TestBook, task[2])
           /\ pending' = pending
  <2>1. PICK t \in Outstanding : /\ Outstanding' = Outstanding \ {t}
                                 /\ TestBook' = V0!Run(TestBook, t[2])
    BY <1>6
  <2>2. t \in Task  BY <1>3
  <2>3. /\ IsFiniteSet(DOMAIN TestBook'.given) /\ SoldBy(t) \in Nat
        /\ Total(TestBook') = Total(TestBook) + SoldBy(t)
    <3>1. IsFiniteSet(DOMAIN base.allocations)  BY <1>3 DEF TestBook, V0!Book
    <3> QED  BY <2>1, <2>2, <3>1, RunConserves
  <2>4. /\ Worth(Outstanding) = SoldBy(t) + Worth(Outstanding')
        /\ IsFiniteSet(Outstanding') /\ Outstanding' \subseteq Task
        /\ Worth(Outstanding') \in Nat
    <3>1. IsFiniteSet(Outstanding') /\ Outstanding' \subseteq Task
      BY <1>3, <2>1, FS_Subset
    <3>2. Worth(Outstanding) = SoldBy(t) + Worth(Outstanding')
      BY <1>3, <2>1, WorthSteps
    <3>3. PICK R : R = Outstanding'  OBVIOUS
    <3>4. Worth(R) \in Nat  BY <3>1, <3>3, WorthSteps
    <3> QED  BY <3>1, <3>2, <3>3, <3>4
  <2>5. /\ Total(TestBook') + Worth(Outstanding') = x + SoldUpTo(case, k)
        /\ Total(TestBook') \in Nat
    <3> HIDE DEF x
    <3> QED  BY <1>3, <2>3, <2>4
  <2> HIDE DEF p, n, x
  <2>6. BalanceAt(k)'  BY <1>3, <1>4, <1>6, <2>3, <2>4, <2>5
  <2> QED  BY <2>6
<1>7. CASE /\ Outstanding' = Outstanding /\ pending' = pending
           /\ TestBook' = TestBook
  <2> HIDE DEF p, n, x
  <2>1. BalanceAt(k)'  BY <1>3, <1>4, <1>7
  <2> QED  BY <2>1
<1> QED  BY <1>5, <1>6, <1>7 DEF TestMoves

\* At the start the book holds the supply of the case and nobody has anything.
LEMMA BalanceInit ==
    ASSUME InitTest, StartsWithout(case)
    PROVE  Balance /\ case.start.supply \in Nat
<1>1. PICK n \in Nat : case.start = V0!Book(0, n, V0!Nobody, {})
  BY DEF StartsWithout
<1>2. /\ Outstanding = {} /\ pending = case.phases  BY InitTasks DEF InitTest
<1>3. TestBook = case.start  BY InitIsV0 DEF V0!Init, TestBook, V0!Book
<1>4. /\ TestBook.supply = n /\ TestBook.given = V0!Nobody /\ case.start.supply = n
  BY <1>1, <1>3 DEF V0!Book
<1>5. /\ DOMAIN V0!Nobody = {} /\ SumFunction(V0!Nobody) = 0
  BY SumEmpty DEF V0!Nobody, SumFunction
<1>6. Total(TestBook) = n /\ IsFiniteSet(DOMAIN TestBook.given)
  BY <1>4, <1>5, FS_EmptySet DEF Total
<1>7. SoldUpTo(case, 0) = 0
  <2>1. 1 .. 0 = {}  OBVIOUS
  <2> QED  BY <2>1, SumEmpty DEF SoldUpTo
<1>8. IsCounted(case) => BalanceAt(0)
  <2> SUFFICES ASSUME IsCounted(case)  PROVE BalanceAt(0)
    OBVIOUS
  <2>1. Len(case.phases) \in Nat /\ case.phases \in Seq(SUBSET Task)  BY DEF IsCounted
  <2>2. \A i \in 1 .. Len(case.phases) : pending[i] = case.phases[0 + i]  BY <1>2
  <2>3. IsFiniteSet(Outstanding)  BY <1>2, FS_EmptySet
  <2>4. Worth(Outstanding) = 0  BY <1>2, WorthNothing
  <2> QED  BY <1>2, <1>4, <1>6, <1>7, <2>1, <2>2, <2>3, <2>4 DEF BalanceAt
<1> QED  BY <1>4, <1>8 DEF Balance

\* When all tasks are joined, the book holds what it started with and all that
\* was sold.
LEMMA BalanceEnd ==
    ASSUME Balance, V0!Done, IsCounted(case)
    PROVE  Total(TestBook) = case.start.supply + SoldUpTo(case, Len(case.phases))
           /\ Total(TestBook) \in Nat
<1>1. PICK k \in Nat : BalanceAt(k)  BY DEF Balance
<1>2. Len(case.phases) \in Nat /\ Len(pending) = 0 /\ Outstanding = {}
  BY DEF IsCounted, V0!Done
<1>3. k = Len(case.phases)  BY <1>1, <1>2 DEF BalanceAt
<1> QED  BY <1>1, <1>2, <1>3, WorthNothing DEF BalanceAt

\* The asserts of the tests add up the same volumes.
LEMMA HeldInAll == \A b : V0!TotalHeld(b) = SumFunction(b.given)
<1> TAKE b
<1> QED  BY Zenon DEF V0!TotalHeld, V0!MapThenSumSet, V0!MapThenFoldSet, SumFunction,
            SumFunctionOnSet, FoldFunctionOnSet, MapThenFoldSet

\* What a fold of + computes from a list.
LEMMA SumOfList ==
    ASSUME NEW s, NEW n \in Nat, DOMAIN s = 1 .. n, \A i \in 1 .. n : s[i] \in Int
    PROVE  V0!Sum(s) = SumFunctionOnSet(s, 1 .. n)
<1> DEFINE Adds(it) == it = [d \in SUBSET (1 .. n) |->
                                IF d = {} THEN 0
                                ELSE it[d \ {V0!Max(d)}] + s[V0!Max(d)]]
           sum == [d \in SUBSET (1 .. n) |-> SumFunctionOnSet(s, d)]
           it == CHOOSE f : Adds(f)
<1>1. Adds(sum)
  <2>1. ASSUME NEW d \in SUBSET (1 .. n)
        PROVE  sum[d] = IF d = {} THEN 0 ELSE sum[d \ {V0!Max(d)}] + s[V0!Max(d)]
    <3>1. CASE d = {}  BY <3>1, SumEmpty
    <3>2. CASE d # {}
      <4>1. IsFiniteSet(d)
        <5>1. IsFiniteSet(1 .. n)  BY FS_Interval
        <5> QED  BY <5>1, FS_Subset
      <4>2. PICK m : m = V0!Max(d) /\ m \in d  BY <3>2, MaxIs
      <4>3. d \ {m} \in SUBSET (1 .. n) /\ IsFiniteSet(d \ {m}) /\ \A i \in d : s[i] \in Int
        BY <4>1, FS_Subset
      <4>4. SumFunctionOnSet(s, d) = s[m] + SumFunctionOnSet(s, d \ {m})
        BY <4>1, <4>2, <4>3, SumRemove
      <4>5. SumFunctionOnSet(s, d \ {m}) \in Int /\ s[m] \in Int
        BY <4>2, <4>3, SumInt
      <4>6. sum[d] = SumFunctionOnSet(s, d) /\ sum[d \ {m}] = SumFunctionOnSet(s, d \ {m})
        BY <4>3
      <4> HIDE DEF sum
      <4> QED  BY <3>2, <4>2, <4>4, <4>5, <4>6
    <3> QED  BY <3>1, <3>2
  <2> DEFINE all == SUBSET (1 .. n)
             step == [d \in all |-> IF d = {} THEN 0
                                    ELSE sum[d \ {V0!Max(d)}] + s[V0!Max(d)]]
  <2>2. \A d \in all : sum[d] = step[d]  BY <2>1
  <2>3. DOMAIN sum = all /\ sum = [d \in all |-> sum[d]]
        /\ step = [d \in all |-> step[d]]
    OBVIOUS
  <2>4. sum = step
    <3> HIDE DEF sum, step, all
    <3> QED  BY <2>2, <2>3
  <2> QED  BY <2>4
<1>2. Adds(it)
  <2> HIDE DEF Adds, sum
  <2> QED  BY <1>1
<1>3. V0!Sum(s) = it[1 .. n]
  BY DEF V0!Sum, V0!FoldLeft, V0!MapThenFoldSet
<1> HIDE DEF it, sum
<1>4. \A d \in SUBSET (1 .. n) :
        it[d] = IF d = {} THEN 0 ELSE it[d \ {V0!Max(d)}] + s[V0!Max(d)]
  BY <1>2
<1> HIDE DEF Adds
<1>5. \A k \in Nat : k <= n => it[1 .. k] = SumFunctionOnSet(s, 1 .. k)
  <2> DEFINE Bad == {k \in Nat : k <= n /\ it[1 .. k] # SumFunctionOnSet(s, 1 .. k)}
  <2> SUFFICES ASSUME Bad # {}  PROVE FALSE
    OBVIOUS
  <2>1. PICK k \in Bad : \A j \in Bad : k <= j
    <3>1. Bad \subseteq Nat  OBVIOUS
    <3> HIDE DEF Bad
    <3> QED  BY <3>1, LeastNat
  <2>2. k \in Nat /\ k <= n /\ it[1 .. k] # SumFunctionOnSet(s, 1 .. k)
    OBVIOUS
  <2>3. \A j \in Nat : j < k => it[1 .. j] = SumFunctionOnSet(s, 1 .. j)
    <3>1. \A j \in Nat : j < k => j \notin Bad  BY <2>1, <2>2
    <3>2. \A j \in Nat : j < k => j <= n  BY <2>2
    <3> QED  BY <3>1, <3>2
  <2> HIDE DEF Bad
  <2>4. k # 0
    <3>1. 1 .. 0 = {} /\ {} \in SUBSET (1 .. n)  OBVIOUS
    <3>2. it[1 .. 0] = SumFunctionOnSet(s, 1 .. 0)  BY <1>4, <3>1, SumEmpty
    <3> QED  BY <2>2, <3>2
  <2> DEFINE d == 1 .. k
             e == 1 .. (k - 1)
  <2>5. /\ d \in SUBSET (1 .. n) /\ d # {} /\ k \in d
        /\ IsFiniteSet(d) /\ e = d \ {k}
    <3>1. IsFiniteSet(1 .. k)  BY <2>2, FS_Interval
    <3> QED  BY <2>2, <2>4, <3>1
  <2>6. V0!Max(d) = k
    <3>1. V0!Max(d) \in d /\ \A i \in d : i <= V0!Max(d)
      <4> HIDE DEF d
      <4> QED  BY <2>5, MaxIs
    <3> QED  BY <2>2, <2>5, <3>1
  <2>7. it[e] = SumFunctionOnSet(s, e)  BY <2>2, <2>3, <2>4
  <2>8. it[d] # SumFunctionOnSet(s, d)  BY <2>2
  <2> HIDE DEF d, e
  <2>9. SumFunctionOnSet(s, d) = s[k] + SumFunctionOnSet(s, e)
    BY <2>5, SumRemove
  <2>10. it[d] = it[e] + s[k]  BY <1>4, <2>5, <2>6
  <2>11. s[k] \in Int /\ SumFunctionOnSet(s, e) \in Int
    <3>1. IsFiniteSet(e) /\ \A i \in e : s[i] \in Int
      BY <2>5, FS_Subset
    <3> QED  BY <2>5, <3>1, SumInt
  <2> QED  BY <2>7, <2>8, <2>9, <2>10, <2>11
<1> QED  BY <1>3, <1>5

-----------------------------------------------------------------------------
(* What the tests that count sell *)

\* The volume of tasks that is sold, as V0!Sold adds it up.
LEMMA SoldIsWorth ==
    ASSUME NEW T, IsFiniteSet(T)
    PROVE  V0!MapThenSumSet(LAMBDA t : IF t[2].op = "sell" THEN t[2].volume ELSE 0, T)
             = Worth(T)
<1> DEFINE f == [t \in T |-> SoldBy(t)]
           Adds(it) == it = [s \in SUBSET T |->
                IF s = {} THEN 0 ELSE SoldBy(Pick(s)) + it[s \ {Pick(s)}]]
           ju == CHOOSE it : Adds(it)
<1>1. V0!MapThenSumSet(LAMBDA t : IF t[2].op = "sell" THEN t[2].volume ELSE 0, T)
        = ju[T]
  BY Zenon DEF V0!MapThenSumSet, V0!MapThenFoldSet, SoldBy, Pick
<1>2. PICK sum : IsSum(sum, f, SUBSET T) /\ SumFunctionOnSet(f, T) = sum[T]
  <2> HIDE DEF f
  <2> QED  BY SumDef
<1>3. \A it : Adds(it) <=> IsSum(it, f, SUBSET T)
  <2> TAKE it
  <2>1. ASSUME NEW s \in SUBSET T, s # {}
        PROVE  f[Pick(s)] = SoldBy(Pick(s))
    BY <2>1 DEF Pick
  <2> DEFINE a(s) == IF s = {} THEN 0 ELSE SoldBy(Pick(s)) + it[s \ {Pick(s)}]
             b(s) == IF s = {} THEN 0 ELSE f[Pick(s)] + it[s \ {Pick(s)}]
  <2>2. \A s \in SUBSET T : a(s) = b(s)
    <3> TAKE s \in SUBSET T
    <3>1. CASE s = {}  BY <3>1
    <3>2. CASE s # {}
      <4> HIDE DEF f
      <4> QED  BY <2>1, <3>2
    <3> QED  BY <3>1, <3>2
  <2>3. Adds(it) <=> it = [s \in SUBSET T |-> a(s)]  OBVIOUS
  <2>4. IsSum(it, f, SUBSET T) <=> it = [s \in SUBSET T |-> b(s)]  BY DEF IsSum
  <2> HIDE DEF a, b, Adds, f
  <2>5. [s \in SUBSET T |-> a(s)] = [s \in SUBSET T |-> b(s)]  BY <2>2
  <2> QED  BY <2>3, <2>4, <2>5
<1> HIDE DEF Adds
<1>4. IsSum(ju, f, SUBSET T)
  <2>1. Adds(ju)  BY <1>2, <1>3
  <2> QED  BY <1>3, <2>1
<1>5. Worth(T) = SumFunctionOnSet(f, T)  BY DEF Worth
<1> HIDE DEF ju, f
<1>6. ju[T] = sum[T]  BY <1>2, <1>4, SumUnique
<1> QED  BY <1>1, <1>2, <1>5, <1>6

\* V0!Sold is what all phases sell.
LEMMA SoldInAll ==
    ASSUME IsCounted(case)
    PROVE  V0!Sold = SoldUpTo(case, Len(case.phases))
<1> DEFINE p == case.phases
           n == Len(p)
           s == [i \in DOMAIN p |-> V0!MapThenSumSet(
                    LAMBDA t : IF t[2].op = "sell" THEN t[2].volume ELSE 0, p[i])]
           f == [i \in DOMAIN p |-> Worth(p[i])]
<1>1. n \in Nat /\ DOMAIN p = 1 .. n
      /\ \A i \in 1 .. n : IsFiniteSet(p[i]) /\ p[i] \in SUBSET Task
  BY DEF IsCounted
<1>2. V0!Sold = V0!Sum(s)  BY DEF V0!Sold
<1>3. SoldUpTo(case, n) = SumFunctionOnSet(f, 1 .. n)  BY DEF SoldUpTo
<1>4. DOMAIN s = 1 .. n /\ \A i \in 1 .. n : s[i] = f[i] /\ f[i] \in Int
  <2>1. DOMAIN s = 1 .. n  BY <1>1
  <2>2. ASSUME NEW i \in 1 .. n  PROVE s[i] = f[i] /\ f[i] \in Int
    <3>1. s[i] = Worth(p[i])
      <4>1. s[i] = V0!MapThenSumSet(
                    LAMBDA t : IF t[2].op = "sell" THEN t[2].volume ELSE 0, p[i])
        BY <1>1
      <4> QED  BY <1>1, <4>1, SoldIsWorth
    <3>2. f[i] = Worth(p[i])  BY <1>1
    <3>3. Worth(p[i]) \in Nat  BY <1>1, WorthSteps
    <3> HIDE DEF s, f, p, n
    <3> QED  BY <3>1, <3>2, <3>3
  <2> QED  BY <2>1, <2>2
<1> HIDE DEF s, f, p
<1>5. V0!Sum(s) = SumFunctionOnSet(s, 1 .. n)
  <2> HIDE DEF n
  <2> QED  BY <1>1, <1>4, SumOfList
<1>6. SumFunctionOnSet(s, 1 .. n) = SumFunctionOnSet(f, 1 .. n)
  <2>1. IsFiniteSet(1 .. n)  BY <1>1, FS_Interval
  <2> QED  BY <1>4, <2>1, SumSame
<1> QED  BY <1>2, <1>3, <1>5, <1>6 DEF p

\* The users hold, and the book has left, what it started with and all that was
\* sold.
LEMMA CountedEnd ==
    ASSUME Balance, V0!Done, IsCounted(case)
    PROVE  V0!TotalHeld(TestBook) + TestBook.supply
             = case.start.supply + SoldUpTo(case, Len(case.phases))
<1> DEFINE end == case.start.supply + SoldUpTo(case, Len(case.phases))
<1>1. Total(TestBook) = end  BY BalanceEnd
<1>2. V0!TotalHeld(TestBook) = SumFunction(TestBook.given)  BY HeldInAll
<1>3. Total(TestBook) = SumFunction(TestBook.given) + TestBook.supply  BY DEF Total
<1> QED  BY <1>1, <1>2, <1>3

\* A task that is alone sells its volume.
LEMMA WorthAlone ==
    ASSUME NEW c, V0!Alone(c) \subseteq Task
    PROVE  /\ IsFiniteSet(V0!Alone(c))
           /\ Worth(V0!Alone(c)) = SoldBy(<<1, c>>)
<1> DEFINE t == <<1, c>>
<1>1. V0!Alone(c) = {t}  BY DEF V0!Alone
<1> HIDE DEF t
<1>2. IsFiniteSet({t}) /\ {t} \ {t} = {}  BY FS_Singleton
<1>3. /\ Worth({t}) = SoldBy(t) + Worth({t} \ {t}) /\ Worth({t}) \in Nat
  BY <1>1, <1>2, WorthSteps
<1>4. SoldBy(t) \in Int
  <2>1. t \in Task  BY <1>1
  <2> QED  BY <2>1, SoldByNat
<1>5. Worth({t}) = SoldBy(t)  BY <1>2, <1>3, <1>4, WorthNothing
<1> QED  BY <1>1, <1>2, <1>5 DEF t

\* Tasks that are spawned together, with the numbers 1 to n.
AreSpawned(T, n, asked) == T = {<<i, asked[i]>> : i \in 1 .. n}

\* They sell what they sell one by one.
LEMMA WorthSpawned ==
    ASSUME NEW n \in Nat, NEW asked, NEW T, AreSpawned(T, n, asked),
           NEW f, \A i \in 1 .. n : f[i] \in Int /\ SoldBy(<<i, asked[i]>>) = f[i]
    PROVE  IsFiniteSet(T) /\ Worth(T) = SumFunctionOnSet(f, 1 .. n)
<1> DEFINE move == [i \in 1 .. n |-> <<i, asked[i]>>]
           g == [t \in T |-> SoldBy(t)]
           S == 1 .. n
<1>1. IsFiniteSet(S)  BY FS_Interval
<1>2. \A i \in S : move[i] = <<i, asked[i]>>  OBVIOUS
<1>a. move \in [S -> T]  BY DEF AreSpawned
<1>3. \A i, j \in S : move[i] = move[j] => i = j  BY <1>2
<1>4. T = {move[i] : i \in S}  BY <1>2 DEF AreSpawned
<1>5. \A t \in T : g[t] = SoldBy(t)  OBVIOUS
<1>6. \A i \in S : f[i] \in Int /\ g[move[i]] = f[i]
  BY <1>2, <1>4, <1>5
<1>7. Worth(T) = SumFunctionOnSet(g, T)  BY DEF Worth
<1> HIDE DEF move, g, S
<1>8. IsFiniteSet(T)
  <2> HIDE DEF move, g, S
  <2>1. move \in Surjection(S, T)  BY <1>a, <1>4 DEF Surjection
  <2> QED  BY <1>1, <2>1, FS_Surjection
<1>9. SumFunctionOnSet(g, {move[i] : i \in S}) = SumFunctionOnSet(f, S)
  BY <1>1, <1>3, <1>6, SumImage
<1> QED  BY <1>4, <1>7, <1>8, <1>9 DEF S

\* So tasks that buy sell nothing.
LEMMA WorthOfBuys ==
    ASSUME NEW n \in Nat, NEW asked, NEW T, AreSpawned(T, n, asked),
           \A i \in 1 .. n : asked[i].op = "buy"
    PROVE  IsFiniteSet(T) /\ Worth(T) = 0
<1> DEFINE f == [i \in 1 .. n |-> 0]
<1>1. \A i \in 1 .. n : f[i] = 0 /\ f[i] \in Int /\ SoldBy(<<i, asked[i]>>) = f[i]
  BY DEF SoldBy
<1>2. IsFiniteSet(1 .. n)  BY FS_Interval
<1> HIDE DEF f
<1>3. SumFunctionOnSet(f, 1 .. n) = 0  BY <1>1, <1>2, SumZero
<1>4. \A i \in 1 .. n : f[i] \in Int /\ SoldBy(<<i, asked[i]>>) = f[i]  BY <1>1
<1>5. IsFiniteSet(T) /\ Worth(T) = SumFunctionOnSet(f, 1 .. n)
  BY <1>4, WorthSpawned
<1> QED  BY <1>3, <1>5

\* And tasks of which the second half sells 10 each sell 10 for each of these.
LEMMA WorthOfHalves ==
    ASSUME NEW n \in Nat, NEW asked, NEW T, NEW m, m = 2 * n, AreSpawned(T, m, asked),
           \A i \in 1 .. n : asked[i].op = "buy",
           \A i \in n + 1 .. m : asked[i].op = "sell" /\ asked[i].volume = 10
    PROVE  IsFiniteSet(T) /\ Worth(T) = n * 10
<1> DEFINE f == [i \in 1 .. m |-> IF i <= n THEN 0 ELSE 10]
           Bad == {k \in Nat : k <= n /\ SumFunctionOnSet(f, 1 .. n + k) # k * 10}
<1>1. \A i \in 1 .. m : f[i] \in Int /\ SoldBy(<<i, asked[i]>>) = f[i]
  BY DEF SoldBy
<1>2. m \in Nat  OBVIOUS
<1>f. /\ \A i \in 1 .. n : f[i] = 0
      /\ \A i \in n + 1 .. m : f[i] = 10
  OBVIOUS
<1> HIDE DEF f
<1>3. IsFiniteSet(T) /\ Worth(T) = SumFunctionOnSet(f, 1 .. m)
  BY <1>1, <1>2, WorthSpawned
<1>4. Bad = {}
  <2> SUFFICES ASSUME Bad # {}  PROVE FALSE
    OBVIOUS
  <2>1. PICK k \in Bad : \A j \in Bad : k <= j
    <3>1. Bad \subseteq Nat  OBVIOUS
    <3> HIDE DEF Bad
    <3> QED  BY <3>1, LeastNat
  <2>2. k \in Nat /\ k <= n /\ SumFunctionOnSet(f, 1 .. n + k) # k * 10
    OBVIOUS
  <2>3. \A j \in Nat : j < k => SumFunctionOnSet(f, 1 .. n + j) = j * 10
    <3>1. \A j \in Nat : j < k => j \notin Bad  BY <2>1, <2>2
    <3>2. \A j \in Nat : j < k => j <= n  BY <2>2
    <3> QED  BY <3>1, <3>2
  <2> HIDE DEF Bad
  <2>4. k # 0
    <3>1. IsFiniteSet(1 .. n) /\ 1 .. n + 0 = 1 .. n  BY FS_Interval
    <3>2. SumFunctionOnSet(f, 1 .. n + 0) = 0  BY <1>f, <3>1, SumZero
    <3> QED  BY <2>2, <3>2
  <2>5. PICK j \in Nat : k = j + 1  BY <2>2, <2>4
  <2>6. SumFunctionOnSet(f, 1 .. n + j) = j * 10  BY <2>3, <2>5
  <2>7. PICK S, x : S = 1 .. n + j /\ x = n + k  OBVIOUS
  <2>8. /\ IsFiniteSet(S) /\ x \notin S /\ 1 .. n + k = S \cup {x}
        /\ x \in n + 1 .. m /\ \A i \in S \cup {x} : i \in 1 .. m
    <3>1. \A i \in Nat : IsFiniteSet(1 .. i)  BY FS_Interval
    <3>2. n + j \in Nat  OBVIOUS
    <3>3. IsFiniteSet(S)  BY <2>7, <3>1, <3>2
    <3> QED  BY <2>2, <2>5, <2>7, <3>3
  <2>9. \A i \in S \cup {x} : f[i] \in Int  BY <1>1, <2>8
  <2>10. SumFunctionOnSet(f, S \cup {x}) = f[x] + SumFunctionOnSet(f, S)
    BY <2>8, <2>9, SumAdd
  <2>11. f[x] = 10  BY <1>f, <2>8
  <2>12. SumFunctionOnSet(f, 1 .. n + k) = 10 + j * 10
    BY <2>6, <2>7, <2>8, <2>10, <2>11
  <2>13. 10 + j * 10 = k * 10  BY <2>5
  <2> QED  BY <2>2, <2>12, <2>13
<1>5. SumFunctionOnSet(f, 1 .. n + n) = n * 10
  <2>1. n \notin Bad  BY <1>4
  <2> QED  BY <2>1
<1>6. 1 .. n + n = 1 .. m  OBVIOUS
<1> QED  BY <1>3, <1>5, <1>6

\* What a test of one or of two phases sells.
LEMMA SoldByPhases ==
    ASSUME NEW c, IsCounted(c)
    PROVE  /\ Len(c.phases) = 1 => SoldUpTo(c, Len(c.phases)) = Worth(c.phases[1])
           /\ Len(c.phases) = 2 => SoldUpTo(c, Len(c.phases))
                                     = Worth(c.phases[1]) + Worth(c.phases[2])
<1>1. SoldUpTo(c, 0) = 0
  <2>1. 1 .. 0 = {}  OBVIOUS
  <2> QED  BY <2>1, SumEmpty DEF SoldUpTo
<1>2. \A k \in 1 .. Len(c.phases) : Worth(c.phases[k]) \in Nat
  BY WorthSteps DEF IsCounted
<1>3. \A k \in 1 .. Len(c.phases) :
        SoldUpTo(c, k) = SoldUpTo(c, k - 1) + Worth(c.phases[k])
  BY SoldStep
<1>4. 1 - 1 = 0 /\ 2 - 1 = 1  OBVIOUS
<1>5. CASE Len(c.phases) = 1
  <2>1. 1 \in 1 .. Len(c.phases)  BY <1>5
  <2>2. SoldUpTo(c, 1) = SoldUpTo(c, 1 - 1) + Worth(c.phases[1])  BY <1>3, <2>1
  <2>3. Worth(c.phases[1]) \in Nat  BY <1>2, <2>1
  <2> QED  BY <1>1, <1>4, <1>5, <2>2, <2>3
<1>6. CASE Len(c.phases) = 2
  <2>1. 1 \in 1 .. Len(c.phases) /\ 2 \in 1 .. Len(c.phases)  BY <1>6
  <2>2. /\ SoldUpTo(c, 1) = SoldUpTo(c, 1 - 1) + Worth(c.phases[1])
        /\ SoldUpTo(c, 2) = SoldUpTo(c, 2 - 1) + Worth(c.phases[2])
    BY <1>3, <2>1
  <2>3. Worth(c.phases[1]) \in Nat  BY <1>2, <2>1
  <2> QED  BY <1>1, <1>4, <1>6, <2>2, <2>3
<1> QED  BY <1>5, <1>6

\* The tests of one task per phase count what they sell.
LEMMA ConservationTest ==
    ASSUME Balance, V0!Done, case \in V0!Cases, case \in V0!supply_conservation
    PROVE  V0!Sold + case.start.supply = V0!TotalHeld(TestBook) + TestBook.supply
<1> DEFINE Phases(vs, bs) ==
                [i \in DOMAIN bs |-> V0!Alone(V0!Buy("u1", bs[i].volume, bs[i].price))]
                \o [i \in DOMAIN vs |-> V0!Alone(V0!Sell(vs[i]))]
<1>1. PICK vs \in V0!Vectors(V0!TestVolumes), bs \in V0!Vectors(V0!Pairs) :
        case = V0!Case("supply_conservation", V0!Empty, Phases(vs, bs))
  <2>1. V0!supply_conservation
          = {V0!Case("supply_conservation", V0!Empty, Phases(vs, bs)) :
                vs \in V0!Vectors(V0!TestVolumes), bs \in V0!Vectors(V0!Pairs)}
    BY DEF V0!supply_conservation
  <2> HIDE DEF Phases
  <2> QED  BY <2>1
<1> DEFINE b == [i \in DOMAIN bs |-> V0!Alone(V0!Buy("u1", bs[i].volume, bs[i].price))]
           s == [i \in DOMAIN vs |-> V0!Alone(V0!Sell(vs[i]))]
           p == case.phases
<1>2. p = b \o s /\ case.start = V0!Empty  BY <1>1 DEF V0!Case
<1>3. p \in Seq(SUBSET Task)  BY RequestsAssumption DEF Task
<1>4. /\ Len(b) \in Nat /\ DOMAIN b = 1 .. Len(b)
      /\ Len(s) \in Nat /\ DOMAIN s = 1 .. Len(s)
  <2>1. PICK m \in Nat : DOMAIN bs = 1 .. m  BY TestsAssumption DEF V0!Vectors
  <2>2. PICK n \in Nat : DOMAIN vs = 1 .. n  BY TestsAssumption DEF V0!Vectors
  <2> QED  BY <2>1, <2>2
<1>5. /\ \A i \in 1 .. Len(b) : \E c : b[i] = V0!Alone(c)
      /\ \A i \in 1 .. Len(s) : \E c : s[i] = V0!Alone(c)
  <2>1. \A i \in DOMAIN bs : b[i] = V0!Alone(V0!Buy("u1", bs[i].volume, bs[i].price))
    OBVIOUS
  <2>2. \A i \in DOMAIN vs : s[i] = V0!Alone(V0!Sell(vs[i]))  OBVIOUS
  <2> QED  BY <1>4, <2>1, <2>2
<1> HIDE DEF b, s
<1>6. \A i \in 1 .. Len(p) : \E c : p[i] = V0!Alone(c)
  <2> DEFINE t == b \o s
  <2>1. /\ Len(t) = Len(b) + Len(s)
        /\ \A i \in 1 .. Len(t) : i <= Len(b) => t[i] = b[i]
        /\ \A i \in 1 .. Len(t) : i > Len(b) => t[i] = s[i - Len(b)]
    BY <1>4
  <2>2. t = p  BY <1>2
  <2> HIDE DEF t, p
  <2> TAKE i \in 1 .. Len(p)
  <2>3. CASE i <= Len(b)
    <3>1. i \in 1 .. Len(b) /\ p[i] = b[i]  BY <1>4, <2>1, <2>2, <2>3
    <3> QED  BY <1>5, <3>1
  <2>4. CASE i > Len(b)
    <3>1. i - Len(b) \in 1 .. Len(s) /\ p[i] = s[i - Len(b)]
      BY <1>4, <2>1, <2>2, <2>4
    <3> QED  BY <1>5, <3>1
  <2> QED  BY <1>4, <2>3, <2>4
<1>7. IsCounted(case)
  <2>1. \A i \in 1 .. Len(p) : IsFiniteSet(p[i])
    <3>1. \A c : IsFiniteSet(V0!Alone(c))  BY FS_Singleton DEF V0!Alone
    <3> QED  BY <1>6, <3>1
  <2> QED  BY <1>3, <2>1 DEF IsCounted
<1>8. case.start.supply = 0  BY <1>2 DEF V0!Empty
<1>9. V0!Sold = SoldUpTo(case, Len(case.phases))  BY <1>7, SoldInAll
<1>10. V0!TotalHeld(TestBook) + TestBook.supply = 0 + SoldUpTo(case, Len(case.phases))
  BY <1>7, <1>8, CountedEnd
<1>11. 0 + SoldUpTo(case, Len(case.phases)) = V0!Sold + 0
  <2>1. SoldUpTo(case, Len(case.phases)) \in Nat
    <3>1. Total(TestBook) \in Nat
          /\ Total(TestBook) = 0 + SoldUpTo(case, Len(case.phases))
      BY <1>7, <1>8, BalanceEnd
    <3>2. Len(case.phases) \in Nat  BY <1>3
    <3>3. CASE Len(case.phases) = 0
      <4>1. 1 .. 0 = {}  OBVIOUS
      <4> QED  BY <3>3, <4>1, SumEmpty DEF SoldUpTo
    <3>4. CASE Len(case.phases) # 0
      <4>1. Len(case.phases) \in 1 .. Len(case.phases)  BY <3>2, <3>4
      <4> QED  BY <1>7, <4>1, SoldStep
    <3> QED  BY <3>3, <3>4
  <2> QED  BY <1>9, <2>1
<1> QED  BY <1>8, <1>10, <1>11

\* The tasks that buy and those that sell, spawned together.
LEMMA BuyAndSellTest ==
    ASSUME Balance, V0!Done, case \in V0!Cases, case \in V0!buy_and_sell
    PROVE  V0!TotalHeld(TestBook) + TestBook.supply = Tasks * 10
<1> DEFINE m == 2 * Tasks
           call(i) == IF i <= Tasks THEN V0!Buy(Text(i), 10, 1) ELSE V0!Sell(10)
           asked == [i \in 1 .. m |-> call(i)]
           T == {<<i, call(i)>> : i \in 1 .. m}
           p == <<T>>
<1>1. case = V0!Case("buy_and_sell", V0!Empty, p)
  BY DEF V0!buy_and_sell, V0!Spawned
<1>2. Tasks \in Nat  BY TestsAssumption
<1>3. case.phases = p /\ case.start = V0!Empty  BY <1>1 DEF V0!Case
<1>4. case.phases \in Seq(SUBSET Task)  BY RequestsAssumption DEF Task
<1>5. AreSpawned(T, m, asked)  BY DEF AreSpawned
<1>6. /\ \A i \in 1 .. Tasks : asked[i].op = "buy"
      /\ \A i \in Tasks + 1 .. m : asked[i].op = "sell" /\ asked[i].volume = 10
  <2>1. \A i \in 1 .. m : asked[i] = call(i)  OBVIOUS
  <2>2. \A i \in 1 .. Tasks : i \in 1 .. m /\ i <= Tasks  BY <1>2
  <2>3. \A i \in Tasks + 1 .. m : i \in 1 .. m /\ ~(i <= Tasks)  BY <1>2
  <2>4. /\ \A i \in 1 .. Tasks : asked[i] = V0!Buy(Text(i), 10, 1)
        /\ \A i \in Tasks + 1 .. m : asked[i] = V0!Sell(10)
    BY <2>1, <2>2, <2>3
  <2>5. /\ \A u : V0!Buy(u, 10, 1).op = "buy"
        /\ V0!Sell(10).op = "sell" /\ V0!Sell(10).volume = 10
    BY DEF V0!Buy, V0!Sell
  <2> HIDE DEF asked
  <2> QED  BY <2>4, <2>5
<1> HIDE DEF asked, T
<1>7. IsFiniteSet(T) /\ Worth(T) = Tasks * 10  BY <1>2, <1>5, <1>6, WorthOfHalves
<1>8. Len(case.phases) = 1 /\ case.phases[1] = T  BY <1>3
<1>9. IsCounted(case)  BY <1>4, <1>7, <1>8 DEF IsCounted
<1>10. SoldUpTo(case, Len(case.phases)) = Tasks * 10
  BY <1>7, <1>8, <1>9, SoldByPhases
<1>11. V0!TotalHeld(TestBook) + TestBook.supply = 0 + Tasks * 10
  <2>1. case.start.supply = 0  BY <1>3 DEF V0!Empty
  <2> QED  BY <1>9, <1>10, <2>1, CountedEnd
<1> QED  BY <1>2, <1>11

\* Tasks that buy, and one that sells when they are joined.
LEMMA OneSellTest ==
    ASSUME Balance, V0!Done, case \in V0!Cases, case \in V0!buys_no_oversell_v2
    PROVE  V0!TotalHeld(TestBook) + TestBook.supply = 5 * Tasks
<1> DEFINE asked == [i \in 1 .. Tasks |-> V0!Buy(Text(i), 10, 1)]
           T == {<<i, V0!Buy(Text(i), 10, 1)>> : i \in 1 .. Tasks}
           c == V0!Sell(5 * Tasks)
           L == V0!Alone(c)
           p == <<T, L>>
<1>1. case = V0!Case("buys_no_oversell_v2", V0!Empty, p)
  BY DEF V0!buys_no_oversell_v2, V0!Spawned
<1>2. Tasks \in Nat  BY TestsAssumption
<1>3. case.phases = p /\ case.start = V0!Empty  BY <1>1 DEF V0!Case
<1>4. case.phases \in Seq(SUBSET Task)  BY RequestsAssumption DEF Task
<1>5. AreSpawned(T, Tasks, asked)  BY DEF AreSpawned
<1>6. \A i \in 1 .. Tasks : asked[i].op = "buy"  BY DEF V0!Buy
<1> HIDE DEF asked, T
<1>7. IsFiniteSet(T) /\ Worth(T) = 0  BY <1>2, <1>5, <1>6, WorthOfBuys
<1>a. SoldBy(<<1, c>>) = 5 * Tasks  BY DEF SoldBy, V0!Sell
<1> HIDE DEF c, L
<1>8. Len(case.phases) = 2 /\ case.phases[1] = T /\ case.phases[2] = L  BY <1>3
<1>9. L \subseteq Task  BY <1>4, <1>8
<1>10. IsFiniteSet(L) /\ Worth(L) = 5 * Tasks  BY <1>9, <1>a, WorthAlone DEF L
<1>11. IsCounted(case)  BY <1>4, <1>7, <1>8, <1>10 DEF IsCounted
<1>12. SoldUpTo(case, Len(case.phases)) = 0 + 5 * Tasks
  BY <1>7, <1>8, <1>10, <1>11, SoldByPhases
<1>13. case.start.supply = 0  BY <1>3 DEF V0!Empty
<1>14. V0!TotalHeld(TestBook) + TestBook.supply = 0 + (0 + 5 * Tasks)
  BY <1>11, <1>12, <1>13, CountedEnd
<1> QED  BY <1>2, <1>14

\* Tasks that buy from a supply.
LEMMA NoOversellTest ==
    ASSUME Balance, V0!Done, case \in V0!Cases, case \in V0!buys_no_oversell
    PROVE  V0!TotalHeld(TestBook) + TestBook.supply = 500
<1> DEFINE c == V0!Buy("u1", 200, 2)
           asked == [i \in 1 .. Tasks |-> c]
           T == {<<i, c>> : i \in 1 .. Tasks}
           p == <<T>>
<1>1. case = V0!Case("buys_no_oversell", V0!WithSupply(500), p)
  BY DEF V0!buys_no_oversell, V0!Spawned
<1>2. Tasks \in Nat  BY TestsAssumption
<1>3. case.phases = p /\ case.start = V0!WithSupply(500)  BY <1>1 DEF V0!Case
<1>4. case.phases \in Seq(SUBSET Task)  BY RequestsAssumption DEF Task
<1>5. AreSpawned(T, Tasks, asked)  BY DEF AreSpawned
<1>6. \A i \in 1 .. Tasks : asked[i].op = "buy"  BY DEF V0!Buy
<1> HIDE DEF asked, T
<1>7. IsFiniteSet(T) /\ Worth(T) = 0  BY <1>2, <1>5, <1>6, WorthOfBuys
<1>8. Len(case.phases) = 1 /\ case.phases[1] = T  BY <1>3
<1>9. IsCounted(case)  BY <1>4, <1>7, <1>8 DEF IsCounted
<1>10. SoldUpTo(case, Len(case.phases)) = 0  BY <1>7, <1>8, <1>9, SoldByPhases
<1>11. case.start.supply = 500
  <2>1. case.start = V0!Book(0, 500, V0!Nobody, {})  BY <1>3, StartBooks
  <2> QED  BY <2>1 DEF V0!Book
<1>12. V0!TotalHeld(TestBook) + TestBook.supply = 500 + 0
  BY <1>9, <1>10, <1>11, CountedEnd
<1> QED  BY <1>12

-----------------------------------------------------------------------------
(* The tasks that buy at the same price *)

\* The book when q of them have run.
SameBid(i) == V0!Bid("u1", 100, 2, i)
SameBids(q) == {SameBid(i) : i \in 1 .. q}
SameBookOf(q) == V0!Book(q, 0, V0!Nobody, SameBids(q))
SameTasks == {<<i, V0!Buy("u1", 100, 2)>> : i \in 1 .. 5}

\* The tasks are spawned, and each stores a bid with the next number.
SamePrice ==
    case \in V0!same_price_buy_requests =>
        \E q \in Nat :
            /\ TestBook = SameBookOf(q)
            /\ \/ pending = <<SameTasks>> /\ Outstanding = {}
               \/ /\ pending = <<>> /\ Outstanding \subseteq SameTasks
                  /\ q = 0 => Outstanding # {}

\* At the start none has run.
LEMMA SamePriceInit ==
    ASSUME InitTest
    PROVE  SamePrice
<1> SUFFICES ASSUME case \in V0!same_price_buy_requests  PROVE SamePrice
  BY DEF SamePrice
<1>1. case = V0!Case("same_price_buy_requests", V0!Empty, <<SameTasks>>)
  BY DEF V0!same_price_buy_requests, V0!Spawned, SameTasks
<1>2. case.phases = <<SameTasks>> /\ case.start = V0!Empty  BY <1>1 DEF V0!Case
<1>3. /\ Outstanding = {} /\ pending = <<SameTasks>>  BY <1>2, InitTasks DEF InitTest
<1>4. TestBook = V0!Empty  BY <1>2, InitIsV0 DEF V0!Init, TestBook, V0!Book
<1>5. SameBids(0) = {}  BY DEF SameBids
<1>6. TestBook = SameBookOf(0)  BY <1>4, <1>5, StartBooks DEF SameBookOf
<1> QED  BY <1>3, <1>6 DEF SamePrice

\* Whichever task is next, its bid gets the next number.
LEMMA SamePriceStep ==
    ASSUME SamePrice, TestMoves
    PROVE  SamePrice'
<1> SUFFICES ASSUME case \in V0!same_price_buy_requests
             PROVE  \E q \in Nat :
                /\ TestBook' = SameBookOf(q)
                /\ \/ pending' = <<SameTasks>> /\ Outstanding' = {}
                   \/ /\ pending' = <<>> /\ Outstanding' \subseteq SameTasks
                      /\ q = 0 => Outstanding' # {}
  BY DEF SamePrice, TestMoves
<1>1. PICK q \in Nat :
        /\ TestBook = SameBookOf(q)
        /\ \/ pending = <<SameTasks>> /\ Outstanding = {}
           \/ /\ pending = <<>> /\ Outstanding \subseteq SameTasks
              /\ q = 0 => Outstanding # {}
  BY DEF SamePrice
<1>2. CASE /\ Outstanding = {} /\ pending # <<>>
           /\ Outstanding' = Head(pending) /\ pending' = Tail(pending)
           /\ TestBook' = TestBook
  <2>1. pending = <<SameTasks>>  BY <1>1, <1>2
  <2>2. SameTasks # {}
    <3>1. 1 \in 1 .. 5  OBVIOUS
    <3> QED  BY <3>1 DEF SameTasks
  <2>3. Head(<<SameTasks>>) = SameTasks /\ Tail(<<SameTasks>>) = <<>>  OBVIOUS
  <2> QED  BY <1>1, <1>2, <2>1, <2>2, <2>3
<1>3. CASE /\ \E task \in Outstanding :
                /\ Outstanding' = Outstanding \ {task}
                /\ TestBook' = V0!Run(TestBook, task[2])
           /\ pending' = pending
  <2>1. PICK t \in Outstanding : /\ Outstanding' = Outstanding \ {t}
                                 /\ TestBook' = V0!Run(TestBook, t[2])
    BY <1>3
  <2>2. t[2] = V0!Buy("u1", 100, 2)  BY <1>1, <2>1 DEF SameTasks
  <2>3. V0!Run(SameBookOf(q), V0!Buy("u1", 100, 2)) = SameBookOf(q + 1)
    <3>1. PICK O : O = SameBids(q)  OBVIOUS
    <3>2. V0!BuyImpl(V0!Book(q, 0, V0!Nobody, O), "u1", 100, 2)
            = V0!Book(q + 1, 0, V0!Nobody, O \cup {V0!Bid("u1", 100, 2, q + 1)})
      BY BuyWaits
    <3>3. O \cup {V0!Bid("u1", 100, 2, q + 1)} = SameBids(q + 1)
      <4>1. SameBids(q) \cup {SameBid(q + 1)} = SameBids(q + 1)
        <5>1. 1 .. q + 1 = (1 .. q) \cup {q + 1}  OBVIOUS
        <5> QED  BY <5>1 DEF SameBids
      <4> QED  BY <3>1, <4>1 DEF SameBid
    <3> QED  BY <3>1, <3>2, <3>3, RunCall DEF SameBookOf
  <2>4. TestBook' = SameBookOf(q + 1) /\ q + 1 \in Nat /\ q + 1 # 0
    BY <1>1, <2>1, <2>2, <2>3
  <2>5. pending' = <<>> /\ Outstanding' \subseteq SameTasks  BY <1>1, <1>3, <2>1
  <2> QED  BY <2>4, <2>5
<1>4. CASE /\ Outstanding' = Outstanding /\ pending' = pending
           /\ TestBook' = TestBook
  BY <1>1, <1>4
<1> QED  BY <1>2, <1>3, <1>4 DEF TestMoves

\* The numbers of the bids differ and rise in the order of the book, from 1.
LEMMA SamePriceTest ==
    ASSUME SamePrice, V0!Done, case \in V0!same_price_buy_requests
    PROVE  /\ V0!Cardinality({o.seq : o \in TestBook.orders})
                = V0!Cardinality(TestBook.orders)
           /\ V0!FirstOrder(TestBook).seq = 1
           /\ \A o, p \in TestBook.orders : V0!Before(o, p) => o.seq < p.seq
<1>1. PICK q \in Nat : TestBook = SameBookOf(q) /\ q # 0
  BY DEF SamePrice, V0!Done
<1>2. TestBook.orders = SameBids(q)  BY <1>1 DEF SameBookOf, V0!Book
<1> DEFINE O == SameBids(q)
           S == 1 .. q
           N == {o.seq : o \in O}
           bidOf == [i \in S |-> SameBid(i)]
           number == [o \in O |-> o.seq]
<1>3. \A i \in S : SameBid(i).seq = i /\ SameBid(i).price = 2
  BY BidIs DEF SameBid
<1>4. IsFiniteSet(O)
  <2>1. IsFiniteSet(S)  BY FS_Interval
  <2>2. bidOf \in Surjection(S, O)  BY DEF Surjection, SameBids
  <2> HIDE DEF bidOf, S, O
  <2> QED  BY <2>1, <2>2, FS_Surjection
<1>5. \A o \in O : \E i \in S : o = SameBid(i)  BY DEF SameBids
<1>6. ExistsBijection(O, N)
  <2>1. \A o, p \in O : o.seq = p.seq => o = p  BY <1>3, <1>5
  <2> HIDE DEF O
  <2>a. number \in [O -> N] /\ \A o \in O : number[o] = o.seq  OBVIOUS
  <2>b. \A n \in N : \E o \in O : n = o.seq  OBVIOUS
  <2> HIDE DEF number, N
  <2>c. number \in Injection(O, N)  BY <2>1, <2>a DEF Injection, IsInjective
  <2>d. number \in Surjection(O, N)  BY <2>a, <2>b DEF Surjection
  <2>2. number \in Bijection(O, N)  BY <2>c, <2>d DEF Bijection
  <2> HIDE DEF number, N
  <2> QED  BY <2>2 DEF ExistsBijection
<1>7. V0!Cardinality(N) = V0!Cardinality(O)
  <2> HIDE DEF O, N
  <2> QED  BY <1>4, <1>6, FS_Bijection, SameCardinality
<1>8. V0!FirstOrder(TestBook).seq = 1
  <2>1. 1 \in S /\ SameBid(1) \in O  BY <1>1 DEF SameBids
  <2>2. \A o \in O : o = SameBid(1) \/ V0!Before(SameBid(1), o)
    <3> TAKE o \in O
    <3>1. PICK i \in S : o = SameBid(i)  BY <1>5
    <3> QED  BY <1>3, <2>1, <3>1 DEF V0!Before
  <2> DEFINE f == V0!FirstOrder(TestBook)
  <2>3. f = CHOOSE o \in O : \A p \in O : p = o \/ V0!Before(o, p)
    BY <1>2 DEF V0!FirstOrder
  <2> HIDE DEF f, O
  <2>4. f \in O /\ \A p \in O : p = f \/ V0!Before(f, p)
    BY <2>1, <2>2, <2>3
  <2>5. PICK i \in S : f = SameBid(i)  BY <1>5, <2>4
  <2>6. f = SameBid(1) \/ V0!Before(f, SameBid(1))  BY <2>1, <2>4
  <2>7. ~V0!Before(f, SameBid(1))
    <3>1. f.price = 2 /\ f.seq = i /\ SameBid(1).price = 2 /\ SameBid(1).seq = 1
      BY <1>3, <2>1, <2>5
    <3> QED  BY <3>1 DEF V0!Before
  <2> QED  BY <1>3, <2>1, <2>6, <2>7 DEF f
<1>9. \A o, p \in O : V0!Before(o, p) => o.seq < p.seq
  <2>1. \A o \in O : o.price = 2  BY <1>3, <1>5
  <2> HIDE DEF O
  <2> QED  BY <2>1 DEF V0!Before
<1> HIDE DEF O
<1> QED  BY <1>2, <1>7, <1>8, <1>9 DEF O

-----------------------------------------------------------------------------
(* Each test by its name *)

\* The cases of a test bear its name; most start with an empty book, or a supply.
LEMMA CaseIsNamed ==
    ASSUME NEW c, NEW name, NEW p, c = V0!Case(name, V0!Empty, p)
    PROVE  c.test = name /\ "expect" \notin DOMAIN c /\ StartsWithout(c)
<1>1. c.start = V0!Empty  BY DEF V0!Case
<1>2. StartsWithout(c)  BY <1>1, StartBooks DEF StartsWithout
<1> QED  BY <1>2 DEF V0!Case

\* The same for a test that starts with a supply.
LEMMA SuppliedIsNamed ==
    ASSUME NEW c, NEW name, NEW n, NEW p, n \in Nat,
           c = V0!Case(name, V0!WithSupply(n), p)
    PROVE  c.test = name /\ "expect" \notin DOMAIN c /\ StartsWithout(c)
<1>1. c.start = V0!WithSupply(n)  BY DEF V0!Case
<1>2. StartsWithout(c)  BY <1>1, StartBooks DEF StartsWithout
<1> QED  BY <1>2 DEF V0!Case

\* The names of the unit tests.
LEMMA UnitTestIsNamed ==
    ASSUME NEW c, c \in V0!UnitTests
    PROVE  c.test \in {"unused_supply_auto_sold", "sell", "buy",
                       "higher_price_always_fills_first_unit",
                       "buy_same_user_buys_twice"}
<1> DEFINE names == {"unused_supply_auto_sold", "sell", "buy",
                     "higher_price_always_fills_first_unit",
                     "buy_same_user_buys_twice"}
<1>1. \A n, s, p, r : V0!Expecting(n, s, p, r).test = n  BY DEF V0!Expecting
<1>2. ASSUME c \in V0!unused_supply_auto_sold  PROVE c.test \in names
  BY <1>1, <1>2 DEF V0!unused_supply_auto_sold
<1>3. ASSUME c \in V0!sell  PROVE c.test \in names
  BY <1>1, <1>3 DEF V0!sell
<1>4. ASSUME c \in V0!buy  PROVE c.test \in names
  BY <1>1, <1>4 DEF V0!buy
<1>5. ASSUME c \in V0!higher_price_always_fills_first_unit  PROVE c.test \in names
  BY <1>1, <1>5 DEF V0!higher_price_always_fills_first_unit
<1>6. ASSUME c \in V0!buy_same_user_buys_twice  PROVE c.test \in names
  BY <1>1, <1>6 DEF V0!buy_same_user_buys_twice
<1> QED  BY <1>2, <1>3, <1>4, <1>5, <1>6 DEF V0!UnitTests

\* The tests that are not unit tests, each with its name.
IsNamed(c) ==
    /\ "expect" \notin DOMAIN c /\ StartsWithout(c)
    /\ \/ /\ c \in V0!test_basics_buy_sell_and_allocation
          /\ c.test = "test_basics_buy_sell_and_allocation"
       \/ /\ c \in V0!allocation_monotonically_increases
          /\ c.test = "allocation_monotonically_increases"
       \/ c \in V0!supply_conservation /\ c.test = "supply_conservation"
       \/ c \in V0!fifo_within_same_price /\ c.test = "fifo_within_same_price"
       \/ /\ c \in V0!higher_price_always_fills_first
          /\ c.test = "higher_price_always_fills_first"
       \/ /\ c \in V0!allocated_never_exceeds_supply
          /\ c.test = "allocated_never_exceeds_supply"
       \/ /\ c \in V0!partial_fill_remainder_stays_open
          /\ c.test = "partial_fill_remainder_stays_open"
       \/ c \in V0!same_price_buy_requests /\ c.test = "same_price_buy_requests"
       \/ c \in V0!buy_and_sell /\ c.test = "buy_and_sell"
       \/ c \in V0!buys_no_oversell_v2 /\ c.test = "buys_no_oversell_v2"
       \/ c \in V0!buys_no_oversell /\ c.test = "buys_no_oversell"

\* Every case is of a unit test or of one of these.
LEMMA TestsAreNamed ==
    ASSUME NEW c, c \in V0!Cases
    PROVE  c \in V0!UnitTests \/ IsNamed(c)
<1>1. CASE c \in V0!test_basics_buy_sell_and_allocation
  BY <1>1, CaseIsNamed DEF V0!test_basics_buy_sell_and_allocation, IsNamed
<1>2. CASE c \in V0!allocation_monotonically_increases
  <2> DEFINE round(b, supplies) ==
                <<V0!Alone(V0!Buy("u1", b.volume, b.price))>> \o
                [i \in DOMAIN supplies |-> V0!Alone(V0!Sell(supplies[i]))]
             Phases(s, bs) ==
                V0!FlattenSeq([i \in DOMAIN bs |-> round(bs[i], s)])
  <2>1. V0!allocation_monotonically_increases
          = {V0!Case("allocation_monotonically_increases", V0!Empty, Phases(s, bs)) :
                s \in V0!Vectors(V0!TestVolumes), bs \in V0!Vectors(V0!Pairs)}
    BY DEF V0!allocation_monotonically_increases
  <2> HIDE DEF Phases
  <2>2. \E s, bs :
            c = V0!Case("allocation_monotonically_increases", V0!Empty, Phases(s, bs))
    BY <1>2, <2>1
  <2> QED  BY <1>2, <2>2, CaseIsNamed DEF IsNamed
<1>3. CASE c \in V0!supply_conservation
  <2> DEFINE Phases(s, bs) ==
                [i \in DOMAIN bs |-> V0!Alone(V0!Buy("u1", bs[i].volume, bs[i].price))]
                \o [i \in DOMAIN s |-> V0!Alone(V0!Sell(s[i]))]
  <2>1. V0!supply_conservation
          = {V0!Case("supply_conservation", V0!Empty, Phases(s, bs)) :
                s \in V0!Vectors(V0!TestVolumes), bs \in V0!Vectors(V0!Pairs)}
    BY DEF V0!supply_conservation
  <2> HIDE DEF Phases
  <2>2. \E s, bs : c = V0!Case("supply_conservation", V0!Empty, Phases(s, bs))
    BY <1>3, <2>1
  <2> QED  BY <1>3, <2>2, CaseIsNamed DEF IsNamed
<1>4. CASE c \in V0!fifo_within_same_price
  <2>1. \E s, v, p :
            c = V0!Case("fifo_within_same_price", V0!Empty,
                    <<V0!Alone(V0!Buy("u1", v, p)), V0!Alone(V0!Buy("u2", v, p)),
                      V0!Alone(V0!Sell(s))>>)
    BY <1>4 DEF V0!fifo_within_same_price
  <2> QED  BY <1>4, <2>1, CaseIsNamed DEF IsNamed
<1>5. CASE c \in V0!higher_price_always_fills_first
  <2>1. \E s, lo, hi, v :
            c = V0!Case("higher_price_always_fills_first", V0!Empty,
                    <<V0!Alone(V0!Buy("lo", v, lo)), V0!Alone(V0!Buy("hi", v, hi)),
                      V0!Alone(V0!Sell(s))>>)
    BY <1>5 DEF V0!higher_price_always_fills_first
  <2> QED  BY <1>5, <2>1, CaseIsNamed DEF IsNamed
<1>6. CASE c \in V0!allocated_never_exceeds_supply
  <2>1. PICK s \in 0 .. MaxVolume, v \in 0 .. MaxVolume, p \in V0!TestPrices :
          c = V0!Case("allocated_never_exceeds_supply", V0!WithSupply(s),
                      <<V0!Alone(V0!Buy("u1", v, p))>>)
    BY <1>6 DEF V0!allocated_never_exceeds_supply
  <2>2. s \in Nat  BY TestsAssumption
  <2> QED  BY <1>6, <2>1, <2>2, SuppliedIsNamed DEF IsNamed
<1>7. CASE c \in V0!partial_fill_remainder_stays_open
  <2>1. PICK r \in V0!TestVolumes \X V0!TestVolumes, p \in V0!TestPrices :
          c = V0!Case("partial_fill_remainder_stays_open", V0!WithSupply(r[1]),
                      <<V0!Alone(V0!Buy("u1", r[2], p))>>)
    BY <1>7 DEF V0!partial_fill_remainder_stays_open
  <2>2. r[1] \in Nat  BY <2>1, TestsAssumption DEF V0!TestVolumes
  <2> QED  BY <1>7, <2>1, <2>2, SuppliedIsNamed DEF IsNamed
<1>8. CASE c \in V0!same_price_buy_requests
  BY <1>8, CaseIsNamed DEF V0!same_price_buy_requests, IsNamed
<1>9. CASE c \in V0!buy_and_sell
  BY <1>9, CaseIsNamed DEF V0!buy_and_sell, IsNamed
<1>10. CASE c \in V0!buys_no_oversell_v2
  BY <1>10, CaseIsNamed DEF V0!buys_no_oversell_v2, IsNamed
<1>11. CASE c \in V0!buys_no_oversell
  <2>1. 500 \in Nat  OBVIOUS
  <2> QED  BY <1>11, <2>1, SuppliedIsNamed DEF V0!buys_no_oversell, IsNamed
<1> QED
  BY <1>1, <1>2, <1>3, <1>4, <1>5, <1>6, <1>7, <1>8, <1>9, <1>10, <1>11 DEF V0!Cases

\* V0!book is the book of base.
LEMMA TestBookIs ==
    TestBook = [seq |-> base.seq, supply |-> base.supply,
                given |-> base.allocations, orders |-> base.bids]
BY DEF TestBook, V0!Book

\* The asserts, in a state in which all tasks have been joined.
LEMMA AssertsHold ==
    ASSUME OnTrack, Balance, SamePrice, V0!Done, case \in V0!Cases
    PROVE  V0!AssertionsHold
<1>1. case \in V0!UnitTests \/ IsNamed(case)  BY TestsAreNamed
<1>2. case \in V0!UnitTests =>
        case.test \in {"unused_supply_auto_sold", "sell", "buy",
                       "higher_price_always_fills_first_unit",
                       "buy_same_user_buys_twice"}
  BY UnitTestIsNamed
<1>3. case.test = "supply_conservation" => V0!supply_conservation_asserts
  BY <1>1, <1>2, ConservationTest, TestBookIs
  DEF IsNamed, V0!supply_conservation_asserts
<1>4. case.test = "fifo_within_same_price" => V0!fifo_within_same_price_asserts
  BY <1>1, <1>2, FifoTest, TestBookIs
  DEF IsNamed, V0!fifo_within_same_price_asserts
<1>5. case.test = "higher_price_always_fills_first"
        => V0!higher_price_always_fills_first_asserts
  BY <1>1, <1>2, HigherTest, TestBookIs
  DEF IsNamed, V0!higher_price_always_fills_first_asserts
<1>6. case.test = "allocated_never_exceeds_supply"
        => V0!allocated_never_exceeds_supply_asserts
  BY <1>1, <1>2, NeverExceedsTest, TestBookIs
  DEF IsNamed, V0!allocated_never_exceeds_supply_asserts
<1>7. case.test = "partial_fill_remainder_stays_open"
        => V0!partial_fill_remainder_stays_open_asserts
  BY <1>1, <1>2, RemainderTest, TestBookIs
  DEF IsNamed, V0!partial_fill_remainder_stays_open_asserts
<1>8. case.test = "same_price_buy_requests" => V0!same_price_buy_requests_asserts
  <2>1. \/ case.test # "same_price_buy_requests"
        \/ /\ V0!Cardinality({o.seq : o \in TestBook.orders})
                = V0!Cardinality(TestBook.orders)
           /\ V0!FirstOrder(TestBook).seq = 1
           /\ \A o, p \in TestBook.orders : V0!Before(o, p) => o.seq < p.seq
    BY <1>1, <1>2, SamePriceTest DEF IsNamed
  <2> QED  BY <2>1, Zenon DEF V0!same_price_buy_requests_asserts, TestBook, V0!Book
<1>9. case.test = "buy_and_sell" => V0!buy_and_sell_asserts
  BY <1>1, <1>2, BuyAndSellTest, TestBookIs
  DEF IsNamed, V0!buy_and_sell_asserts
<1>10. case.test = "buys_no_oversell_v2" => V0!buys_no_oversell_v2_asserts
  BY <1>1, <1>2, OneSellTest, TestBookIs
  DEF IsNamed, V0!buys_no_oversell_v2_asserts
<1>11. case.test = "buys_no_oversell" => V0!buys_no_oversell_asserts
  BY <1>1, <1>2, NoOversellTest, TestBookIs
  DEF IsNamed, V0!buys_no_oversell_asserts
<1>12. case.test = "test_basics_buy_sell_and_allocation"
        => V0!test_basics_buy_sell_and_allocation_asserts
  BY <1>1, <1>2, BasicsTest, TestBookIs
  DEF IsNamed, V0!test_basics_buy_sell_and_allocation_asserts
<1> QED
  BY <1>3, <1>4, <1>5, <1>6, <1>7, <1>8, <1>9, <1>10, <1>11, <1>12
  DEF V0!AssertionsHold, V0!Ran

\* The unit tests end with the books they expect.
LEMMA UnitTestsEnd ==
    ASSUME OnTrack, V0!Done, case \in V0!Cases
    PROVE  V0!UnitTestsPass
<1> SUFFICES ASSUME "expect" \in DOMAIN case  PROVE TestBook = case.expect
  BY TestBookIs DEF V0!UnitTestsPass
<1>1. case \in V0!UnitTests  BY TestsAreNamed DEF IsNamed
<1> QED
  BY <1>1, UnusedSupply, SellTest, BuyTest, HigherUnitTest, BuyTwiceTest
  DEF V0!UnitTests

\* Along a test, what its asserts rest on.
TestCourse ==
    /\ case \in V0!Cases
    /\ OnTrack /\ SamePrice
    /\ StartsWithout(case) => Balance /\ case.start.supply \in Nat

\* It holds at the start of a test.
LEMMA TestCourseInit ==
    ASSUME InitTest
    PROVE  TestCourse
<1>1. case \in V0!Cases  BY InitIsV0 DEF V0!Init
<1> QED  BY <1>1, OnTrackInit, SamePriceInit, BalanceInit DEF TestCourse

\* A step keeps it, as it is one of the first version, or none.
LEMMA TestCourseStep ==
    ASSUME TestHolds, TestCourse, [V0!Next]_V0!vars
    PROVE  TestCourse'
<1>1. TestMoves  BY MovesOfTest
<1>2. OnTrack' /\ SamePrice'
  BY <1>1, OnTrackStep, SamePriceStep DEF TestCourse
<1>3. case' = case  BY <1>1 DEF TestMoves
<1>4. StartsWithout(case)' => StartsWithout(case)  BY <1>3 DEF StartsWithout
<1>5. StartsWithout(case) => Balance' /\ (case.start.supply \in Nat)'
  <2> SUFFICES ASSUME StartsWithout(case)
               PROVE  Balance' /\ case'.start.supply \in Nat
    OBVIOUS
  <2>1. BaseBook  BY DEF TestHolds, EngineHolds
  <2> QED  BY <1>1, <1>3, <2>1, BalanceStep DEF TestCourse
<1> QED  BY <1>2, <1>3, <1>4, <1>5 DEF TestCourse

\* The asserts hold at the end of a test.  The tests that start with a bid are
\* unit tests.
LEMMA CourseEnds ==
    ASSUME TestCourse
    PROVE  TestsPass
<1>1. CASE ~V0!Done
  BY <1>1 DEF TestsPass, V0!AssertionsHold, V0!UnitTestsPass, V0!Ran
<1>2. CASE V0!Done
  <2>1. V0!UnitTestsPass  BY <1>2, UnitTestsEnd DEF TestCourse
  <2>2. CASE StartsWithout(case)
    BY <1>2, <2>1, <2>2, AssertsHold DEF TestCourse, TestsPass
  <2>3. CASE ~StartsWithout(case)
    <3>1. case \in V0!UnitTests
      BY <2>3, TestsAreNamed DEF TestCourse, IsNamed
    <3>2. case.test \in {"unused_supply_auto_sold", "sell", "buy",
                         "higher_price_always_fills_first_unit",
                         "buy_same_user_buys_twice"}
      BY <3>1, UnitTestIsNamed
    <3>3. V0!AssertionsHold  BY <3>2 DEF V0!AssertionsHold, V0!Ran
    <3> QED  BY <2>1, <3>3 DEF TestsPass
  <2> QED  BY <2>2, <2>3
<1> QED  BY <1>1, <1>2

\* Every test of tw_main passes, for every range of its inputs and every number
\* of tasks, and however these are interleaved.
THEOREM TestsAlwaysPass ==
    TestSpec /\ [](offered < Modulus) => []TestsPass
<1>1. InitTest /\ Fits => TestHolds /\ TestCourse
  BY TestHoldsInit, TestCourseInit
<1>2. TestHolds /\ TestCourse /\ Fits /\ Fits' /\ [NextTest]_testVars
        => TestHolds' /\ TestCourse'
  BY TestHoldsStep, TestCourseStep
<1>3. TestCourse => TestsPass  BY CourseEnds
<1>4. (offered < Modulus) <=> Fits  BY DEF Fits
<1> QED  BY <1>1, <1>2, <1>3, <1>4, PTL DEF TestSpec

\* A step of a test that starts without bids takes nothing from any user.
LEMMA StepGives ==
    ASSUME TestHolds, [V0!Next]_V0!vars, StartsWithout(case), NEW u
    PROVE  V0!HeldIn(TestBook', u) >= V0!HeldIn(TestBook, u)
<1>1. TestMoves  BY MovesOfTest
<1>2. BaseBook /\ TasksTaken  BY DEF TestHolds, EngineHolds
<1>3. Outstanding \subseteq Task
  <2>1. Outstanding = phase \cup {running[w] : w \in {v \in Workers : pc[v] # "idle"}}
    BY OutstandingTasks
  <2> QED  BY <1>2, <2>1 DEF TasksTaken
<1>4. CASE TestBook' = TestBook
  <2>1. V0!HeldIn(TestBook, u) \in Nat
    BY <1>2 DEF BaseBook, IsAccount, TestBook, V0!Book, V0!HeldIn
  <2> QED  BY <1>4, <2>1
<1>5. CASE \E task \in Outstanding : TestBook' = V0!Run(TestBook, task[2])
  <2>1. PICK task \in Task : TestBook' = V0!Run(TestBook, task[2])
    BY <1>3, <1>5
  <2>2. task[2] \in BuyRequest \cup SellRequest  BY DEF Task
  <2> QED  BY <1>2, <2>1, <2>2, RunGives
<1> QED  BY <1>1, <1>4, <1>5 DEF TestMoves

\* The assert of allocation_monotonically_increases holds after every round, for
\* every list of bids and supplies: no step of the test lowers what u1 has.
THEOREM RoundsAlwaysAdd ==
    TestSpec /\ [](offered < Modulus) => AllocationsIncrease
<1> DEFINE Adds == case.test = "allocation_monotonically_increases" =>
                        V0!allocation_monotonically_increases_asserts
<1>1. InitTest /\ Fits => TestHolds /\ TestCourse
  BY TestHoldsInit, TestCourseInit
<1>2. TestHolds /\ TestCourse /\ Fits /\ Fits' /\ [NextTest]_testVars
        => TestHolds' /\ TestCourse'
  BY TestHoldsStep, TestCourseStep
<1>3. TestHolds /\ TestCourse /\ Fits /\ Fits' /\ [NextTest]_testVars
        => [Adds]_testVars
  <2> SUFFICES ASSUME TestHolds, TestCourse, Fits, Fits', [NextTest]_testVars,
                      case.test = "allocation_monotonically_increases"
               PROVE  V0!allocation_monotonically_increases_asserts
    OBVIOUS
  <2>1. [V0!Next]_V0!vars  BY TestHoldsStep
  <2>2. StartsWithout(case)
    <3>1. case \in V0!UnitTests \/ IsNamed(case)
      BY TestsAreNamed DEF TestCourse
    <3>2. case \notin V0!UnitTests  BY UnitTestIsNamed
    <3> QED  BY <3>1, <3>2 DEF IsNamed
  <2>3. V0!HeldIn(TestBook', "u1") >= V0!HeldIn(TestBook, "u1")
    BY <2>1, <2>2, StepGives
  <2> QED  BY <2>3, TestBookIs DEF V0!allocation_monotonically_increases_asserts,
       TestBook, V0!Book
<1>4. (offered < Modulus) <=> Fits  BY DEF Fits
<1> QED  BY <1>1, <1>2, <1>3, <1>4, PTL DEF TestSpec, AllocationsIncrease
=============================================================================

------------------------ MODULE InMemoryStorageProofs ------------------------
(***************************************************************************)
(* Proofs about InMemoryStorage, for every number of workers and users,    *)
(* every width of the integers and both build profiles.                    *)
(*                                                                         *)
(* IInv is inductive: one lemma per action, with one step per conjunct.    *)
(* The theorems at the end follow from it.                                 *)
(***************************************************************************)
EXTENDS StateDump, BookTheorems

\* The fields of a bid, as numbers the provers can compare.
LEMMA BidValues ==
    ASSUME NEW b \in Bid
    PROVE  /\ b.user \in Users /\ b.price \in Prices
           /\ b.price \in Int /\ 0 <= b.price /\ b.price <= Modulus - 1
           /\ b.volume \in U64 /\ b.volume \in Nat
           /\ b.seq \in Nat
<1>1. b.price \in Prices /\ b.volume \in U64 /\ b.user \in Users /\ b.seq \in Nat
  BY DEF Bid
<1>2. Modulus \in Nat /\ Prices \subseteq 0 .. Modulus - 1
  BY ConstantsAssumption
<1>3. \A p \in Prices : p \in 0 .. Modulus - 1  BY <1>2
<1>4. b.price \in 0 .. Modulus - 1  BY <1>1, <1>3
<1>5. b.volume \in 0 .. Modulus - 1  BY <1>1 DEF U64
<1>6. b.price \in Int /\ 0 <= b.price /\ b.price <= Modulus - 1
  BY <1>2, <1>4
<1>7. b.volume \in Nat  BY <1>2, <1>5
<1> QED  BY <1>1, <1>6, <1>7

\* Among bids with distinct sequence numbers First finds the one that comes
\* before all the others: the entry where BTreeMap's iteration starts.
LEMMA FirstPrecedes ==
    ASSUME NEW S, S \subseteq Bid, S # {},
           \A b, c \in S : b.seq = c.seq => b = c
    PROVE  /\ First(S) \in S
           /\ \A c \in S : c = First(S) \/ Precedes(First(S), c)
<1>1. Modulus - 1 \in Int  BY ConstantsAssumption
<1>2. \A b \in S : b.price \in Int /\ b.price <= Modulus - 1 /\ b.seq \in Nat
  BY BidValues
<1>3. \E b \in S : \A c \in S :
          \/ c = b \/ b.price > c.price
          \/ b.price = c.price /\ b.seq < c.seq
  BY <1>1, <1>2, BestBid
<1> QED  BY <1>3 DEF First, Precedes

-----------------------------------------------------------------------------
(* Labels and tuples of variables are read as what they stand for. *)
USE DEF At, Goto, Waiting, Filling, InBuy, InSell, shared, lock, ghosts

\* Zero and the volumes of requests fit in a u64.
LEMMA U64Values ==
    /\ 0 \in U64
    /\ \A n \in U64 : n \in Nat /\ n < Modulus
    /\ Volumes \subseteq U64
BY ConstantsAssumption DEF U64

\* The worker past the lock holds it, and all the others are outside.
LEMMA OneInside ==
    ASSUME IInv, NEW w \in Workers, pc[w] \notin Waiting
    PROVE  /\ holder = w /\ ~poisoned
           /\ \A v \in Workers : v # w => pc[v] \in Waiting
BY ConstantsAssumption DEF IInv, LockDiscipline

\* saturating_sub stays within a u64 and ends at 0 when it would go below.
LEMMA Saturating ==
    ASSUME NEW a \in U64, NEW b \in U64
    PROVE  /\ SaturatingSub(a, b) \in U64
           /\ SaturatingSub(a, b) <= a
           /\ a <= b => SaturatingSub(a, b) = 0
BY ConstantsAssumption DEF SaturatingSub, U64

\* What a bid receives is a u64.
LEMMA FillValues ==
    ASSUME TypeOK, NEW w \in Workers, bid[w] \in Bid
    PROVE  /\ Fill(w) \in U64
           /\ current[w] \in U64 /\ current[w] \in Nat
<1>1. bid[w].volume \in U64 /\ bid[w].volume \in Nat  BY BidValues
<1>2. current[w] \in U64 /\ current[w] \in Nat  BY U64Values DEF TypeOK
<1> QED  BY <1>1, <1>2 DEF Fill, Lesser

\* BTreeMap::insert of a key that is not there adds, and replaces nothing.
LEMMA InsertFresh ==
    ASSUME NEW book, NEW b, \A c \in book : c.seq # b.seq
    PROVE  Insert(book, b) = book \cup {b}
BY DEF Insert

\* What settling a fill does to the book, case by case: what a partly filled bid
\* leaves and its fill add up to the bid.
LEMMA SettleEffect ==
    ASSUME IInv, NEW w \in Workers, pc[w] = "put"
    PROVE  LET Left(rest) == /\ rest.user = bid[w].user
                             /\ rest.volume + Fill(w) = bid[w].volume
           IN
           /\ bid[w] \in Bid /\ req[w].op \in {"buy", "sell"}
           /\ \/ /\ req[w].op = "buy" /\ Fill(w) = bid[w].volume
                 /\ Settle(w) = bids
              \/ /\ req[w].op = "buy" /\ supply = 0
                 /\ \E rest \in Bid : /\ rest.seq = buy_seq_no /\ Left(rest)
                                      /\ Settle(w) = bids \cup {rest}
              \/ /\ req[w].op = "sell" /\ Fill(w) = bid[w].volume
                 /\ Settle(w) = bids \ {bid[w]}
              \/ /\ req[w].op = "sell" /\ supply = 0
                 /\ \E rest \in Bid : /\ rest.seq = bid[w].seq /\ Left(rest)
                                      /\ Settle(w) = (bids \ {bid[w]}) \cup {rest}
<1> DEFINE b == bid[w]
           full == current[w] >= b.volume
           left == b.volume - current[w]
           stored == [b EXCEPT !.volume = left, !.seq = buy_seq_no]
           lowered == [b EXCEPT !.volume = left]
<1>1. b \in Bid /\ req[w] \in BuyRequest \cup SellRequest
  BY DEF IInv, LockDiscipline
<1>2. req[w].op \in {"buy", "sell"}  BY <1>1 DEF BuyRequest, SellRequest
<1>3. /\ b.volume \in U64 /\ current[w] \in U64
      /\ b.volume \in Nat /\ current[w] \in Nat
  BY <1>1, BidValues, FillValues DEF IInv
<1>4. ~full => supply = 0 /\ left \in U64 /\ left + Fill(w) = b.volume
  <2>1. supply = SaturatingSub(current[w], b.volume)  BY DEF IInv, Taken
  <2> QED  BY <1>3, <2>1, ConstantsAssumption
           DEF SaturatingSub, U64, Fill, Lesser
<1>f. full => Fill(w) = b.volume  BY <1>3 DEF Fill, Lesser
<1>5. ~full => /\ stored \in Bid /\ stored.seq = buy_seq_no
               /\ stored.user = b.user /\ stored.volume = left
  BY <1>1, <1>4 DEF Bid, IInv, TypeOK
<1>6. ~full => /\ lowered \in Bid /\ lowered.seq = b.seq
               /\ lowered.user = b.user /\ lowered.volume = left
  BY <1>1, <1>4 DEF Bid
<1>7. CASE req[w].op = "buy" /\ full  BY <1>1, <1>7, <1>f DEF Settle
<1>8. CASE req[w].op = "buy" /\ ~full
  <2>1. \A c \in bids : c.seq # stored.seq
    <3>1. \A c \in bids : c.seq \in Nat /\ c.seq < buy_seq_no
      BY <1>8, BidValues DEF IInv, BookKeys, TypeOK
    <3> QED  BY <1>5, <1>8, <3>1 DEF IInv, TypeOK
  <2>2. Settle(w) = Insert(bids, stored)  BY <1>8 DEF Settle
  <2>3. Settle(w) = bids \cup {stored}  BY <2>1, <2>2, InsertFresh
  <2> HIDE DEF stored, left
  <2> QED  BY <1>1, <1>4, <1>5, <1>8, <2>3
<1>9. CASE req[w].op = "sell" /\ full  BY <1>1, <1>9, <1>f DEF Settle
<1>10. CASE req[w].op = "sell" /\ ~full
  <2>1. Settle(w) = (bids \ {b}) \cup {lowered}  BY <1>10 DEF Settle
  <2> HIDE DEF lowered, left
  <2> QED  BY <1>1, <1>4, <1>6, <1>10, <2>1
<1> QED  BY <1>2, <1>7, <1>8, <1>9, <1>10

\* retain visits the first of the bids that are left.
LEMMA NextIsFirst ==
    ASSUME IInv, NEW w \in Workers, NextBid(w)
    PROVE  /\ todo[w] \subseteq bids
           /\ bid'[w] \in todo[w] /\ bid'[w] \in Bid
           /\ todo'[w] = todo[w] \ {bid'[w]}
           /\ \A c \in todo[w] : c = bid'[w] \/ Precedes(bid'[w], c)
<1>1. /\ todo[w] \subseteq bids /\ todo[w] \subseteq Bid /\ todo[w] # {}
      /\ \A b, c \in todo[w] : b.seq = c.seq => b = c
  BY DEF NextBid, IInv, LockDiscipline, VisitOrder, TypeOK, BookKeys
<1>2. /\ bid'[w] = First(todo[w])
      /\ todo'[w] = todo[w] \ {First(todo[w])}
  BY DEF NextBid, IInv, TypeOK
<1> QED  BY <1>1, <1>2, FirstPrecedes

\* The bid stored by a buy gets the ticket of that buy, and a fresh key.
LEMMA StoreBidEffect ==
    ASSUME IInv, NEW w \in Workers, StoreBid(w)
    PROVE  LET stored == [bid[w] EXCEPT !.seq = buy_seq_no]
           IN  /\ stored \in Bid /\ stored.seq = buy_seq_no
               /\ bids' = bids \cup {stored}
               /\ \A b \in bids : b.seq < buy_seq_no
<1> DEFINE stored == [bid[w] EXCEPT !.seq = buy_seq_no]
<1>1. bid[w] \in Bid /\ buy_seq_no \in Nat
  BY DEF StoreBid, IInv, LockDiscipline, TypeOK
<1>2. stored \in Bid /\ stored.seq = buy_seq_no  BY <1>1 DEF Bid
<1>3. \A b \in bids : b.seq < buy_seq_no
  BY DEF StoreBid, IInv, BookKeys
<1>4. \A b \in bids : b.seq # stored.seq
  <2>1. \A b \in bids : b.seq \in Nat  BY BidValues DEF IInv, TypeOK
  <2> QED  BY <1>1, <1>2, <1>3, <2>1
<1>5. bids' = Insert(bids, stored)  BY DEF StoreBid
<1> QED  BY <1>2, <1>3, <1>4, <1>5, InsertFresh

\* The record a buy works on is a well-formed bid.
LEMMA BumpedBid ==
    ASSUME IInv, NEW w \in Workers, Bump(w)
    PROVE  \E b \in Bid : bid' = [bid EXCEPT ![w] = b]
<1>1. req[w] \in BuyRequest
  BY DEF Bump, IInv, LockDiscipline, BuyRequest, SellRequest
<1>2. [user |-> req[w].user, volume |-> req[w].volume,
       price |-> req[w].price, seq |-> buy_seq_no + 1] \in Bid
  BY <1>1, U64Values DEF BuyRequest, Bid, IInv, TypeOK
<1> QED  BY <1>2 DEF Bump

\* Only a successful compare_exchange leads from the CAS to the allocation.
LEMMA TryEnds ==
    ASSUME IInv, [Next]_vars, NEW w \in Workers, pc[w] = "try", pc'[w] = "get"
    PROVE  current[w] # 0
<1>1. \A v \in Workers : v # w => pc[v] \in {"idle", "lock"}
  BY OneInside
<1>2. ~ UNCHANGED vars /\ ~ Finished
  BY DEF vars, locals, Finished
<1>3. ASSUME NEW v \in Workers, Call(v) \/ Lock(v) \/ LockPoisoned(v)
      PROVE  FALSE
  <2>1. pc'[w] = pc[w] \/ pc'[w] \in {"idle", "lock", "bump", "add"}
    BY <1>3 DEF Call, Receive, Lock, LockPoisoned, Return, IInv, TypeOK
  <2> QED  BY <2>1
<1>4. ASSUME NEW v \in Workers, Step(v)  PROVE v = w
  BY <1>1, <1>4 DEF Step, Bump, Load, Add, NextBid, StoreBid, KeepBid,
     CompareExchange, GetAllocation, PutAllocation, PutPanics, EndSell,
     SumPanics, Metrics, Unlock
<1>5. Step(w)  BY <1>2, <1>3, <1>4 DEF Next
<1>6. StoreBid(w) \/ KeepBid(w) \/ CompareExchange(w)
  BY <1>5 DEF Step, Bump, Load, Add, NextBid, GetAllocation, PutAllocation,
     PutPanics, EndSell, SumPanics, Metrics, Unlock
<1> QED  BY <1>6 DEF StoreBid, KeepBid, CompareExchange, IInv, TypeOK

\* Call preserves the invariant.
LEMMA CallInv ==
    ASSUME IInv, NEW w \in Workers, Call(w)
    PROVE  IInv'
<1> USE DEF IInv
<1>1. TypeOK'
  <2>1. PICK r \in BuyRequest \cup SellRequest :
          /\ req' = [req EXCEPT ![w] = r]
          /\ demand' = IF r.op = "buy" THEN [demand EXCEPT ![r.user] = @ + r.volume]
                                       ELSE demand
    BY DEF Call, Receive
  <2>2. r.op = "buy" => r.user \in Users /\ r.volume \in Nat
    BY <2>1, U64Values DEF BuyRequest, SellRequest
  <2>3. demand' \in [Users -> Nat]  BY <2>1, <2>2 DEF TypeOK
  <2> QED  BY <2>1, <2>3 DEF Call, Receive, TypeOK, Labels
<1>2. LockDiscipline'
  BY DEF Call, Receive, LockDiscipline, TypeOK
<1>3. BookKeys'
  BY DEF Call, Receive, BookKeys
<1>4. VisitOrder'
  BY DEF Call, Receive, VisitOrder
<1>5. Taken'
  BY DEF Call, Receive, Taken
<1>6. NothingPassedOver'
  BY DEF Call, Receive, NothingPassedOver
<1>7. NoIdleSupply'
  BY DEF Call, Receive, NoIdleSupply
<1>8. ReadsStayFresh'
  <2>1. \A v \in Workers : pc'[v] \in {"try", "put"} => pc'[v] = pc[v]
    BY DEF Call, Receive, TypeOK
  <2>2. \A u : Held(u)' = Held(u)  BY DEF Call, Receive, Held
  <2> QED  BY <2>1, <2>2 DEF Call, Receive, ReadsStayFresh
<1> QED  BY <1>1, <1>2, <1>3, <1>4, <1>5, <1>6, <1>7, <1>8

\* Lock preserves the invariant.
LEMMA LockInv ==
    ASSUME IInv, NEW w \in Workers, Lock(w)
    PROVE  IInv'
<1> USE DEF IInv
<1>1. TypeOK'
  BY DEF Lock, TypeOK, Labels
<1>2. LockDiscipline'
  <2>1. req[w].op # "buy" => req[w].op = "sell"
    BY DEF Lock, LockDiscipline, BuyRequest, SellRequest
  <2>2. \A v \in Workers : pc[v] \in {"idle", "lock"}
    BY ConstantsAssumption DEF Lock, LockDiscipline
  <2> QED  BY <2>1, <2>2 DEF Lock, LockDiscipline, TypeOK
<1>3. BookKeys'
  BY DEF Lock, BookKeys
<1>4. VisitOrder'
  BY DEF Lock, VisitOrder
<1>5. Taken'
  BY DEF Lock, Taken
<1>6. NothingPassedOver'
  <2>1. \A v \in Workers : v # w => pc'[v] \in {"idle", "lock"}
    BY ConstantsAssumption DEF Lock, LockDiscipline, TypeOK
  <2>2. supply > 0 => bids = {}  BY DEF Lock, NoIdleSupply
  <2>3. pc'[w] \in {"bump", "add"}  BY DEF Lock, TypeOK
  <2>4. UNCHANGED <<supply, bids, todo, bid, req>>  BY DEF Lock
  <2> QED  BY <2>1, <2>2, <2>3, <2>4 DEF NothingPassedOver
<1>7. NoIdleSupply'
  BY DEF Lock, NoIdleSupply
<1>8. ReadsStayFresh'
  BY ConstantsAssumption DEF Lock, ReadsStayFresh, TypeOK, LockDiscipline
<1> QED  BY <1>1, <1>2, <1>3, <1>4, <1>5, <1>6, <1>7, <1>8

\* LockPoisoned preserves the invariant.
LEMMA LockPoisonedInv ==
    ASSUME IInv, NEW w \in Workers, LockPoisoned(w)
    PROVE  IInv'
<1> USE DEF IInv
<1>1. TypeOK'
  BY U64Values DEF LockPoisoned, Return, TypeOK, Labels
<1>2. LockDiscipline'
  BY DEF LockPoisoned, Return, LockDiscipline, TypeOK
<1>3. BookKeys'
  BY DEF LockPoisoned, Return, BookKeys
<1>4. VisitOrder'
  BY DEF LockPoisoned, Return, VisitOrder
<1>5. Taken'
  BY DEF LockPoisoned, Return, Taken
<1>6. NothingPassedOver'
  BY DEF LockPoisoned, Return, NothingPassedOver
<1>7. NoIdleSupply'
  BY DEF LockPoisoned, Return, NoIdleSupply
<1>8. ReadsStayFresh'
  BY ConstantsAssumption DEF LockPoisoned, Return, ReadsStayFresh, TypeOK,
     LockDiscipline
<1> QED  BY <1>1, <1>2, <1>3, <1>4, <1>5, <1>6, <1>7, <1>8

\* Bump preserves the invariant.
LEMMA BumpInv ==
    ASSUME IInv, NEW w \in Workers, Bump(w)
    PROVE  IInv'
<1> USE DEF IInv
<1>0. /\ holder = w /\ ~poisoned
      /\ \A v \in Workers : v # w => pc[v] \in Waiting
  BY OneInside DEF Bump
<1>1. TypeOK'
  <2>1. \E b \in Bid : bid' = [bid EXCEPT ![w] = b]  BY BumpedBid
  <2> QED  BY <2>1 DEF Bump, TypeOK, Labels
<1>2. LockDiscipline'
  <2>1. \E b \in Bid : bid' = [bid EXCEPT ![w] = b]  BY BumpedBid
  <2>2. bid'[w] \in Bid /\ \A v \in Workers : v # w => bid'[v] = bid[v]
    BY <2>1 DEF TypeOK
  <2> QED  BY <1>0, <2>2 DEF Bump, LockDiscipline, TypeOK
<1>3. BookKeys'
  <2>1. /\ buy_seq_no' = buy_seq_no + 1 /\ buy_seq_no \in Nat
        /\ bids' = bids /\ bid'[w].seq = buy_seq_no + 1
    BY DEF Bump, TypeOK
  <2>2. \A b \in bids : b.seq \in Nat /\ b.seq < buy_seq_no + 1
    BY <2>1, BidValues DEF BookKeys, TypeOK
  <2>3. \A v \in Workers : v # w => pc'[v] \in {"idle", "lock"}
    BY <1>0 DEF Bump, TypeOK
  <2>4. \A b \in bids : b.seq <= buy_seq_no + 1  BY <2>1, <2>2
  <2> QED  BY <2>1, <2>2, <2>3, <2>4 DEF BookKeys
<1>4. VisitOrder'
  BY DEF Bump, VisitOrder
<1>5. Taken'
  BY DEF Bump, Taken
<1>6. NothingPassedOver'
  BY DEF Bump, NothingPassedOver
<1>7. NoIdleSupply'
  BY DEF Bump, NoIdleSupply
<1>8. ReadsStayFresh'
  BY <1>0 DEF Bump, ReadsStayFresh, TypeOK
<1> QED  BY <1>1, <1>2, <1>3, <1>4, <1>5, <1>6, <1>7, <1>8

\* Load preserves the invariant.
LEMMA LoadInv ==
    ASSUME IInv, NEW w \in Workers, Load(w)
    PROVE  IInv'
<1> USE DEF IInv
<1>0. /\ holder = w /\ ~poisoned
      /\ \A v \in Workers : v # w => pc[v] \in Waiting
  BY OneInside DEF Load
<1>1. TypeOK'
  BY DEF Load, TypeOK, Labels
<1>2. LockDiscipline'
  <2>1. /\ pc'[w] = "try" /\ \A v \in Workers : v # w => pc'[v] = pc[v]
        /\ UNCHANGED <<holder, poisoned, req, bid>>
    BY DEF Load, TypeOK
  <2>2. bid[w] \in Bid  BY DEF Load, LockDiscipline
  <2> QED  BY <1>0, <2>1, <2>2 DEF Load, LockDiscipline
<1>3. BookKeys'
  BY DEF Load, BookKeys
<1>4. VisitOrder'
  BY <1>0 DEF Load, VisitOrder, TypeOK, LockDiscipline
<1>5. Taken'
  BY DEF Load, Taken
<1>6. NothingPassedOver'
  BY <1>0 DEF Load, NothingPassedOver, TypeOK, LockDiscipline
<1>7. NoIdleSupply'
  BY DEF Load, NoIdleSupply
<1>8. ReadsStayFresh'
  BY <1>0 DEF Load, ReadsStayFresh, TypeOK
<1> QED  BY <1>1, <1>2, <1>3, <1>4, <1>5, <1>6, <1>7, <1>8

\* Add preserves the invariant.
LEMMA AddInv ==
    ASSUME IInv, NEW w \in Workers, Add(w)
    PROVE  IInv'
<1> USE DEF IInv
<1>0. /\ holder = w /\ ~poisoned
      /\ \A v \in Workers : v # w => pc[v] \in Waiting
  BY OneInside DEF Add
<1>1. TypeOK'
  <2>1. req[w] \in SellRequest
    BY DEF Add, LockDiscipline, BuyRequest, SellRequest
  <2>2. req[w].volume \in U64 /\ req[w].volume \in Nat
    BY <2>1, U64Values DEF SellRequest
  <2>3. WrappingAdd(supply, req[w].volume) \in U64
    BY <2>2, ConstantsAssumption DEF WrappingAdd, U64, TypeOK
  <2> QED  BY <2>2, <2>3 DEF Add, TypeOK, Labels
<1>2. LockDiscipline'
  BY DEF Add, LockDiscipline
<1>3. BookKeys'
  BY DEF Add, BookKeys
<1>4. VisitOrder'
  BY DEF Add, VisitOrder, TypeOK
<1>5. Taken'
  BY <1>0 DEF Add, Taken, TypeOK
<1>6. NothingPassedOver'
  BY <1>0 DEF Add, NothingPassedOver, TypeOK, LockDiscipline
<1>7. NoIdleSupply'
  BY <1>0, ConstantsAssumption DEF Add, NoIdleSupply, TypeOK, LockDiscipline
<1>8. ReadsStayFresh'
  BY <1>0 DEF Add, ReadsStayFresh, TypeOK
<1> QED  BY <1>1, <1>2, <1>3, <1>4, <1>5, <1>6, <1>7, <1>8

\* NextBid preserves the invariant.
LEMMA NextBidInv ==
    ASSUME IInv, NEW w \in Workers, NextBid(w)
    PROVE  IInv'
<1> USE DEF IInv
<1>0. /\ holder = w /\ ~poisoned
      /\ \A v \in Workers : v # w => pc[v] \in Waiting
  BY OneInside DEF NextBid
<1>1. TypeOK'
  <2>1. bid'[w] \in Bid  BY NextIsFirst
  <2>2. bid' = [bid EXCEPT ![w] = First(todo[w])]  BY DEF NextBid
  <2>3. First(todo[w]) \in Bid  BY <2>1, <2>2 DEF TypeOK
  <2> QED  BY <2>2, <2>3 DEF NextBid, TypeOK, Labels
<1>2. LockDiscipline'
  <2>1. bid'[w] \in Bid  BY NextIsFirst
  <2> QED  BY <1>0, <2>1 DEF NextBid, LockDiscipline, TypeOK
<1>3. BookKeys'
  BY <1>0 DEF NextBid, BookKeys, TypeOK, LockDiscipline
<1>4. VisitOrder'
  <2>1. /\ todo[w] \subseteq bids /\ bid'[w] \in todo[w]
        /\ todo'[w] = todo[w] \ {bid'[w]}
        /\ \A c \in todo[w] : c = bid'[w] \/ Precedes(bid'[w], c)
    BY NextIsFirst
  <2>2. \A v \in Workers : v # w => pc'[v] \in {"idle", "lock"}
    BY <1>0 DEF NextBid, TypeOK
  <2>3. bids' = bids  BY DEF NextBid
  <2> QED  BY <2>1, <2>2, <2>3 DEF VisitOrder, Precedes
<1>5. Taken'
  BY DEF NextBid, Taken
<1>6. NothingPassedOver'
  <2>1. /\ bid'[w] \in todo[w] /\ todo'[w] = todo[w] \ {bid'[w]}
        /\ req[w].op = "sell"
    BY NextIsFirst DEF NextBid, LockDiscipline
  <2>2. \A v \in Workers : v # w => pc'[v] \in {"idle", "lock"}
    BY <1>0 DEF NextBid, TypeOK
  <2>3. /\ UNCHANGED <<bids, supply, req>> /\ pc'[w] = "try"
        /\ supply > 0 => bids = todo[w]
    BY <2>1 DEF NextBid, TypeOK, NothingPassedOver
  <2> QED  BY <2>1, <2>2, <2>3 DEF NothingPassedOver
<1>7. NoIdleSupply'
  BY DEF NextBid, NoIdleSupply
<1>8. ReadsStayFresh'
  BY <1>0 DEF NextBid, ReadsStayFresh, TypeOK
<1> QED  BY <1>1, <1>2, <1>3, <1>4, <1>5, <1>6, <1>7, <1>8

\* StoreBid preserves the invariant.
LEMMA StoreBidInv ==
    ASSUME IInv, NEW w \in Workers, StoreBid(w)
    PROVE  IInv'
<1> DEFINE stored == [bid[w] EXCEPT !.seq = buy_seq_no]
<1> USE DEF IInv
<1>0. /\ holder = w /\ ~poisoned
      /\ \A v \in Workers : v # w => pc[v] \in Waiting
  BY OneInside DEF StoreBid
<1>1. TypeOK'
  <2>1. /\ stored \in Bid /\ bids' = bids \cup {stored}
    BY StoreBidEffect
  <2>2. IsFiniteSet(bids')  BY <2>1, FS_AddElement DEF TypeOK
  <2> QED  BY <2>1, <2>2 DEF StoreBid, TypeOK, Labels
<1>2. LockDiscipline'
  BY DEF StoreBid, LockDiscipline
<1>3. BookKeys'
  <2>1. /\ stored.seq = buy_seq_no /\ bids' = bids \cup {stored}
        /\ \A b \in bids : b.seq < buy_seq_no
    BY StoreBidEffect
  <2>2. \A v \in Workers : pc'[v] \in {"idle", "lock", "metrics"}
    BY <1>0 DEF StoreBid, TypeOK
  <2>3. buy_seq_no' = buy_seq_no /\ buy_seq_no \in Nat
    BY DEF StoreBid, TypeOK
  <2>4. \A b \in bids : b.seq \in Nat /\ b.seq # stored.seq
    BY <2>1, <2>3, BidValues DEF TypeOK
  <2>5. \A b \in bids' : b.seq <= buy_seq_no
    <3>1. \A b \in bids : b.seq <= buy_seq_no  BY <2>3, <2>4, <2>1
    <3>2. stored.seq <= buy_seq_no  BY <2>1, <2>3
    <3> HIDE DEF stored
    <3> QED  BY <2>1, <3>1, <3>2
  <2>6. \A b, c \in bids' : b.seq = c.seq => b = c
    BY <2>1, <2>4 DEF BookKeys
  <2> QED  BY <2>2, <2>3, <2>5, <2>6 DEF BookKeys
<1>4. VisitOrder'
  BY <1>0 DEF StoreBid, VisitOrder, TypeOK
<1>5. Taken'
  BY DEF StoreBid, Taken
<1>6. NothingPassedOver'
  <2>1. supply = 0  BY DEF StoreBid, ReadsStayFresh
  <2> QED  BY <2>1 DEF StoreBid, NothingPassedOver
<1>7. NoIdleSupply'
  BY <1>0, ConstantsAssumption DEF StoreBid, NoIdleSupply, TypeOK,
     LockDiscipline
<1>8. ReadsStayFresh'
  BY <1>0 DEF StoreBid, ReadsStayFresh, TypeOK
<1> QED  BY <1>1, <1>2, <1>3, <1>4, <1>5, <1>6, <1>7, <1>8

\* KeepBid preserves the invariant.
LEMMA KeepBidInv ==
    ASSUME IInv, NEW w \in Workers, KeepBid(w)
    PROVE  IInv'
<1> USE DEF IInv
<1>0. /\ holder = w /\ ~poisoned
      /\ \A v \in Workers : v # w => pc[v] \in Waiting
  BY OneInside DEF KeepBid
<1>1. TypeOK'
  BY DEF KeepBid, TypeOK, Labels
<1>2. LockDiscipline'
  BY DEF KeepBid, LockDiscipline
<1>3. BookKeys'
  BY DEF KeepBid, BookKeys
<1>4. VisitOrder'
  BY DEF KeepBid, VisitOrder
<1>5. Taken'
  BY DEF KeepBid, Taken
<1>6. NothingPassedOver'
  <2>1. supply = 0  BY DEF KeepBid, ReadsStayFresh
  <2> QED  BY <2>1 DEF KeepBid, NothingPassedOver
<1>7. NoIdleSupply'
  BY DEF KeepBid, NoIdleSupply
<1>8. ReadsStayFresh'
  BY <1>0 DEF KeepBid, ReadsStayFresh, TypeOK
<1> QED  BY <1>1, <1>2, <1>3, <1>4, <1>5, <1>6, <1>7, <1>8

\* CompareExchange preserves the invariant.
LEMMA CompareExchangeInv ==
    ASSUME IInv, NEW w \in Workers, CompareExchange(w)
    PROVE  IInv'
<1> USE DEF IInv
<1>0. /\ holder = w /\ ~poisoned
      /\ \A v \in Workers : v # w => pc[v] \in Waiting
  BY OneInside DEF CompareExchange
<1>1. TypeOK'
  <2>1. bid[w].volume \in U64
    BY BidValues DEF CompareExchange, LockDiscipline
  <2>2. SaturatingSub(current[w], bid[w].volume) \in U64
    BY <2>1, Saturating DEF TypeOK
  <2> QED  BY <2>2 DEF CompareExchange, TypeOK, Labels
<1>2. LockDiscipline'
  BY DEF CompareExchange, LockDiscipline, TypeOK
<1>3. BookKeys'
  BY DEF CompareExchange, BookKeys, TypeOK
<1>4. VisitOrder'
  BY DEF CompareExchange, VisitOrder, TypeOK
<1>5. Taken'
  BY <1>0 DEF CompareExchange, Taken, TypeOK
<1>6. NothingPassedOver'
  <2>1. supply' > 0 => supply > 0
    <3>1. supply \in Nat /\ current[w] \in Nat /\ current[w] # 0
      BY U64Values DEF TypeOK, CompareExchange
    <3> QED  BY <3>1 DEF CompareExchange, ReadsStayFresh
  <2>2. /\ UNCHANGED <<bids, todo, bid, req>> /\ pc'[w] \in {"try", "get"}
        /\ pc[w] = "try"
    BY DEF CompareExchange, TypeOK
  <2>3. \A v \in Workers : v # w => pc'[v] \in {"idle", "lock"}
    BY <1>0 DEF CompareExchange, TypeOK
  <2> QED  BY <2>1, <2>2, <2>3 DEF NothingPassedOver
<1>7. NoIdleSupply'
  BY <1>0, ConstantsAssumption DEF CompareExchange, NoIdleSupply, TypeOK,
     LockDiscipline
<1>8. ReadsStayFresh'
  BY <1>0 DEF CompareExchange, ReadsStayFresh, TypeOK
<1> QED  BY <1>1, <1>2, <1>3, <1>4, <1>5, <1>6, <1>7, <1>8

\* GetAllocation preserves the invariant.
LEMMA GetAllocationInv ==
    ASSUME IInv, NEW w \in Workers, GetAllocation(w)
    PROVE  IInv'
<1> USE DEF IInv
<1>0. /\ holder = w /\ ~poisoned
      /\ \A v \in Workers : v # w => pc[v] \in Waiting
  BY OneInside DEF GetAllocation
<1>1. TypeOK'
  <2>1. Held(bid[w].user) \in U64  BY U64Values DEF Held, TypeOK
  <2> QED  BY <2>1 DEF GetAllocation, TypeOK, Labels
<1>2. LockDiscipline'
  BY DEF GetAllocation, LockDiscipline
<1>3. BookKeys'
  BY DEF GetAllocation, BookKeys
<1>4. VisitOrder'
  BY DEF GetAllocation, VisitOrder
<1>5. Taken'
  BY DEF GetAllocation, Taken
<1>6. NothingPassedOver'
  BY DEF GetAllocation, NothingPassedOver
<1>7. NoIdleSupply'
  BY DEF GetAllocation, NoIdleSupply
<1>8. ReadsStayFresh'
  <2>1. \A v \in Workers : pc'[v] = "put" => v = w  BY <1>0 DEF GetAllocation, TypeOK
  <2>2. \A v \in Workers : pc'[v] # "try"  BY <1>0 DEF GetAllocation, TypeOK
  <2>3. held'[w] = Held(bid[w].user) /\ bid' = bid  BY DEF GetAllocation, TypeOK
  <2>4. Held(bid[w].user)' = Held(bid[w].user)  BY <2>3 DEF GetAllocation, Held
  <2> QED  BY <2>1, <2>2, <2>3, <2>4 DEF ReadsStayFresh
<1> QED  BY <1>1, <1>2, <1>3, <1>4, <1>5, <1>6, <1>7, <1>8

\* PutAllocation preserves the invariant.
LEMMA PutAllocationInv ==
    ASSUME IInv, NEW w \in Workers, PutAllocation(w)
    PROVE  IInv'
<1> USE DEF IInv
<1>0. /\ holder = w /\ ~poisoned
      /\ \A v \in Workers : v # w => pc[v] \in Waiting
  BY OneInside DEF PutAllocation
<1>1. TypeOK'
  <2>1. /\ bid[w].user \in Users /\ Fill(w) \in U64 /\ held[w] \in U64
    BY SettleEffect, BidValues, FillValues DEF PutAllocation, TypeOK
  <2>2. WrappingAdd(held[w], Fill(w)) \in U64
    BY <2>1, ConstantsAssumption DEF WrappingAdd, U64
  <2>3. /\ DOMAIN allocations' \subseteq Users
        /\ allocations' \in [DOMAIN allocations' -> U64]
    BY <2>1, <2>2 DEF PutAllocation, TypeOK
  <2>4. IsFiniteSet(DOMAIN allocations')
    <3>1. DOMAIN allocations' = DOMAIN allocations \cup {bid[w].user}
      BY DEF PutAllocation
    <3>2. IsFiniteSet(DOMAIN allocations \cup {bid[w].user})
      BY FS_AddElement DEF TypeOK
    <3> QED  BY <3>1, <3>2
  <2>5. bids' \subseteq Bid /\ IsFiniteSet(bids')
    <3>1. bids' = Settle(w)  BY DEF PutAllocation
    <3>2. IsFiniteSet(bids \ {bid[w]})  BY FS_RemoveElement DEF TypeOK
    <3>3. \A rest : /\ IsFiniteSet(bids \cup {rest})
                     /\ IsFiniteSet((bids \ {bid[w]}) \cup {rest})
      BY <3>2, FS_AddElement DEF TypeOK
    <3>4. IsFiniteSet(Settle(w)) /\ Settle(w) \subseteq Bid
      <4>1. bids \subseteq Bid /\ IsFiniteSet(bids) /\ pc[w] = "put"
        BY DEF PutAllocation, TypeOK
      <4>2. IsFiniteSet(Settle(w))  BY <3>2, <3>3, <4>1, SettleEffect
      <4>3. Settle(w) \subseteq Bid  BY <4>1, SettleEffect
      <4> QED  BY <4>2, <4>3
    <3> QED  BY <3>1, <3>4
  <2> QED  BY <2>3, <2>4, <2>5 DEF PutAllocation, TypeOK, Labels
<1>2. LockDiscipline'
  <2>1. req[w].op \in {"buy", "sell"}  BY SettleEffect DEF PutAllocation
  <2> QED  BY <1>0, <2>1 DEF PutAllocation, LockDiscipline, TypeOK
<1>3. BookKeys'
  <2>1. /\ bids' = Settle(w) /\ buy_seq_no' = buy_seq_no /\ pc[w] = "put"
        /\ \A v \in Workers : pc'[v] \in {"idle", "lock", "metrics", "next"}
    BY <1>0 DEF PutAllocation, TypeOK
  <2>2. /\ \A b \in bids' : b.seq <= buy_seq_no
        /\ \A b, c \in bids' : b.seq = c.seq => b = c
    <3>1. buy_seq_no \in Nat /\ \A b \in bids : b.seq \in Nat
      BY BidValues DEF TypeOK
    <3>2. CASE req[w].op = "buy"
      <4>1. \A b \in bids : b.seq # buy_seq_no
        BY <2>1, <3>1, <3>2 DEF BookKeys
      <4> QED  BY <2>1, <3>1, <3>2, <4>1, SettleEffect DEF BookKeys
    <3>3. CASE req[w].op = "sell"
      <4>1. bid[w] \in bids  BY <2>1, <3>3 DEF VisitOrder
      <4> QED  BY <2>1, <3>1, <3>3, <4>1, SettleEffect DEF BookKeys
    <3> QED  BY <2>1, <3>2, <3>3, SettleEffect
  <2> QED  BY <2>1, <2>2 DEF BookKeys
<1>4. VisitOrder'
  <2>1. /\ bids' = Settle(w) /\ pc[w] = "put" /\ UNCHANGED <<todo, req>>
        /\ \A v \in Workers : pc'[v] \in {"idle", "lock", "metrics", "next"}
        /\ \A v \in Workers : v # w => pc'[v] \in {"idle", "lock"}
    BY <1>0 DEF PutAllocation, TypeOK
  <2>2. req[w].op = "sell" => todo[w] \subseteq bids \ {bid[w]}
    BY <2>1 DEF VisitOrder
  <2>3. pc'[w] = "next" => req[w].op = "sell"
    BY SettleEffect DEF PutAllocation, TypeOK
  <2>4. req[w].op = "sell" => bids \ {bid[w]} \subseteq Settle(w)
    BY <2>1, SettleEffect
  <2> QED  BY <2>1, <2>2, <2>3, <2>4 DEF VisitOrder
<1>5. Taken'
  BY DEF PutAllocation, Taken
<1>6. NothingPassedOver'
  <2>1. /\ bids' = Settle(w) /\ pc[w] = "put" /\ UNCHANGED <<supply, todo, req>>
        /\ pc'[w] = IF req[w].op = "buy" THEN "metrics" ELSE "next"
        /\ \A v \in Workers : v # w => pc'[v] \in {"idle", "lock"}
    BY <1>0 DEF PutAllocation, TypeOK
  <2>2. supply > 0 /\ req[w].op = "buy" => Settle(w) = {}
    BY <2>1, SettleEffect DEF NothingPassedOver
  <2>3. supply > 0 /\ req[w].op = "sell" => Settle(w) = todo[w]
    <3>1. supply > 0 /\ req[w].op = "sell" => Settle(w) = bids \ {bid[w]}
      BY <2>1, SettleEffect
    <3>2. supply > 0 /\ req[w].op = "sell" => bids = todo[w] \cup {bid[w]}
      BY <2>1 DEF NothingPassedOver
    <3>3. req[w].op = "sell" => bid[w] \notin todo[w]
      BY <2>1 DEF VisitOrder
    <3> QED  BY <3>1, <3>2, <3>3
  <2> QED  BY <2>1, <2>2, <2>3, SettleEffect DEF NothingPassedOver
<1>7. NoIdleSupply'
  BY <1>0, ConstantsAssumption DEF PutAllocation, NoIdleSupply, TypeOK,
     LockDiscipline
<1>8. ReadsStayFresh'
  BY <1>0 DEF PutAllocation, ReadsStayFresh, TypeOK
<1> QED  BY <1>1, <1>2, <1>3, <1>4, <1>5, <1>6, <1>7, <1>8

\* PutPanics preserves the invariant.
LEMMA PutPanicsInv ==
    ASSUME IInv, NEW w \in Workers, PutPanics(w)
    PROVE  IInv'
<1> USE DEF IInv
<1>0. /\ holder = w /\ ~poisoned
      /\ \A v \in Workers : v # w => pc[v] \in Waiting
  BY OneInside DEF PutPanics
<1>1. TypeOK'
  BY U64Values, <1>0 DEF PutPanics, Panic, Return, TypeOK, Labels
<1>2. LockDiscipline'
  BY <1>0, ConstantsAssumption DEF PutPanics, Return, Panic, LockDiscipline,
     TypeOK
<1>3. BookKeys'
  BY DEF PutPanics, Return, Panic, BookKeys, TypeOK
<1>4. VisitOrder'
  BY DEF PutPanics, Return, Panic, VisitOrder, TypeOK
<1>5. Taken'
  BY DEF PutPanics, Return, Panic, Taken, TypeOK
<1>6. NothingPassedOver'
  BY DEF PutPanics, Return, Panic, NothingPassedOver, TypeOK
<1>7. NoIdleSupply'
  BY DEF PutPanics, Return, Panic, NoIdleSupply
<1>8. ReadsStayFresh'
  BY <1>0 DEF PutPanics, Return, Panic, ReadsStayFresh, TypeOK
<1> QED  BY <1>1, <1>2, <1>3, <1>4, <1>5, <1>6, <1>7, <1>8

\* EndSell preserves the invariant.
LEMMA EndSellInv ==
    ASSUME IInv, NEW w \in Workers, EndSell(w)
    PROVE  IInv'
<1> USE DEF IInv
<1>0. /\ holder = w /\ ~poisoned
      /\ \A v \in Workers : v # w => pc[v] \in Waiting
  BY OneInside DEF EndSell
<1>1. TypeOK'
  BY DEF EndSell, TypeOK, Labels
<1>2. LockDiscipline'
  BY DEF EndSell, LockDiscipline
<1>3. BookKeys'
  BY DEF EndSell, BookKeys
<1>4. VisitOrder'
  BY DEF EndSell, VisitOrder
<1>5. Taken'
  BY DEF EndSell, Taken
<1>6. NothingPassedOver'
  BY <1>0 DEF EndSell, NothingPassedOver, TypeOK, LockDiscipline
<1>7. NoIdleSupply'
  BY DEF EndSell, NoIdleSupply
<1>8. ReadsStayFresh'
  BY <1>0 DEF EndSell, ReadsStayFresh, TypeOK
<1> QED  BY <1>1, <1>2, <1>3, <1>4, <1>5, <1>6, <1>7, <1>8

\* SumPanics preserves the invariant.
LEMMA SumPanicsInv ==
    ASSUME IInv, NEW w \in Workers, SumPanics(w)
    PROVE  IInv'
<1> USE DEF IInv
<1>0. /\ holder = w /\ ~poisoned
      /\ \A v \in Workers : v # w => pc[v] \in Waiting
  BY OneInside DEF SumPanics
<1>1. TypeOK'
  BY U64Values, <1>0 DEF SumPanics, Panic, Return, TypeOK, Labels
<1>2. LockDiscipline'
  BY <1>0, ConstantsAssumption DEF SumPanics, Return, Panic, LockDiscipline,
     TypeOK
<1>3. BookKeys'
  BY DEF SumPanics, Return, Panic, BookKeys
<1>4. VisitOrder'
  BY DEF SumPanics, Return, Panic, VisitOrder
<1>5. Taken'
  BY DEF SumPanics, Return, Panic, Taken
<1>6. NothingPassedOver'
  BY DEF SumPanics, Return, Panic, NothingPassedOver, TypeOK
<1>7. NoIdleSupply'
  BY DEF SumPanics, Return, Panic, NoIdleSupply
<1>8. ReadsStayFresh'
  BY <1>0 DEF SumPanics, Return, Panic, ReadsStayFresh, TypeOK
<1> QED  BY <1>1, <1>2, <1>3, <1>4, <1>5, <1>6, <1>7, <1>8

\* Metrics preserves the invariant.
LEMMA MetricsInv ==
    ASSUME IInv, NEW w \in Workers, Metrics(w)
    PROVE  IInv'
<1> USE DEF IInv
<1>0. /\ holder = w /\ ~poisoned
      /\ \A v \in Workers : v # w => pc[v] \in Waiting
  BY OneInside DEF Metrics
<1>1. TypeOK'
  <2>1. Cardinality(bids) \in Nat  BY FS_CardinalityType DEF TypeOK
  <2>2. gauges' \in [open_bids : Nat, supply : U64]  BY <2>1 DEF Metrics, TypeOK
  <2> QED  BY <2>2 DEF Metrics, TypeOK, Labels
<1>2. LockDiscipline'
  BY DEF Metrics, LockDiscipline
<1>3. BookKeys'
  BY DEF Metrics, BookKeys
<1>4. VisitOrder'
  BY DEF Metrics, VisitOrder
<1>5. Taken'
  BY DEF Metrics, Taken
<1>6. NothingPassedOver'
  BY <1>0 DEF Metrics, NothingPassedOver, TypeOK, LockDiscipline
<1>7. NoIdleSupply'
  BY DEF Metrics, NoIdleSupply
<1>8. ReadsStayFresh'
  BY <1>0 DEF Metrics, ReadsStayFresh, TypeOK
<1> QED  BY <1>1, <1>2, <1>3, <1>4, <1>5, <1>6, <1>7, <1>8

\* Unlock preserves the invariant.
LEMMA UnlockInv ==
    ASSUME IInv, NEW w \in Workers, Unlock(w)
    PROVE  IInv'
<1> USE DEF IInv
<1>0. /\ holder = w /\ ~poisoned
      /\ \A v \in Workers : v # w => pc[v] \in Waiting
  BY OneInside DEF Unlock
<1>1. TypeOK'
  BY U64Values, <1>0 DEF Unlock, Return, TypeOK, Labels
<1>2. LockDiscipline'
  BY <1>0, ConstantsAssumption DEF Unlock, Return, LockDiscipline, TypeOK
<1>3. BookKeys'
  BY DEF Unlock, Return, BookKeys
<1>4. VisitOrder'
  BY DEF Unlock, Return, VisitOrder
<1>5. Taken'
  BY DEF Unlock, Return, Taken
<1>6. NothingPassedOver'
  BY DEF Unlock, Return, NothingPassedOver
<1>7. NoIdleSupply'
  <2>1. supply > 0 => bids = {}  BY <1>0 DEF Unlock, NothingPassedOver
  <2> QED  BY <2>1 DEF Unlock, NoIdleSupply
<1>8. ReadsStayFresh'
  BY <1>0 DEF Unlock, Return, ReadsStayFresh, TypeOK
<1> QED  BY <1>1, <1>2, <1>3, <1>4, <1>5, <1>6, <1>7, <1>8

\* A new engine satisfies the invariant.
LEMMA InitInv == Init => IInv
<1> SUFFICES ASSUME Init PROVE IInv  OBVIOUS
<1>1. TypeOK
  <2>1. IsFiniteSet({})  BY FS_EmptySet
  <2> QED  BY <2>1, U64Values DEF Init, TypeOK, Labels
<1>2. LockDiscipline  BY ConstantsAssumption DEF Init, LockDiscipline
<1>3. BookKeys /\ VisitOrder /\ Taken
  BY DEF Init, BookKeys, VisitOrder, Taken
<1>4. NothingPassedOver /\ NoIdleSupply /\ ReadsStayFresh
  BY DEF Init, NothingPassedOver, NoIdleSupply, ReadsStayFresh
<1> QED  BY <1>1, <1>2, <1>3, <1>4 DEF IInv

\* So does a state in which nothing changed.
LEMMA StutterInv == ASSUME IInv, UNCHANGED vars PROVE IInv'
<1> USE DEF vars, locals
<1>1. TypeOK'  BY DEF IInv, TypeOK
<1>2. LockDiscipline' /\ BookKeys' /\ VisitOrder' /\ Taken'
  BY DEF IInv, LockDiscipline, BookKeys, VisitOrder, Taken
<1>3. NothingPassedOver' /\ NoIdleSupply'
  BY DEF IInv, NothingPassedOver, NoIdleSupply
<1>4. ReadsStayFresh'  BY DEF IInv, ReadsStayFresh, Held
<1> QED  BY <1>1, <1>2, <1>3, <1>4 DEF IInv

\* Every step of every worker keeps the invariant.
LEMMA InvStep == ASSUME IInv, [Next]_vars PROVE IInv'
<1>1. ASSUME NEW w \in Workers, Call(w) \/ Lock(w) \/ LockPoisoned(w)
      PROVE  IInv'
  BY <1>1, CallInv, LockInv, LockPoisonedInv
<1>2. ASSUME NEW w \in Workers, Step(w)  PROVE IInv'
  BY <1>2, BumpInv, LoadInv, AddInv, NextBidInv, StoreBidInv, KeepBidInv,
     CompareExchangeInv, GetAllocationInv, PutAllocationInv, PutPanicsInv,
     EndSellInv, SumPanicsInv, MetricsInv, UnlockInv DEF Step
<1>3. CASE UNCHANGED vars  BY <1>3, StutterInv
<1>4. CASE Finished  BY <1>4, StutterInv DEF Finished
<1> QED  BY <1>1, <1>2, <1>3, <1>4 DEF Next

\* The conjunction is inductive: it holds of a new engine and every step of
\* every worker keeps it.
THEOREM Invariant == Spec => []IInv
BY InitInv, InvStep, PTL DEF Spec

\* Every variable keeps to its type; in particular supply and every allocation
\* stay within a u64.
THEOREM TypeCorrect == Spec => []TypeOK
<1>1. IInv => TypeOK  BY DEF IInv
<1> QED  BY Invariant, <1>1, PTL

\* Whenever the lock is free and not poisoned, leftover supply means an empty
\* book: no buyer waits while there is something to sell.
THEOREM LeftoverIsServed == Spec => []NoIdleSupply
<1>1. IInv => NoIdleSupply  BY DEF IInv
<1> QED  BY Invariant, <1>1, PTL

\* The CAS of buy_impl and sell_impl never fails, and the allocation a worker
\* has read is still the allocation when it writes it back.
THEOREM NoLostUpdate == Spec => []ReadsStayFresh
<1>1. IInv => ReadsStayFresh  BY DEF IInv
<1> QED  BY Invariant, <1>1, PTL

\* Supply is only ever taken for the first bid of the book.
THEOREM FillsInOrder == Spec => PriceTimePriority
<1> DEFINE First2(w) == At(w, "try") /\ pc'[w] = "get" =>
                 \A c \in bids : c = bid[w] \/ Precedes(bid[w], c)
<1>1. ASSUME IInv, [Next]_vars, NEW w \in Workers,
             pc[w] = "try", pc'[w] = "get"
      PROVE  \A c \in bids : c = bid[w] \/ Precedes(bid[w], c)
  <2>1. current[w] # 0  BY <1>1, TryEnds
  <2>2. supply > 0
    <3>1. supply = current[w] /\ supply \in Nat
      BY <1>1, U64Values DEF IInv, TypeOK, ReadsStayFresh
    <3> QED  BY <2>1, <3>1
  <2>3. CASE req[w].op = "buy"
    BY <1>1, <2>2, <2>3 DEF IInv, NothingPassedOver
  <2>4. CASE req[w].op = "sell"
    <3>1. bids = todo[w] \cup {bid[w]}
      BY <1>1, <2>2, <2>4 DEF IInv, NothingPassedOver
    <3>2. \A c \in todo[w] : Precedes(bid[w], c)
      BY <1>1, <2>4 DEF IInv, VisitOrder
    <3> QED  BY <3>1, <3>2
  <2>5. req[w].op \in {"buy", "sell"}
    BY <1>1 DEF IInv, LockDiscipline, BuyRequest, SellRequest
  <2> QED  BY <2>3, <2>4, <2>5
<1>2. IInv /\ [Next]_vars => [\A w \in Workers : First2(w)]_vars
  BY <1>1
<1> QED  BY Invariant, <1>2, PTL DEF Spec, PriceTimePriority

\* After a panic with the lock held, supply, book, allocations and gauges
\* never change again.
THEOREM PoisonIsFinal == Spec => PoisonFreezes
<1> DEFINE Frozen == poisoned => poisoned' /\ UNCHANGED <<shared, holder>>
<1>1. IInv /\ [Next]_vars => [Frozen]_vars
  <2> SUFFICES ASSUME IInv, [Next]_vars, poisoned
               PROVE  poisoned' /\ UNCHANGED <<shared, holder>>
    OBVIOUS
  <2>1. \A w \in Workers : pc[w] \in {"idle", "lock"}
    BY ConstantsAssumption DEF IInv, LockDiscipline
  <2>2. ASSUME NEW w \in Workers, Call(w) \/ Lock(w) \/ LockPoisoned(w)
        PROVE  poisoned' /\ UNCHANGED <<shared, holder>>
    BY <2>2 DEF Call, Receive, Lock, LockPoisoned
  <2>3. ASSUME NEW w \in Workers, Step(w)  PROVE FALSE
    BY <2>1, <2>3 DEF Step, Bump, Load, Add, NextBid, StoreBid, KeepBid,
       CompareExchange, GetAllocation, PutAllocation, PutPanics, EndSell,
       SumPanics, Metrics, Unlock
  <2>4. CASE UNCHANGED vars  BY <2>4 DEF vars
  <2>5. CASE Finished  BY <2>5 DEF Finished, vars
  <2> QED  BY <2>2, <2>3, <2>4, <2>5 DEF Next
<1> QED  BY Invariant, <1>1, PTL DEF Spec, PoisonFreezes

\* What the worker with the lock has taken from supply and not given yet.
InHand == IF holder = NoWorker THEN 0 ELSE InFlight(holder)

\* NobodyHoldsMoreThanSold is not inductive: the volume between the CAS and the
\* insert, and the supply it comes from, count as well.
Backed == \A u \in Users : Held(u) + supply + InHand <= offered

\* The amounts are natural numbers.
LEMMA Amounts ==
    ASSUME IInv
    PROVE  /\ supply \in Nat /\ offered \in Nat /\ InHand \in Nat
           /\ \A u \in Users : Held(u) \in Nat
<1>1. supply \in Nat /\ offered \in Nat  BY U64Values DEF IInv, TypeOK
<1>2. \A u \in Users : Held(u) \in Nat
  BY U64Values DEF Held, IInv, TypeOK
<1>3. InHand \in Nat
  <2>1. ASSUME holder # NoWorker, pc[holder] \in {"get", "put"}
        PROVE  Fill(holder) \in Nat
    <3>1. holder \in Workers  BY <2>1 DEF IInv, TypeOK
    <3>2. bid[holder] \in Bid
      BY <2>1, <3>1 DEF IInv, LockDiscipline, Filling
    <3> QED  BY <3>1, <3>2, FillValues, U64Values DEF IInv
  <2> QED  BY <2>1 DEF InHand, InFlight
<1> QED  BY <1>1, <1>2, <1>3

\* A step that does not wrap an allocation leaves every user at least as much.
LEMMA GrowStep ==
    ASSUME OverflowChecks = TRUE, IInv, [Next]_vars, NEW u \in Users
    PROVE  Held(u)' >= Held(u)
<1>0. Held(u) \in Nat
  BY U64Values DEF Held, IInv, TypeOK
<1>1. CASE \E w \in Workers : PutAllocation(w)
  <2>1. PICK w \in Workers : PutAllocation(w)  BY <1>1
  <2>2. /\ held[w] = Held(bid[w].user) /\ Fill(w) \in Nat /\ held[w] \in Nat
    BY <2>1, SettleEffect, FillValues, U64Values
    DEF PutAllocation, IInv, TypeOK, ReadsStayFresh
  <2>3. WrappingAdd(held[w], Fill(w)) >= held[w]
    BY <2>1, <2>2, ConstantsAssumption
    DEF PutAllocation, AllocationOverflows, WrappingAdd
  <2>4. CASE u = bid[w].user
    BY <2>1, <2>2, <2>3, <2>4 DEF PutAllocation, Held
  <2>5. CASE u # bid[w].user
    BY <1>0, <2>1, <2>5 DEF PutAllocation, Held
  <2> QED  BY <2>4, <2>5
<1>2. CASE ~\E w \in Workers : PutAllocation(w)
  <2>1. allocations' = allocations
    BY <1>2 DEF Next, Finished, vars, Call, Receive, Lock, LockPoisoned, Step, Bump,
       Load, Add, NextBid, StoreBid, KeepBid, CompareExchange, GetAllocation,
       PutPanics, Panic, EndSell, SumPanics, Metrics, Unlock
  <2> QED  BY <1>0, <2>1 DEF Held
<1> QED  BY <1>1, <1>2

\* In a debug build no user's allocation ever goes down, whatever is sold and
\* bought: the addition that would wrap panics instead.
THEOREM DebugAllocationsGrow ==
    ASSUME OverflowChecks = TRUE
    PROVE  Spec => AllocationNeverDecreases
<1> DEFINE Grows == \A u \in Users : Held(u)' >= Held(u)
<1>1. IInv /\ [Next]_vars => [Grows]_vars
  BY GrowStep
<1> QED  BY Invariant, <1>1, PTL DEF Spec, AllocationNeverDecreases

\* What a debug build has put on the debug page is still held: the page shows
\* no user more than there is, however much happened since it was read.
THEOREM PageIsBacked ==
    ASSUME OverflowChecks = TRUE
    PROVE  DumpSpec => []ShownIsHeld
<1> DEFINE Copy == /\ DOMAIN shown \subseteq Users
                   /\ \A u \in DOMAIN shown : shown[u] \in Nat
           Inv == IInv /\ Copy /\ ShownIsHeld
<1>1. DumpInit => Inv
  BY InitInv DEF DumpInit, ShownIsHeld
<1>2. Inv /\ [Handlers \/ Dump]_<<vars, dump>> => Inv'
  <2> SUFFICES ASSUME Inv, [Handlers \/ Dump]_<<vars, dump>>  PROVE Inv'
    OBVIOUS
  <2>1. [Next]_vars
    BY DEF Handlers, Dump, Index, ReadAtomics, ReadAllocations, ReadBids
  <2>2. IInv'  BY <2>1, InvStep
  <2>3. \A u \in Users : /\ Held(u) \in Nat /\ Held(u)' >= Held(u)
    BY <2>1, GrowStep, Amounts
  <2>4. CASE shown' = shown
    <3>1. ASSUME NEW u \in DOMAIN shown  PROVE shown'[u] <= Held(u)'
      <4>1. /\ u \in Users /\ shown[u] \in Nat /\ shown[u] <= Held(u)
            /\ shown'[u] = shown[u]
        BY <2>4 DEF ShownIsHeld
      <4>2. Held(u) \in Nat /\ Held(u)' \in Nat /\ Held(u) <= Held(u)'
        <5>1. IInv' /\ u \in DOMAIN allocations' => allocations'[u] \in U64
          BY DEF IInv, TypeOK
        <5> QED  BY <2>2, <2>3, <4>1, <5>1, U64Values DEF Held
      <4> QED  BY <4>1, <4>2
    <3> QED  BY <2>2, <2>4, <3>1 DEF ShownIsHeld
  <2>5. CASE ReadAllocations
    <3>1. shown' = allocations /\ allocations' = allocations
      BY <2>5 DEF ReadAllocations, vars
    <3>2. /\ DOMAIN allocations \subseteq Users
          /\ \A u \in DOMAIN allocations : allocations[u] \in Nat
      BY U64Values DEF IInv, TypeOK
    <3>3. Copy' /\ ShownIsHeld'
      BY <3>1, <3>2 DEF ShownIsHeld, Held
    <3> QED  BY <2>2, <3>3
  <2>6. shown' = shown \/ ReadAllocations
    BY DEF Handlers, dump, Dump, Index, ReadAtomics, ReadBids
  <2> QED  BY <2>4, <2>5, <2>6
<1> QED  BY <1>1, <1>2, PTL DEF DumpSpec

\* A step outside the lock changes none of them.
LEMMA OutsideAmounts ==
    ASSUME IInv, NEW w \in Workers, Call(w) \/ Lock(w) \/ LockPoisoned(w)
    PROVE  UNCHANGED <<supply, allocations, offered, poisoned, bids, InHand>>
<1>1. UNCHANGED <<supply, allocations, offered, poisoned, bids>>
  BY DEF Call, Receive, Lock, LockPoisoned
<1>2. InHand' = InHand
  <2>1. CASE Call(w)
    <3>1. holder # w  BY <2>1 DEF Call, Receive, IInv, LockDiscipline
    <3>2. holder' = holder /\ bid' = bid /\ current' = current
      BY <2>1 DEF Call, Receive
    <3>3. holder # NoWorker => pc'[holder] = pc[holder]
      BY <2>1, <3>1 DEF Call, Receive, IInv, TypeOK
    <3> QED  BY <3>2, <3>3 DEF InHand, InFlight, Fill
  <2>2. CASE Lock(w)
    <3>1. holder = NoWorker /\ holder' = w /\ pc'[w] \in {"bump", "add"}
      BY <2>2 DEF Lock, IInv, TypeOK
    <3> QED  BY <3>1, ConstantsAssumption DEF InHand, InFlight
  <2>3. CASE LockPoisoned(w)
    BY <2>3 DEF LockPoisoned, InHand
  <2> QED  BY <2>1, <2>2, <2>3
<1> QED  BY <1>1, <1>2

\* The steps under the lock that move no volume: the worker has nothing in hand
\* before or after, or the same, or drops it in a panic.
LEMMA QuietAmounts ==
    ASSUME IInv, NEW w \in Workers,
           \/ Bump(w) \/ Load(w) \/ NextBid(w) \/ StoreBid(w) \/ KeepBid(w)
           \/ GetAllocation(w) \/ PutPanics(w) \/ EndSell(w) \/ SumPanics(w)
           \/ Metrics(w) \/ Unlock(w)
    PROVE  /\ UNCHANGED <<supply, allocations, offered>>
           /\ InHand' = InHand \/ (InHand' = 0 /\ poisoned')
<1>0. pc[w] \notin Waiting
  BY DEF Bump, Load, NextBid, StoreBid, KeepBid, GetAllocation, PutPanics,
     EndSell, SumPanics, Metrics, Unlock
<1>1. holder = w /\ w # NoWorker  BY <1>0, OneInside, ConstantsAssumption
<1>2. UNCHANGED <<supply, allocations, offered>>
  BY DEF Bump, Load, NextBid, StoreBid, KeepBid, GetAllocation, PutPanics,
     Panic, EndSell, SumPanics, Metrics, Unlock
<1>3. CASE \/ Bump(w) \/ Load(w) \/ NextBid(w) \/ StoreBid(w) \/ KeepBid(w)
           \/ EndSell(w) \/ Metrics(w)
  <2>1. /\ holder' = w /\ pc[w] \notin {"get", "put"}
        /\ pc'[w] \notin {"get", "put"}
    BY <1>1, <1>3 DEF Bump, Load, NextBid, StoreBid, KeepBid, EndSell,
       Metrics, IInv, TypeOK
  <2> QED  BY <1>1, <1>2, <2>1 DEF InHand, InFlight
<1>4. CASE GetAllocation(w)
  <2>1. /\ holder' = w /\ pc[w] = "get" /\ pc'[w] = "put"
        /\ bid' = bid /\ current' = current
    BY <1>1, <1>4 DEF GetAllocation, IInv, TypeOK
  <2> QED  BY <1>1, <1>2, <2>1 DEF InHand, InFlight, Fill
<1>5. CASE PutPanics(w) \/ SumPanics(w)
  BY <1>2, <1>5 DEF PutPanics, SumPanics, Panic, InHand
<1>6. CASE Unlock(w)
  BY <1>1, <1>2, <1>6 DEF Unlock, InHand, InFlight
<1> QED  BY <1>3, <1>4, <1>5, <1>6

\* fetch_add adds the volume sold, or less when it wraps.
LEMMA AddAmounts ==
    ASSUME IInv, NEW w \in Workers, Add(w)
    PROVE  /\ req[w].volume \in Nat
           /\ supply' = WrappingAdd(supply, req[w].volume)
           /\ supply' \in Int /\ supply' <= supply + req[w].volume
           /\ offered' = offered + req[w].volume
           /\ InHand = 0 /\ InHand' = 0
           /\ UNCHANGED <<allocations, poisoned>>
<1>1. holder = w /\ w # NoWorker
  BY OneInside, ConstantsAssumption DEF Add
<1>2. req[w] \in SellRequest
  BY DEF Add, IInv, LockDiscipline, BuyRequest, SellRequest
<1>3. req[w].volume \in Nat  BY <1>2, U64Values DEF SellRequest
<1>4. supply' = WrappingAdd(supply, req[w].volume)  BY DEF Add
<1>5. supply' <= supply + req[w].volume /\ supply' \in Int
  BY <1>3, <1>4, Amounts, ConstantsAssumption DEF WrappingAdd
<1>6. InHand = 0 /\ InHand' = 0
  BY <1>1 DEF Add, InHand, InFlight, IInv, TypeOK
<1> QED  BY <1>3, <1>4, <1>5, <1>6 DEF Add

\* The CAS moves volume from supply into the worker's hand.
LEMMA CompareExchangeAmounts ==
    ASSUME IInv, NEW w \in Workers, CompareExchange(w)
    PROVE  /\ supply' \in Nat /\ InHand = 0 /\ InHand' \in Nat
           /\ supply' + InHand' = supply
           /\ UNCHANGED <<allocations, offered, poisoned>>
<1>1. holder = w /\ w # NoWorker
  BY OneInside, ConstantsAssumption DEF CompareExchange
<1>2. supply = current[w]
  BY DEF CompareExchange, IInv, ReadsStayFresh
<1>3. bid[w] \in Bid  BY DEF CompareExchange, IInv, LockDiscipline
<1>4. bid[w].volume \in Nat  BY <1>3, BidValues
<1>5. /\ supply' = SaturatingSub(supply, bid[w].volume)
      /\ pc'[w] = "get" /\ holder' = w /\ bid' = bid /\ current' = current
      /\ UNCHANGED <<allocations, offered, poisoned>>
  BY <1>1, <1>2 DEF CompareExchange, IInv, TypeOK
<1>6. InHand = 0  BY <1>1 DEF CompareExchange, InHand, InFlight
<1>7. InHand' = Lesser(supply, bid[w].volume)
  BY <1>1, <1>2, <1>5 DEF InHand, InFlight, Fill
<1>8. supply' + InHand' = supply
  BY <1>4, <1>5, <1>7, Amounts DEF SaturatingSub, Lesser
<1>9. supply' \in Nat /\ InHand' \in Nat
  BY <1>4, <1>5, <1>7, Amounts DEF SaturatingSub, Lesser
<1> QED  BY <1>5, <1>6, <1>8, <1>9

\* The insert gives the user what was in hand, or less when it wraps.
LEMMA PutAmounts ==
    ASSUME IInv, NEW w \in Workers, PutAllocation(w)
    PROVE  LET n == Held(bid[w].user) + Fill(w) IN
           /\ bid[w] \in Bid /\ Fill(w) \in Nat
           /\ InHand = Fill(w) /\ InHand' = 0
           /\ UNCHANGED <<supply, offered, poisoned, bid>>
           /\ Held(bid[w].user)' \in Nat
           /\ Held(bid[w].user)' <= n
           /\ OverflowChecks \/ n < Modulus => Held(bid[w].user)' = n
           /\ \A u \in Users : u # bid[w].user => Held(u)' = Held(u)
<1>1. holder = w /\ w # NoWorker
  BY OneInside, ConstantsAssumption DEF PutAllocation
<1>2. bid[w] \in Bid  BY SettleEffect DEF PutAllocation
<1>3. InHand = Fill(w)  BY <1>1 DEF PutAllocation, InHand, InFlight
<1>4. InHand' = 0
  BY <1>1 DEF PutAllocation, InHand, InFlight, IInv, TypeOK
<1>5. held[w] = Held(bid[w].user) /\ held[w] \in Nat /\ held[w] < Modulus
  BY U64Values DEF PutAllocation, IInv, TypeOK, ReadsStayFresh
<1>6. Fill(w) \in Nat /\ Fill(w) < Modulus
  BY <1>2, FillValues, U64Values DEF IInv
<1>7. Held(bid[w].user)' = WrappingAdd(held[w], Fill(w))
  BY DEF PutAllocation, Held
<1>8. /\ WrappingAdd(held[w], Fill(w)) \in Nat
      /\ WrappingAdd(held[w], Fill(w)) <= held[w] + Fill(w)
      /\ held[w] + Fill(w) < Modulus =>
            WrappingAdd(held[w], Fill(w)) = held[w] + Fill(w)
  BY <1>5, <1>6, ConstantsAssumption DEF WrappingAdd
<1>9. OverflowChecks => held[w] + Fill(w) < Modulus
  BY <1>5, <1>6, ConstantsAssumption DEF PutAllocation, AllocationOverflows
<1>10. \A u \in Users : u # bid[w].user => Held(u)' = Held(u)
  BY DEF PutAllocation, Held
<1>11. UNCHANGED <<supply, offered, poisoned, bid>>  BY DEF PutAllocation
<1> QED  BY <1>2, <1>3, <1>4, <1>5, <1>6, <1>7, <1>8, <1>9, <1>10, <1>11

\* Every step of every worker keeps holdings backed: wrapping only makes
\* amounts smaller, and a panic only loses them.
LEMMA BackedStep == ASSUME IInv, Backed, [Next]_vars PROVE Backed'
<1> USE Amounts DEF Backed
<1>1. ASSUME UNCHANGED <<supply, allocations, offered>>,
             InHand' = InHand \/ InHand' = 0
      PROVE  Backed'
  BY <1>1 DEF Held
<1>2. ASSUME NEW w \in Workers, Call(w) \/ Lock(w) \/ LockPoisoned(w)
      PROVE  Backed'
  BY <1>1, <1>2, OutsideAmounts
<1>3. ASSUME NEW w \in Workers, Step(w)  PROVE Backed'
  <2>1. CASE Add(w)
    <3>1. \A u \in Users : Held(u)' = Held(u)  BY <2>1, AddAmounts DEF Held
    <3> QED  BY <2>1, <3>1, AddAmounts
  <2>2. CASE CompareExchange(w)
    <3>1. \A u \in Users : Held(u)' = Held(u)
      BY <2>2, CompareExchangeAmounts DEF Held
    <3> QED  BY <2>2, <3>1, CompareExchangeAmounts
  <2>3. CASE PutAllocation(w)
    <3>1. ASSUME NEW u \in Users  PROVE Held(u)' + supply' + InHand' <= offered'
      BY <2>3, PutAmounts
    <3> QED  BY <3>1
  <2> QED  BY <1>1, <1>3, <2>1, <2>2, <2>3, QuietAmounts DEF Step
<1>4. CASE UNCHANGED vars
  BY <1>1, <1>4 DEF vars, locals, InHand, InFlight, Fill
<1>5. CASE Finished
  BY <1>4, <1>5 DEF Finished
<1> QED  BY <1>2, <1>3, <1>4, <1>5 DEF Next

\* No user ever holds more than was sold, in either build.
THEOREM HoldingsAreBacked == Spec => []NobodyHoldsMoreThanSold
<1>1. Init => Backed
  BY DEF Init, Backed, Held, InHand
<1>2. IInv /\ Backed => NobodyHoldsMoreThanSold
  BY Amounts DEF Backed, NobodyHoldsMoreThanSold
<1> QED  BY Invariant, <1>1, BackedStep, <1>2, PTL DEF Spec
-----------------------------------------------------------------------------
(* Conservation: what the sums of the books do. *)

\* Only the worker with the lock has taken supply that it has not given yet.
LEMMA InHandOnly ==
    ASSUME IInv
    PROVE  SumFunction([w \in Workers |-> InFlight(w)]) = InHand
<1> DEFINE flight == [w \in Workers |-> InFlight(w)]
<1>0. SumFunction(flight) = SumFunctionOnSet(flight, Workers)
  BY DEF SumFunction
<1>1. \A w \in Workers : w # holder => flight[w] = 0
  BY DEF InFlight, IInv, LockDiscipline
<1>2. IsFiniteSet(Workers) /\ NoWorker \notin Workers  BY ConstantsAssumption
<1>3. CASE holder = NoWorker
  <2>1. SumFunctionOnSet(flight, Workers) = 0
    <3> HIDE DEF flight
    <3> QED  BY <1>1, <1>2, <1>3, SumZero
  <2> QED  BY <1>0, <1>3, <2>1 DEF InHand
<1>4. CASE holder # NoWorker
  <2>1. holder \in Workers  BY <1>4 DEF IInv, TypeOK
  <2>2. flight[holder] = InHand /\ InHand \in Nat
    BY <1>4, <2>1, Amounts DEF InHand
  <2> HIDE DEF flight
  <2>3. SumFunctionOnSet(flight, Workers)
          = flight[holder] + SumFunctionOnSet(flight, Workers \ {holder})
    BY <1>1, <1>2, <2>1, <2>2, SumRemove
  <2>4. SumFunctionOnSet(flight, Workers \ {holder}) = 0
    BY <1>1, <1>2, FS_RemoveElement, SumZero
  <2>5. SumFunction(flight) = InHand  BY <1>0, <2>2, <2>3, <2>4
  <2> QED  BY <2>5 DEF flight
<1> QED  BY <1>3, <1>4

\* The total of the allocations is an amount.
LEMMA TotalIsAmount == ASSUME IInv PROVE TotalAllocated \in Nat
<1>1. IsFiniteSet(DOMAIN allocations)  BY DEF IInv, TypeOK
<1>2. \A u \in DOMAIN allocations : allocations[u] \in Nat
  BY U64Values DEF IInv, TypeOK
<1> QED  BY <1>1, <1>2, SumNat DEF TotalAllocated, SumFunction

\* An insert changes the total by what it changes of its user's entry.
LEMMA PutTotal ==
    ASSUME IInv, NEW w \in Workers, PutAllocation(w),
           Held(bid[w].user)' = Held(bid[w].user) + Fill(w)
    PROVE  TotalAllocated' = TotalAllocated + Fill(w)
<1> DEFINE u == bid[w].user
           D == DOMAIN allocations
<1>1. /\ DOMAIN allocations' = D \cup {u}
      /\ \A v \in D \ {u} : allocations'[v] = allocations[v]
  BY DEF PutAllocation
<1>2. IsFiniteSet(D) /\ \A v \in D : allocations[v] \in Nat
  BY U64Values DEF IInv, TypeOK
<1>3. Held(u) \in Nat /\ Fill(w) \in Nat
  <2>1. u \in Users  BY PutAmounts, BidValues
  <2> QED  BY <2>1, Amounts, PutAmounts
<1>4. allocations'[u] = Held(u) + Fill(w)
  <2>1. u' = u  BY DEF PutAllocation
  <2>2. u \in DOMAIN allocations'  BY <1>1
  <2> QED  BY <2>1, <2>2 DEF Held
<1>5. allocations'[u] = (IF u \in D THEN allocations[u] ELSE 0) + Fill(w)
  BY <1>4 DEF Held
<1>6. \A v \in D : allocations[v] \in Int  BY <1>2
<1>7. Fill(w) \in Int  BY <1>3
<1> HIDE DEF u
<1> QED  BY <1>1, <1>2, <1>5, <1>6, <1>7, SumPut DEF TotalAllocated

\* Conservation in terms of the one worker that can have volume in hand.
Books ==
    ~poisoned /\ offered < Modulus => offered = supply + TotalAllocated + InHand

\* Every step of every worker keeps the books.
LEMMA BooksStep == ASSUME IInv, Backed, Books, [Next]_vars PROVE Books'
<1> USE Amounts, TotalIsAmount DEF Books
<1>m. Modulus \in Nat  BY ConstantsAssumption
<1>1. ASSUME UNCHANGED <<supply, allocations, offered>>, poisoned => poisoned',
             InHand' = InHand \/ poisoned'
      PROVE  Books'
  BY <1>1 DEF TotalAllocated
<1>2. ASSUME NEW w \in Workers, Call(w) \/ Lock(w) \/ LockPoisoned(w)
      PROVE  Books'
  BY <1>1, <1>2, OutsideAmounts
<1>3. ASSUME NEW w \in Workers, Step(w)  PROVE Books'
  <2>1. CASE Add(w)
    <3>1. TotalAllocated' = TotalAllocated
      BY <2>1, AddAmounts DEF TotalAllocated
    <3>2. offered' < Modulus => supply' = supply + req[w].volume
      <4>1. ASSUME offered' < Modulus  PROVE supply + req[w].volume < Modulus
        <5>1. CASE ~poisoned
          BY <1>m, <2>1, <4>1, <5>1, AddAmounts
        <5>2. CASE poisoned
          BY <2>1, <5>2, OneInside DEF Add
        <5> QED  BY <5>1, <5>2
      <4> QED  BY <2>1, <4>1, AddAmounts DEF WrappingAdd
    <3> QED  BY <1>m, <2>1, <3>1, <3>2, AddAmounts
  <2>2. CASE CompareExchange(w)
    <3>1. TotalAllocated' = TotalAllocated
      BY <2>2, CompareExchangeAmounts DEF TotalAllocated
    <3> QED  BY <2>2, <3>1, CompareExchangeAmounts
  <2>3. CASE PutAllocation(w)
    <3>1. bid[w].user \in Users  BY <2>3, PutAmounts, BidValues
    <3>2. Held(bid[w].user) + Fill(w) <= offered
      BY <2>3, <3>1, PutAmounts DEF Backed
    <3>3. offered < Modulus => TotalAllocated' = TotalAllocated + Fill(w)
      BY <1>m, <2>3, <3>1, <3>2, PutAmounts, PutTotal
    <3> QED  BY <2>3, <3>3, PutAmounts
  <2>4. CASE \/ Bump(w) \/ Load(w) \/ NextBid(w) \/ StoreBid(w) \/ KeepBid(w)
             \/ GetAllocation(w) \/ PutPanics(w) \/ EndSell(w) \/ SumPanics(w)
             \/ Metrics(w) \/ Unlock(w)
    <3>1. poisoned => poisoned'
      BY <2>4, OneInside DEF Bump, Load, NextBid, StoreBid, KeepBid,
         GetAllocation, PutPanics, EndSell, SumPanics, Metrics, Unlock
    <3> QED  BY <1>1, <2>4, <3>1, QuietAmounts
  <2> QED  BY <1>3, <2>1, <2>2, <2>3, <2>4 DEF Step
<1>4. CASE UNCHANGED vars
  BY <1>1, <1>4 DEF vars, locals, InHand, InFlight, Fill
<1>5. CASE Finished
  BY <1>4, <1>5 DEF Finished
<1> QED  BY <1>2, <1>3, <1>4, <1>5 DEF Next

\* At the start every amount is 0.
LEMMA InitBooks == Init => Backed /\ Books
<1>1. ASSUME Init  PROVE TotalAllocated = 0
  <2>1. DOMAIN allocations = {}  BY <1>1 DEF Init
  <2> QED  BY <2>1, SumEmpty DEF TotalAllocated, SumFunction
<1>2. Init => Backed  BY DEF Init, Backed, Held, InHand
<1>3. Init => supply = 0 /\ offered = 0 /\ InHand = 0
  BY DEF Init, InHand
<1> QED  BY <1>1, <1>2, <1>3 DEF Books

\* Supply is conserved: as long as the volume sold fits in a u64 and no thread
\* has panicked under the lock, every unit sold is in supply, in an allocation,
\* or in the hand of one worker.
THEOREM SupplyIsConserved == Spec => []Conservation
<1>1. Init => Backed /\ Books  BY InitBooks
<1>2. IInv /\ Books => Conservation
  BY InHandOnly DEF Books, Conservation
<1> QED  BY Invariant, <1>1, BackedStep, BooksStep, <1>2, PTL DEF Spec
-----------------------------------------------------------------------------
(* Demand: what the book does to the accounts of the users. *)

\* A buy works on the bid its request asks for; an idle worker has no request.
Carried ==
    \A w \in Workers :
        /\ pc[w] = "idle" => req[w] = NoRequest
        /\ InBuy(w) /\ pc[w] \in {"load"} \cup Filling =>
              bid[w].user = req[w].user /\ bid[w].volume = req[w].volume

\* Every step of every worker keeps that.
LEMMA CarriedStep == ASSUME IInv, Carried, [Next]_vars PROVE Carried'
<1>1. ASSUME NEW w \in Workers, Call(w) \/ Lock(w) \/ LockPoisoned(w)
      PROVE  Carried'
  <2>1. CASE Call(w)  BY <2>1 DEF Call, Receive, Carried, IInv, TypeOK
  <2>2. CASE Lock(w)  BY <2>2 DEF Lock, Carried, IInv, TypeOK
  <2>3. CASE LockPoisoned(w)
    BY <2>3 DEF LockPoisoned, Return, Carried, IInv, TypeOK
  <2> QED  BY <1>1, <2>1, <2>2, <2>3
<1>2. ASSUME NEW w \in Workers, Step(w)  PROVE Carried'
  <2>1. CASE Bump(w)  BY <2>1 DEF Bump, Carried, IInv, TypeOK
  <2>2. CASE Load(w)  BY <2>2 DEF Load, Carried, IInv, TypeOK
  <2>3. CASE Add(w)  BY <2>3 DEF Add, Carried, IInv, TypeOK
  <2>4. CASE NextBid(w)
    BY <2>4 DEF NextBid, Carried, IInv, TypeOK, LockDiscipline
  <2>5. CASE StoreBid(w) \/ KeepBid(w)
    BY <2>5 DEF StoreBid, KeepBid, Carried, IInv, TypeOK
  <2>6. CASE CompareExchange(w)
    BY <2>6 DEF CompareExchange, Carried, IInv, TypeOK
  <2>7. CASE GetAllocation(w)
    BY <2>7 DEF GetAllocation, Carried, IInv, TypeOK
  <2>8. CASE PutAllocation(w)
    BY <2>8 DEF PutAllocation, Carried, IInv, TypeOK
  <2>9. CASE PutPanics(w) \/ SumPanics(w)
    BY <2>9 DEF PutPanics, SumPanics, Panic, Return, Carried, IInv, TypeOK
  <2>10. CASE EndSell(w) \/ Metrics(w)
    BY <2>10 DEF EndSell, Metrics, Carried, IInv, TypeOK
  <2>11. CASE Unlock(w)
    BY <2>11 DEF Unlock, Return, Carried, IInv, TypeOK
  <2> QED  BY <1>2, <2>1, <2>2, <2>3, <2>4, <2>5, <2>6, <2>7, <2>8, <2>9,
              <2>10, <2>11 DEF Step
<1>3. CASE UNCHANGED vars  BY <1>3 DEF vars, locals, Carried
<1>4. CASE Finished  BY <1>4 DEF Finished, vars, locals, Carried
<1> QED  BY <1>1, <1>2, <1>3, <1>4 DEF Next

\* The open volume of a user is an amount.
LEMMA OpenIsAmount ==
    ASSUME NEW book, book \subseteq Bid, IsFiniteSet(book), NEW u
    PROVE  Open(book, u) \in Nat
<1> DEFINE volume == [b \in book |-> b.volume]
           mine == {b \in book : b.user = u}
<1>1. mine \subseteq book /\ IsFiniteSet(mine)  BY FS_Subset
<1>2. \A b \in mine : volume[b] \in Nat  BY BidValues
<1>3. Open(book, u) = SumFunctionOnSet(volume, mine)  BY DEF Open
<1> HIDE DEF volume, mine
<1> QED  BY <1>1, <1>2, <1>3, SumNat

\* A bid that joins the book adds its volume to what its user has open.
LEMMA OpenAdd ==
    ASSUME NEW book, book \subseteq Bid, IsFiniteSet(book),
           NEW r \in Bid, r \notin book, NEW u
    PROVE  Open(book \cup {r}, u)
             = Open(book, u) + (IF r.user = u THEN r.volume ELSE 0)
<1> DEFINE volume == [b \in book |-> b.volume]
           wider == [b \in book \cup {r} |-> b.volume]
           mine == {b \in book : b.user = u}
           ours == {b \in book \cup {r} : b.user = u}
<1>1. mine \subseteq book /\ IsFiniteSet(mine)  BY FS_Subset
<1>2. r \notin mine /\ wider[r] = r.volume /\ r.volume \in Int  BY BidValues
<1>3. \A b \in mine : /\ volume[b] = wider[b]
                      /\ volume[b] \in Int /\ wider[b] \in Int
  BY BidValues
<1>4. /\ Open(book, u) = SumFunctionOnSet(volume, mine)
      /\ Open(book \cup {r}, u) = SumFunctionOnSet(wider, ours)
  BY DEF Open
<1>5. ours = IF r.user = u THEN mine \cup {r} ELSE mine  OBVIOUS
<1> HIDE DEF volume, wider, mine, ours
<1>6. SumFunctionOnSet(wider, mine) = SumFunctionOnSet(volume, mine)
  BY <1>1, <1>3, SumSame
<1>7. SumFunctionOnSet(wider, mine) \in Int
  BY <1>1, <1>3, SumInt
<1>8. SumFunctionOnSet(wider, mine \cup {r})
        = wider[r] + SumFunctionOnSet(wider, mine)
  BY <1>1, <1>2, <1>3, SumAdd
<1>9. CASE r.user = u
  <2>1. SumFunctionOnSet(wider, mine \cup {r})
          = SumFunctionOnSet(volume, mine) + r.volume
    BY <1>2, <1>6, <1>7, <1>8
  <2> QED  BY <1>4, <1>5, <1>9, <2>1
<1>10. CASE r.user # u
  <2>1. Open(book \cup {r}, u) = Open(book, u) /\ Open(book, u) \in Int
    BY <1>4, <1>5, <1>6, <1>7, <1>10
  <2> QED  BY <1>10, <2>1
<1> QED  BY <1>9, <1>10

\* A bid that leaves the book takes its volume along.
LEMMA OpenRemove ==
    ASSUME NEW book, book \subseteq Bid, IsFiniteSet(book), NEW r \in book, NEW u
    PROVE  Open(book \ {r}, u)
             = Open(book, u) - (IF r.user = u THEN r.volume ELSE 0)
<1> DEFINE rest == book \ {r}
<1>1. IsFiniteSet(rest) /\ rest \subseteq Bid /\ r \in Bid /\ r \notin rest
  BY FS_RemoveElement
<1>2. rest \cup {r} = book  OBVIOUS
<1> HIDE DEF rest
<1>3. Open(book, u) = Open(rest, u) + (IF r.user = u THEN r.volume ELSE 0)
  BY <1>1, <1>2, OpenAdd
<1>4. Open(rest, u) \in Nat  BY <1>1, OpenIsAmount
<1>5. r.volume \in Nat  BY <1>1, BidValues
<1>6. Open(rest, u) = Open(book, u) - (IF r.user = u THEN r.volume ELSE 0)
  BY <1>3, <1>4, <1>5
<1> QED  BY <1>6 DEF rest
\* Settling a fill takes from the book, or from the request of a buy, what it
\* gives to the user.
LEMMA SettleOpen ==
    ASSUME IInv, Carried, NEW w \in Workers, pc[w] = "put", NEW u \in Users
    PROVE  Open(Settle(w), u) + (IF bid[w].user = u THEN Fill(w) ELSE 0)
             = Open(bids, u) + Unregistered(u, w)
<1>1. /\ bid[w] \in Bid /\ bid[w].volume \in Nat /\ Fill(w) \in Nat
      /\ bids \subseteq Bid /\ IsFiniteSet(bids)
  BY SettleEffect, BidValues, FillValues, U64Values DEF IInv, TypeOK
<1>2. Open(bids, u) \in Nat  BY <1>1, OpenIsAmount
<1>3. CASE req[w].op = "buy"
  <2>1. /\ bid[w].user = req[w].user /\ bid[w].volume = req[w].volume
    BY <1>3 DEF Carried
  <2>2. Unregistered(u, w) = IF bid[w].user = u THEN bid[w].volume ELSE 0
    BY <1>3, <2>1 DEF Unregistered
  <2>3. CASE Fill(w) = bid[w].volume /\ Settle(w) = bids
    BY <1>1, <1>2, <2>2, <2>3
  <2>4. ASSUME NEW rest \in Bid, rest.seq = buy_seq_no,
               rest.user = bid[w].user,
               rest.volume + Fill(w) = bid[w].volume,
               Settle(w) = bids \cup {rest}
        PROVE  Open(Settle(w), u) + (IF bid[w].user = u THEN Fill(w) ELSE 0)
                 = Open(bids, u) + Unregistered(u, w)
    <3>1. rest \notin bids
      <4>1. \A b \in bids : b.seq < buy_seq_no
        BY <1>3 DEF IInv, BookKeys
      <4>2. rest.seq \in Nat  BY BidValues
      <4> QED  BY <2>4, <4>1, <4>2
    <3>2. Open(Settle(w), u)
            = Open(bids, u) + (IF rest.user = u THEN rest.volume ELSE 0)
      BY <1>1, <2>4, <3>1, OpenAdd
    <3>3. rest.volume \in Nat  BY BidValues
    <3> QED  BY <1>1, <1>2, <2>2, <2>4, <3>2, <3>3
  <2> QED  BY <1>3, <2>3, <2>4, SettleEffect
<1>4. CASE req[w].op = "sell"
  <2>1. Unregistered(u, w) = 0  BY <1>4 DEF Unregistered
  <2>2. bid[w] \in bids  BY <1>4 DEF IInv, VisitOrder
  <2> DEFINE others == bids \ {bid[w]}
  <2>3. Open(others, u)
          = Open(bids, u) - (IF bid[w].user = u THEN bid[w].volume ELSE 0)
    BY <1>1, <2>2, OpenRemove
  <2>4. others \subseteq Bid /\ IsFiniteSet(others)
    BY <1>1, FS_RemoveElement
  <2>5. CASE Fill(w) = bid[w].volume /\ Settle(w) = others
    BY <1>1, <1>2, <2>1, <2>3, <2>5
  <2>6. ASSUME NEW rest \in Bid, rest.seq = bid[w].seq,
               rest.user = bid[w].user,
               rest.volume + Fill(w) = bid[w].volume,
               Settle(w) = others \cup {rest}
        PROVE  Open(Settle(w), u) + (IF bid[w].user = u THEN Fill(w) ELSE 0)
                 = Open(bids, u) + Unregistered(u, w)
    <3>1. rest \notin others
      BY <2>2, <2>6 DEF IInv, BookKeys
    <3> HIDE DEF others
    <3>2. Open(Settle(w), u)
            = Open(others, u) + (IF rest.user = u THEN rest.volume ELSE 0)
      BY <2>4, <2>6, <3>1, OpenAdd
    <3>3. rest.volume \in Nat  BY BidValues
    <3> QED  BY <1>1, <1>2, <2>1, <2>3, <2>6, <3>2, <3>3
  <2> QED  BY <1>4, <2>5, <2>6, SettleEffect
<1> QED  BY <1>3, <1>4, SettleEffect

\* What a user's requests in progress still ask for.
Pending(u) == SumFunction([w \in Workers |-> Unregistered(u, w)])

\* They are amounts.
LEMMA PendingIsAmount ==
    ASSUME IInv, NEW u \in Users
    PROVE  Pending(u) \in Nat /\ \A w \in Workers : Unregistered(u, w) \in Nat
<1> DEFINE waits == [w \in Workers |-> Unregistered(u, w)]
<1>1. ASSUME NEW w \in Workers  PROVE Unregistered(u, w) \in Nat
  <2>1. req[w].op = "buy" => req[w] \in BuyRequest
    BY DEF IInv, TypeOK, SellRequest, NoRequest
  <2>2. req[w].op = "buy" => req[w].volume \in Nat
    BY <2>1, U64Values DEF BuyRequest
  <2> QED  BY <2>2 DEF Unregistered
<1>2. Pending(u) = SumFunctionOnSet(waits, Workers)
  BY DEF Pending, SumFunction
<1>3. \A w \in Workers : waits[w] \in Nat  BY <1>1
<1> HIDE DEF waits
<1> QED  BY <1>1, <1>2, <1>3, SumNat, ConstantsAssumption

\* A step of one worker changes the sum by what it changes of its own request.
LEMMA PendingChange ==
    ASSUME IInv, IInv', NEW w \in Workers, NEW u \in Users,
           \A v \in Workers \ {w} : pc'[v] = pc[v] /\ req'[v] = req[v]
    PROVE  Pending(u)' = Pending(u) + Unregistered(u, w)' - Unregistered(u, w)
<1> DEFINE old == [v \in Workers |-> Unregistered(u, v)]
           new == [v \in Workers |-> Unregistered(u, v)']
<1>1. \A v \in Workers : old[v] \in Int
  BY PendingIsAmount
<1>2. \A v \in Workers : new[v] \in Int
  <2>1. ASSUME NEW v \in Workers, req'[v].op = "buy"
        PROVE  req'[v].volume \in Nat
    <3>1. req'[v] \in BuyRequest
      BY <2>1 DEF IInv, TypeOK, SellRequest, NoRequest
    <3> QED  BY <3>1, U64Values DEF BuyRequest
  <2> QED  BY <2>1 DEF Unregistered
<1>3. \A v \in Workers \ {w} : old[v] = new[v]
  BY DEF Unregistered
<1>4. /\ Pending(u) = SumFunctionOnSet(old, Workers)
      /\ Pending(u)' = SumFunctionOnSet(new, Workers)
  BY DEF Pending, SumFunction
<1>5. old[w] = Unregistered(u, w) /\ new[w] = Unregistered(u, w)'
  OBVIOUS
<1> HIDE DEF old, new
<1>6. SumFunctionOnSet(new, Workers)
        = SumFunctionOnSet(old, Workers) + new[w] - old[w]
  BY <1>1, <1>2, <1>3, SumChange, ConstantsAssumption
<1> QED  BY <1>4, <1>5, <1>6
\* DemandAccounted, with the sum by its name.
Accounts ==
    ~poisoned /\ (OverflowChecks \/ offered < Modulus) =>
        \A u \in Users : demand[u] = Held(u) + Open(bids, u) + Pending(u)

\* It is enough that a step of a worker changes the demand of a user as it
\* changes what the user holds, has open, and still asks this worker for.
LEMMA AccountsBalance ==
    ASSUME IInv, IInv', NEW w \in Workers, NEW u \in Users,
           \A v \in Workers \ {w} : pc'[v] = pc[v] /\ req'[v] = req[v],
           demand[u] = Held(u) + Open(bids, u) + Pending(u),
           demand'[u] + Held(u) + Open(bids, u) + Unregistered(u, w)
             = demand[u] + Held(u)' + Open(bids, u)' + Unregistered(u, w)'
    PROVE  demand'[u] = Held(u)' + Open(bids, u)' + Pending(u)'
<1>1. /\ demand[u] \in Nat /\ Held(u) \in Nat /\ Open(bids, u) \in Nat
      /\ Pending(u) \in Nat /\ Unregistered(u, w) \in Nat
  BY Amounts, OpenIsAmount, PendingIsAmount DEF IInv, TypeOK
<1>2. /\ demand'[u] \in Nat /\ Held(u)' \in Nat /\ Open(bids, u)' \in Nat
      /\ Unregistered(u, w)' \in Nat
  <2>1. demand'[u] \in Nat /\ Held(u)' \in Nat
    <3>1. demand'[u] \in Nat  BY DEF IInv, TypeOK
    <3>2. u \in DOMAIN allocations' => allocations'[u] \in U64
      BY DEF IInv, TypeOK
    <3> QED  BY <3>1, <3>2, U64Values DEF Held
  <2>2. Open(bids', u) \in Nat
    BY OpenIsAmount DEF IInv, TypeOK
  <2>3. req'[w].op = "buy" => req'[w] \in BuyRequest
    BY DEF IInv, TypeOK, SellRequest, NoRequest
  <2>4. Unregistered(u, w)' \in Nat
    BY <2>3, U64Values DEF Unregistered, BuyRequest
  <2> QED  BY <2>1, <2>2, <2>4
<1>3. Pending(u)' = Pending(u) + Unregistered(u, w)' - Unregistered(u, w)
  BY PendingChange
<1>4. demand[u] = Held(u) + Open(bids, u) + Pending(u)
  OBVIOUS
<1>5. demand'[u] = demand[u] + Held(u)' + Open(bids, u)' + Unregistered(u, w)'
                     - Held(u) - Open(bids, u) - Unregistered(u, w)
  BY <1>1, <1>2
<1> QED  BY <1>1, <1>2, <1>3, <1>4, <1>5

\* Nothing un-poisons the lock or takes back a sale.
LEMMA OneWay ==
    ASSUME IInv, [Next]_vars
    PROVE  (poisoned => poisoned') /\ offered <= offered'
<1>1. ASSUME NEW w \in Workers, Call(w) \/ Lock(w) \/ LockPoisoned(w)
      PROVE  UNCHANGED <<poisoned, offered>>
  BY <1>1, OutsideAmounts
<1>2. ASSUME NEW w \in Workers, Step(w)
      PROVE  (poisoned => poisoned') /\ offered <= offered'
  <2>1. pc[w] \notin Waiting
    BY <1>2 DEF Step, Bump, Load, Add, NextBid, StoreBid, KeepBid,
       CompareExchange, GetAllocation, PutAllocation, PutPanics, EndSell,
       SumPanics, Metrics, Unlock
  <2>2. ~poisoned  BY <2>1, OneInside
  <2>3. offered' = offered \/ Add(w)
    BY <1>2, QuietAmounts, CompareExchangeAmounts, PutAmounts DEF Step
  <2> QED  BY <2>2, <2>3, Amounts, AddAmounts
<1>3. CASE UNCHANGED vars  BY <1>3, Amounts DEF vars
<1>4. CASE Finished  BY <1>4, Amounts DEF Finished, vars
<1> QED  BY <1>1, <1>2, <1>3, <1>4, Amounts DEF Next

\* Outside the lock a call asks for volume, and nothing else changes.
LEMMA OutsideAccounts ==
    ASSUME IInv, Carried, NEW w \in Workers, NEW u \in Users,
           Call(w) \/ Lock(w) \/ LockPoisoned(w), ~poisoned'
    PROVE  /\ \A v \in Workers \ {w} : pc'[v] = pc[v] /\ req'[v] = req[v]
           /\ demand'[u] + Held(u) + Open(bids, u) + Unregistered(u, w)
                = demand[u] + Held(u)' + Open(bids, u)' + Unregistered(u, w)'
<1>1. \A v \in Workers \ {w} : pc'[v] = pc[v] /\ req'[v] = req[v]
  BY DEF Call, Receive, Lock, LockPoisoned, Return, IInv, TypeOK
<1>2. Held(u)' = Held(u) /\ Open(bids, u)' = Open(bids, u)
  BY OutsideAmounts DEF Held
<1>3. /\ demand[u] \in Nat /\ Held(u) \in Nat /\ Open(bids, u) \in Nat
      /\ Unregistered(u, w) \in Nat
  BY Amounts, OpenIsAmount, PendingIsAmount DEF IInv, TypeOK
<1>4. CASE Call(w)
  <2>1. PICK r \in BuyRequest \cup SellRequest :
          /\ req' = [req EXCEPT ![w] = r]
          /\ demand' = IF r.op = "buy" THEN [demand EXCEPT ![r.user] = @ + r.volume]
                                       ELSE demand
    BY <1>4 DEF Call, Receive
  <2>2. r.op = "buy" => r.user \in Users /\ r.volume \in Nat
    BY <2>1, U64Values DEF BuyRequest, SellRequest
  <2>3. Unregistered(u, w) = 0
    BY <1>4 DEF Call, Receive, Unregistered, Carried, NoRequest
  <2>4. Unregistered(u, w)'
          = IF r.op = "buy" /\ r.user = u THEN r.volume ELSE 0
    BY <1>4, <2>1 DEF Call, Receive, Unregistered, IInv, TypeOK
  <2>5. demand'[u] = IF r.op = "buy" /\ r.user = u THEN demand[u] + r.volume
                                                   ELSE demand[u]
    BY <2>1, <2>2 DEF IInv, TypeOK
  <2> QED  BY <1>1, <1>2, <1>3, <2>2, <2>3, <2>4, <2>5
<1>5. CASE Lock(w)
  <2>1. Unregistered(u, w)' = Unregistered(u, w) /\ demand' = demand
    BY <1>5 DEF Lock, Unregistered, IInv, TypeOK
  <2> QED  BY <1>1, <1>2, <1>3, <2>1
<1>6. CASE LockPoisoned(w)
  BY <1>6 DEF LockPoisoned
<1> QED  BY <1>4, <1>5, <1>6

\* Under the lock the accounts change at the two places where a bid is stored
\* or served; a panic is out of the question.
LEMMA InsideAccounts ==
    ASSUME IInv, Carried, Backed, NEW w \in Workers, NEW u \in Users,
           Step(w), ~poisoned', OverflowChecks \/ offered < Modulus
    PROVE  /\ \A v \in Workers \ {w} : pc'[v] = pc[v] /\ req'[v] = req[v]
           /\ demand'[u] + Held(u) + Open(bids, u) + Unregistered(u, w)
                = demand[u] + Held(u)' + Open(bids, u)' + Unregistered(u, w)'
<1>1. \A v \in Workers \ {w} : pc'[v] = pc[v] /\ req'[v] = req[v]
  BY DEF Step, Bump, Load, Add, NextBid, StoreBid, KeepBid,
     CompareExchange, GetAllocation, PutAllocation, PutPanics, Panic, EndSell,
     SumPanics, Metrics, Unlock, Return, IInv, TypeOK
<1>2. /\ demand[u] \in Nat /\ Held(u) \in Nat /\ Open(bids, u) \in Nat
      /\ Unregistered(u, w) \in Nat
  BY Amounts, OpenIsAmount, PendingIsAmount DEF IInv, TypeOK
<1>3. CASE StoreBid(w)
  <2> DEFINE stored == [bid[w] EXCEPT !.seq = buy_seq_no]
  <2>1. /\ stored \in Bid /\ stored.seq = buy_seq_no
        /\ bids' = bids \cup {stored}
        /\ \A b \in bids : b.seq < buy_seq_no
    BY <1>3, StoreBidEffect
  <2>2. /\ stored.user = req[w].user /\ stored.volume = req[w].volume
        /\ req[w].op = "buy" /\ pc[w] = "try"
    <3>1. bid[w] \in Bid /\ pc[w] = "try" /\ req[w].op = "buy"
      BY <1>3 DEF StoreBid, IInv, LockDiscipline
    <3>2. stored.user = bid[w].user /\ stored.volume = bid[w].volume
      BY <3>1 DEF Bid
    <3> QED  BY <3>1, <3>2 DEF Carried
  <2>3. pc'[w] = "metrics" /\ demand' = demand /\ allocations' = allocations
    BY <1>3 DEF StoreBid, IInv, TypeOK
  <2> HIDE DEF stored
  <2>4. stored \notin bids
    <3>1. stored.seq \in Nat  BY <2>1, BidValues
    <3> QED  BY <2>1, <3>1
  <2>5. Open(bids \cup {stored}, u)
          = Open(bids, u) + (IF stored.user = u THEN stored.volume ELSE 0)
    BY <2>1, <2>4, OpenAdd DEF IInv, TypeOK
  <2>6. Unregistered(u, w) = (IF stored.user = u THEN stored.volume ELSE 0)
    BY <2>2 DEF Unregistered
  <2>7. Unregistered(u, w)' = 0  BY <2>3 DEF Unregistered
  <2>8. Held(u)' = Held(u)  BY <2>3 DEF Held
  <2> QED  BY <1>1, <1>2, <2>1, <2>3, <2>5, <2>6, <2>7, <2>8
<1>4. CASE PutAllocation(w)
  <2>1. /\ pc[w] = "put" /\ bids' = Settle(w)
        /\ req' = req /\ demand' = demand
        /\ pc'[w] = IF req[w].op = "buy" THEN "metrics" ELSE "next"
    BY <1>4 DEF PutAllocation, IInv, TypeOK
  <2>2. bid[w].user \in Users /\ Fill(w) \in Nat
    BY <1>4, PutAmounts, BidValues
  <2>3. Held(u)' = Held(u) + (IF bid[w].user = u THEN Fill(w) ELSE 0)
    <3>1. OverflowChecks \/ Held(bid[w].user) + Fill(w) < Modulus
      <4>1. Held(bid[w].user) + Fill(w) <= offered
        BY <1>4, <2>2, Amounts, PutAmounts DEF Backed
      <4> QED  BY <2>2, <4>1, Amounts, ConstantsAssumption
    <3> QED  BY <1>2, <1>4, <2>2, <3>1, PutAmounts
  <2>4. Unregistered(u, w)' = 0
    BY <2>1 DEF Unregistered
  <2>5. Open(Settle(w), u) + (IF bid[w].user = u THEN Fill(w) ELSE 0)
          = Open(bids, u) + Unregistered(u, w)
    BY <2>1, SettleOpen
  <2>6. Open(bids, u)' = Open(Settle(w), u) /\ Open(Settle(w), u) \in Int
    <3>1. bids' \subseteq Bid /\ IsFiniteSet(bids')
      BY <1>4, PutAllocationInv DEF IInv, TypeOK
    <3>2. Open(bids', u) \in Nat  BY <3>1, OpenIsAmount
    <3> QED  BY <2>1, <3>2
  <2> QED  BY <1>1, <1>2, <2>1, <2>2, <2>3, <2>4, <2>5, <2>6
<1>5. CASE PutPanics(w) \/ SumPanics(w)
  BY <1>5 DEF PutPanics, SumPanics, Panic
<1>6. CASE \/ Bump(w) \/ Load(w) \/ Add(w) \/ NextBid(w) \/ KeepBid(w)
           \/ CompareExchange(w) \/ GetAllocation(w) \/ EndSell(w)
           \/ Metrics(w) \/ Unlock(w)
  <2>1. demand' = demand /\ allocations' = allocations /\ bids' = bids
    BY <1>6 DEF Bump, Load, Add, NextBid, KeepBid, CompareExchange,
       GetAllocation, EndSell, Metrics, Unlock
  <2>2. Unregistered(u, w)' = Unregistered(u, w)
    <3>1. CASE EndSell(w) \/ Metrics(w)
      BY <3>1 DEF EndSell, Metrics, Unregistered, IInv, TypeOK, LockDiscipline
    <3>2. CASE Unlock(w)
      BY <3>2 DEF Unlock, Return, Unregistered, NoRequest, IInv, TypeOK
    <3> QED
      BY <1>6, <3>1, <3>2 DEF Bump, Load, Add, NextBid, KeepBid,
         CompareExchange, GetAllocation, Unregistered, IInv, TypeOK
  <2>3. Held(u)' = Held(u)  BY <2>1 DEF Held
  <2> QED  BY <1>1, <1>2, <2>1, <2>2, <2>3
<1> QED  BY <1>3, <1>4, <1>5, <1>6 DEF Step

\* Every step of every worker keeps the accounts of every user.
LEMMA AccountsStep ==
    ASSUME IInv, Backed, Carried, Accounts, [Next]_vars
    PROVE  Accounts'
<1> SUFFICES ASSUME ~poisoned', OverflowChecks \/ offered' < Modulus,
                    NEW u \in Users
             PROVE  demand'[u] = Held(u)' + Open(bids, u)' + Pending(u)'
  BY DEF Accounts
<1>1. ~poisoned /\ (OverflowChecks \/ offered < Modulus)
  <2>1. offered' \in Nat  BY InvStep DEF IInv, TypeOK
  <2> QED  BY <2>1, OneWay, Amounts, ConstantsAssumption
<1>2. demand[u] = Held(u) + Open(bids, u) + Pending(u)
  BY <1>1 DEF Accounts
<1>3. ASSUME NEW w \in Workers, Call(w) \/ Lock(w) \/ LockPoisoned(w)
      PROVE  demand'[u] = Held(u)' + Open(bids, u)' + Pending(u)'
  BY <1>2, <1>3, InvStep, OutsideAccounts, AccountsBalance
<1>4. ASSUME NEW w \in Workers, Step(w)
      PROVE  demand'[u] = Held(u)' + Open(bids, u)' + Pending(u)'
  BY <1>1, <1>2, <1>4, InvStep, InsideAccounts, AccountsBalance
<1>5. CASE UNCHANGED vars
  BY <1>2, <1>5 DEF vars, locals, Held, Pending, Unregistered
<1>6. CASE Finished
  BY <1>5, <1>6 DEF Finished
<1> QED  BY <1>3, <1>4, <1>5, <1>6 DEF Next

\* At the start nobody has asked for anything.
LEMMA InitAccounts == Init => Backed /\ Carried /\ Accounts
<1>1. Init => Backed  BY DEF Init, Backed, Held, InHand
<1>2. Init => Carried  BY DEF Init, Carried
<1>3. ASSUME Init, NEW u \in Users
      PROVE  demand[u] = Held(u) + Open(bids, u) + Pending(u)
  <2>1. demand[u] = 0 /\ Held(u) = 0 /\ bids = {}
    BY <1>3 DEF Init, Held
  <2>2. Open(bids, u) = 0
    <3>1. {b \in bids : b.user = u} = {}  BY <2>1
    <3> QED  BY <3>1, SumEmpty DEF Open
  <2>3. Pending(u) = 0
    <3> DEFINE waits == [w \in Workers |-> Unregistered(u, w)]
    <3>1. \A w \in Workers : waits[w] = 0
      BY <1>3 DEF Init, NoRequest, Unregistered
    <3>2. Pending(u) = SumFunctionOnSet(waits, Workers)
      BY DEF Pending, SumFunction
    <3> HIDE DEF waits
    <3> QED  BY <3>1, <3>2, SumZero, ConstantsAssumption
  <2> QED  BY <2>1, <2>2, <2>3
<1> QED  BY <1>1, <1>2, <1>3 DEF Accounts

\* Demand is accounted for: no bid is lost, duplicated or overwritten.  All that
\* a user asked for is allocated, open in the book or with a worker; in a debug
\* build always, in a release build while the volume sold fits in a u64.
THEOREM NoBidIsLost == Spec => []DemandAccounted
<1>1. Accounts => DemandAccounted
  BY DEF Accounts, Pending, DemandAccounted
<1> QED  BY Invariant, InitAccounts, BackedStep, CarriedStep, AccountsStep, <1>1,
            PTL DEF Spec

\* What a user holds and has open is within what the user asked for, also in
\* the state that a panic leaves.
Within == \A u \in Users : Held(u) + Open(bids, u) <= demand[u]

\* Nobody takes a request back.
LEMMA DemandGrows ==
    ASSUME IInv, [Next]_vars, NEW u \in Users
    PROVE  demand[u] \in Nat /\ demand'[u] \in Nat /\ demand[u] <= demand'[u]
<1>1. demand \in [Users -> Nat] /\ demand' \in [Users -> Nat]
  BY InvStep DEF IInv, TypeOK
<1>2. ASSUME NEW w \in Workers, Call(w)  PROVE demand[u] <= demand'[u]
  <2>1. PICK r \in BuyRequest \cup SellRequest : Receive(w, r)
    BY <1>2 DEF Call
  <2>2. CASE r.op = "buy"
    <3>1. r \in BuyRequest  BY <2>2 DEF SellRequest
    <3>2. r.user \in Users /\ r.volume \in Nat
      BY <3>1, U64Values DEF BuyRequest
    <3> QED  BY <1>1, <2>1, <2>2, <3>2 DEF Receive
  <2>3. CASE r.op # "buy"  BY <1>1, <2>1, <2>3 DEF Receive
  <2> QED  BY <2>2, <2>3
<1>3. demand' = demand \/ \E w \in Workers : Call(w)
  BY DEF Next, Finished, vars, ghosts, Lock, LockPoisoned, Step, Bump, Load, Add,
     NextBid, StoreBid, KeepBid, CompareExchange, GetAllocation, PutAllocation,
     PutPanics, Panic, EndSell, SumPanics, Metrics, Unlock
<1> QED  BY <1>1, <1>2, <1>3

\* The step that poisons the lock changes neither the book nor the allocations,
\* and nothing does after it.
LEMMA PoisonedStands ==
    ASSUME IInv, [Next]_vars, poisoned'
    PROVE  allocations' = allocations /\ bids' = bids
<1>1. ASSUME NEW w \in Workers, Call(w) \/ Lock(w) \/ LockPoisoned(w)
      PROVE  allocations' = allocations /\ bids' = bids
  BY <1>1 DEF Call, Receive, Lock, LockPoisoned, shared
<1>2. ASSUME NEW w \in Workers, Step(w)
      PROVE  allocations' = allocations /\ bids' = bids
  <2>1. pc[w] \notin Waiting
    BY <1>2 DEF Step, Bump, Load, Add, NextBid, StoreBid, KeepBid,
       CompareExchange, GetAllocation, PutAllocation, PutPanics, EndSell,
       SumPanics, Metrics, Unlock
  <2>2. ~poisoned  BY <2>1, OneInside
  <2>3. PutPanics(w) \/ SumPanics(w)
    BY <1>2, <2>2 DEF Step, Bump, Load, Add, NextBid, StoreBid, KeepBid,
       CompareExchange, GetAllocation, PutAllocation, EndSell, Metrics, Unlock,
       lock
  <2> QED  BY <2>3 DEF PutPanics, SumPanics, Panic, shared
<1> QED  BY <1>1, <1>2 DEF Next, Finished, vars, shared

\* A panic leaves the books within bounds, and so does every other step.
LEMMA WithinStep ==
    ASSUME OverflowChecks = TRUE, IInv, Backed, Carried, Accounts, Within,
           [Next]_vars
    PROVE  Within'
<1> SUFFICES ASSUME NEW u \in Users
             PROVE  Held(u)' + Open(bids, u)' <= demand'[u]
  BY DEF Within
<1>1. IInv'  BY InvStep
<1>2. CASE poisoned'
  <2>1. Held(u)' = Held(u) /\ Open(bids, u)' = Open(bids, u)
    BY <1>2, PoisonedStands DEF Held
  <2>2. Held(u) \in Nat /\ Open(bids, u) \in Nat
    BY Amounts, OpenIsAmount DEF IInv, TypeOK
  <2>3. Held(u) + Open(bids, u) <= demand[u]  BY DEF Within
  <2> QED  BY <2>1, <2>2, <2>3, DemandGrows
<1>3. CASE ~poisoned'
  <2>1. demand'[u] = Held(u)' + Open(bids, u)' + Pending(u)'
    BY <1>3, AccountsStep DEF Accounts
  <2>2. Pending(u)' \in Nat
    <3> DEFINE waits == [w \in Workers |-> Unregistered(u, w)']
    <3>1. ASSUME NEW w \in Workers  PROVE waits[w] \in Nat
      <4>1. req'[w].op = "buy" => req'[w] \in BuyRequest
        BY <1>1 DEF IInv, TypeOK, SellRequest, NoRequest
      <4> QED  BY <4>1, U64Values DEF Unregistered, BuyRequest
    <3>2. Pending(u)' = SumFunctionOnSet(waits, Workers)
      BY DEF Pending, SumFunction
    <3> HIDE DEF waits
    <3> QED  BY <3>1, <3>2, SumNat, ConstantsAssumption
  <2>3. Held(u)' \in Nat /\ Open(bids', u) \in Nat
    <3>1. u \in DOMAIN allocations' => allocations'[u] \in U64
      BY <1>1 DEF IInv, TypeOK
    <3>2. bids' \subseteq Bid /\ IsFiniteSet(bids')
      BY <1>1 DEF IInv, TypeOK
    <3> QED  BY <3>1, <3>2, OpenIsAmount, U64Values DEF Held
  <2> QED  BY <2>1, <2>2, <2>3
<1> QED  BY <1>2, <1>3

\* What the debug page shows of a user, allocated and open, is within what the
\* user asked for: the allocations are read first, and a unit that is shown
\* there has left the book by the time the bids are.
THEOREM PageCountsOnce ==
    ASSUME OverflowChecks = TRUE
    PROVE  DumpSpec => []ShownCountsOnce
<1> DEFINE ShownOf(u) == IF u \in DOMAIN shown THEN shown[u] ELSE 0
           Kept == IInv /\ Backed /\ Carried /\ Accounts /\ Within
           Copy == /\ \A u \in Users : ShownOf(u) \in Nat /\ ShownOf(u) <= Held(u)
                   /\ shownBids \subseteq Bid /\ IsFiniteSet(shownBids)
                   /\ reading # "done" => shownBids = {}
           Inv == Kept /\ Copy /\ ShownCountsOnce
<1>1. DumpInit => Inv
  <2> SUFFICES ASSUME DumpInit PROVE Inv  OBVIOUS
  <2>1. IInv /\ Backed /\ Carried /\ Accounts
    BY InitInv, InitAccounts DEF DumpInit
  <2>2. shownBids = {} /\ bids = {}  BY DEF DumpInit, Init
  <2>3. \A u \in Users :
          /\ ShownOf(u) = 0 /\ Held(u) = 0 /\ demand[u] = 0
          /\ Open({}, u) = 0
    <3> TAKE u \in Users
    <3>1. {b \in {} : b.user = u} = {}  OBVIOUS
    <3>2. Open({}, u) = 0  BY <3>1, SumEmpty DEF Open
    <3> QED  BY <3>2 DEF DumpInit, Init, Held
  <2>4. Within /\ ShownCountsOnce
    BY <2>2, <2>3 DEF Within, ShownCountsOnce
  <2>5. Copy  BY <2>2, <2>3, FS_EmptySet
  <2> QED  BY <2>1, <2>4, <2>5
<1>2. Inv /\ [Handlers \/ Dump]_<<vars, dump>> => Inv'
  <2> SUFFICES ASSUME Inv, [Handlers \/ Dump]_<<vars, dump>>  PROVE Inv'
    OBVIOUS
  <2>1. [Next]_vars
    BY DEF Handlers, Dump, Index, ReadAtomics, ReadAllocations, ReadBids
  <2>2. Kept'
    BY <2>1, InvStep, BackedStep, CarriedStep, AccountsStep, WithinStep
  <2>3. ASSUME NEW u \in Users
        PROVE  /\ Held(u) \in Nat /\ Held(u)' \in Nat /\ Held(u) <= Held(u)'
               /\ demand[u] \in Nat /\ demand'[u] \in Nat
               /\ demand[u] <= demand'[u]
               /\ Open(bids, u) \in Nat /\ Open(shownBids, u) \in Nat
               /\ Held(u) + Open(bids, u) <= demand[u]
               /\ ShownOf(u) + Open(shownBids, u) <= demand[u]
    <3>1. Held(u) \in Nat /\ Held(u)' \in Nat
      <4>1. IInv' /\ u \in DOMAIN allocations' => allocations'[u] \in U64
        BY DEF IInv, TypeOK
      <4> QED  BY <2>2, <4>1, Amounts, U64Values DEF Held
    <3>2. Held(u) <= Held(u)'
      <4>1. Held(u)' >= Held(u)  BY <2>1, GrowStep
      <4> QED  BY <3>1, <4>1
    <3>3. Open(bids, u) \in Nat /\ Open(shownBids, u) \in Nat
      BY OpenIsAmount DEF IInv, TypeOK
    <3> QED
      BY <2>1, <3>1, <3>2, <3>3, DemandGrows DEF Within, ShownCountsOnce
  <2>4. CASE UNCHANGED <<shown, shownBids>> /\ (reading = "done" => reading' = "done")
    <3>1. \A u \in Users : ShownOf(u)' = ShownOf(u)  BY <2>4
    <3>2. \A u \in Users : ShownOf(u)' \in Nat /\ ShownOf(u)' <= Held(u)'
      <4> SUFFICES ASSUME NEW u \in Users
                   PROVE  ShownOf(u)' \in Nat /\ ShownOf(u)' <= Held(u)'
        OBVIOUS
      <4>1. ShownOf(u) \in Nat /\ ShownOf(u) <= Held(u)  OBVIOUS
      <4>2. ShownOf(u)' = ShownOf(u)  BY <3>1
      <4> HIDE DEF ShownOf
      <4> QED  BY <2>3, <4>1, <4>2
    <3>3. Copy'  BY <2>4, <3>2
    <3>4. ShownCountsOnce'
      <4> SUFFICES ASSUME NEW u \in Users
                   PROVE  ShownOf(u)' + Open(shownBids, u)' <= demand'[u]
        BY DEF ShownCountsOnce
      <4>1. ShownOf(u) \in Nat  OBVIOUS
      <4>2. ShownOf(u)' = ShownOf(u) /\ Open(shownBids, u)' = Open(shownBids, u)
        BY <2>4, <3>1
      <4> HIDE DEF ShownOf
      <4> QED  BY <2>3, <4>1, <4>2
    <3> QED  BY <2>2, <3>3, <3>4
  <2>5. CASE ReadAllocations
    <3>1. /\ \A u \in Users : ShownOf(u)' = Held(u)
          /\ shownBids = {} /\ shownBids' = {}
          /\ UNCHANGED <<allocations, demand>>
      BY <2>5 DEF ReadAllocations, Advance, After, Held, vars, shared, ghosts
    <3>2. \A u \in Users : Held(u)' = Held(u)  BY <3>1 DEF Held
    <3>3. Copy'  BY <2>3, <3>1, <3>2, FS_EmptySet
    <3>4. ShownCountsOnce'
      <4> SUFFICES ASSUME NEW u \in Users
                   PROVE  ShownOf(u)' + Open(shownBids, u)' <= demand'[u]
        BY DEF ShownCountsOnce
      <4>1. Open(shownBids, u)' = 0
        <5>1. {b \in {} : b.user = u} = {}  OBVIOUS
        <5>2. Open({}, u) = 0  BY <5>1, SumEmpty DEF Open
        <5> QED  BY <3>1, <5>2
      <4> QED  BY <2>3, <3>1, <4>1
    <3> QED  BY <2>2, <3>3, <3>4
  <2>6. CASE ReadBids /\ shownBids' = bids
    <3>1. /\ \A u \in Users : ShownOf(u)' = ShownOf(u) /\ Held(u)' = Held(u)
          /\ reading' = "done" /\ demand' = demand
      BY <2>6 DEF ReadBids, Advance, After, vars, shared, ghosts, Held
    <3>2. Copy'  BY <2>6, <3>1 DEF IInv, TypeOK
    <3>3. ShownCountsOnce'
      <4> SUFFICES ASSUME NEW u \in Users
                   PROVE  ShownOf(u)' + Open(bids, u) <= demand'[u]
        BY <2>6 DEF ShownCountsOnce
      <4>1. ShownOf(u) \in Nat /\ ShownOf(u) <= Held(u)  OBVIOUS
      <4> QED  BY <2>3, <3>1, <4>1
    <3> QED  BY <2>2, <3>2, <3>3
  <2>7. CASE ReadBids /\ shownBids' = shownBids
    <3>1. /\ \A u \in Users : ShownOf(u)' = ShownOf(u) /\ Held(u)' = Held(u)
          /\ reading' = "done" /\ demand' = demand
      BY <2>7 DEF ReadBids, Advance, After, vars, shared, ghosts, Held
    <3>2. Copy'  BY <2>7, <3>1
    <3>3. ShownCountsOnce'  BY <2>3, <2>7, <3>1 DEF ShownCountsOnce
    <3> QED  BY <2>2, <3>2, <3>3
  <2>8. \/ UNCHANGED <<shown, shownBids>> /\ (reading = "done" => reading' = "done")
        \/ ReadAllocations \/ ReadBids
    BY DEF Handlers, dump, Dump, Index, ReadAtomics, Advance, After
  <2>9. ReadBids => shownBids' = bids \/ shownBids' = shownBids
    BY DEF ReadBids
  <2> QED  BY <2>4, <2>5, <2>6, <2>7, <2>8, <2>9
<1> QED  BY <1>1, <1>2, PTL DEF DumpSpec
=============================================================================

---------------------------- MODULE TwnApiProofs ----------------------------
(***************************************************************************)
(* Proofs about TwnApi: what the clients of the two transports are told,   *)
(* for any number of clients, calls and retries.                           *)
(*                                                                         *)
(* An attempt at a call is in `requests` until a handler has ended it, so  *)
(* that a call was carried out at most as often as attempts at it ended.   *)
(* An answer is vouched for when it is sent and stays so on its way,       *)
(* because what vouches for it only grows: how often the call was carried  *)
(* out, and what a user has.                                               *)
(***************************************************************************)
EXTENDS TwnApi, BookTheorems

OpOf(i) == calls[i].request.op

Answers == [status : {"ok", "error", "none"}, volume : Nat]

CallRecord == [request : Requests, attempts : Nat \ {0}, done : Nat,
               answer : Answers, had : Nat]

ApiTypes ==
    /\ calls \in Seq(CallRecord)
    /\ requests \subseteq [call : DOMAIN calls, attempt : Nat]
    /\ \A m \in requests : m.attempt \in 1 .. calls[m.call].attempts
    /\ answers \subseteq [call : DOMAIN calls, answer : Answers]
    /\ waitsFor \in [Clients -> 0 .. Len(calls)]

EngineTypes ==
    /\ offer \in Int /\ arrivals \in Nat
    /\ \A u \in DOMAIN given : given[u] \in Nat
    /\ IsBook(orders, Users)
    /\ \A o \in orders : o.seq <= arrivals

\* The attempts at call i that a handler has ended.
Ended(i) == {n \in 1 .. calls[i].attempts : Attempt(i, n) \notin requests}

\* A handler carries out what it ends, at most, and neither a read nor what it
\* refuses.
CarriedOut ==
    \A i \in DOMAIN calls :
        /\ calls[i].done <= Cardinality(Ended(i))
        /\ Refused(calls[i].request) \/ OpOf(i) = "allocation" => calls[i].done = 0

\* What a user had when a read was asked for the user still has.
StillThere ==
    \A i \in DOMAIN calls :
        OpOf(i) = "allocation" =>
            calls[i].had <= GivenTo(given, Decoded(calls[i].request).user)

\* What the state says for an answer to call i.
Vouched(i, answer) ==
    /\ answer.status = "error" => Refused(calls[i].request) \/ OpOf(i) = "allocation"
    /\ answer.status = "ok" /\ OpOf(i) # "allocation" => calls[i].done >= 1
    /\ OpOf(i) = "allocation" =>
        /\ answer.status = "ok" => answer.volume >= calls[i].had
        /\ answer.status = "error" /\ Complete(calls[i].request) => calls[i].had = 0

AnswersVouched ==
    /\ \A a \in answers : Vouched(a.call, a.answer)
    /\ \A i \in DOMAIN calls : Vouched(i, calls[i].answer)

IInv == ApiTypes /\ EngineTypes /\ CarriedOut /\ StillThere /\ AnswersVouched

-----------------------------------------------------------------------------
\* What handlers make of a request: a buy names a user and amounts, a sell an
\* amount, whatever the client left out.
LEMMA RequestFacts ==
    ASSUME NEW r \in Requests
    PROVE  /\ r.op \in {"buy", "sell", "allocation"} /\ Decoded(r).op = r.op
           /\ r.op = "buy" =>
                /\ Decoded(r).user = (IF r.user = NoField THEN EmptyName ELSE r.user)
                /\ Decoded(r).volume = (IF r.volume = NoField THEN 0 ELSE r.volume)
                /\ Decoded(r).user \in Users /\ Decoded(r).volume \in Nat
                /\ Decoded(r).price \in Nat
           /\ r.op = "sell" => Decoded(r).volume \in Nat
           /\ r.op = "allocation" => r.via \in {"http", "grpc"}
<1>1. Volumes \subseteq Nat /\ Prices \subseteq Nat /\ EmptyName \in Users
  BY ApiAssumption
<1>2. \A f \in DOMAIN r :
        Decoded(r)[f] = IF r[f] = NoField THEN Zero(f) ELSE r[f]
  BY DEF Decoded
<1>3. NoField # "buy" /\ NoField # "sell" /\ NoField # "allocation"
  BY ApiAssumption
<1>4. Zero("user") = EmptyName /\ Zero("volume") = 0 /\ Zero("price") = 0
  BY DEF Zero
<1>5. \/ /\ r.op = "buy" /\ DOMAIN r = {"via", "op", "user", "volume", "price"}
         /\ r.user \in Users \cup {NoField} /\ r.volume \in Volumes \cup {NoField}
         /\ r.price \in Prices \cup {NoField}
      \/ /\ r.op = "sell" /\ DOMAIN r = {"via", "op", "volume"}
         /\ r.volume \in Volumes \cup {0, NoField}
      \/ /\ r.op = "allocation" /\ DOMAIN r = {"via", "op", "user"}
         /\ r.via \in {"http", "grpc"}
  <2>1. CASE r \in HttpRequests  BY <2>1 DEF HttpRequests
  <2>2. CASE r \in GrpcRequests
    BY <2>2 DEF GrpcRequests, GrpcNames, GrpcNumbers
  <2> QED  BY <2>1, <2>2 DEF Requests
<1>6. "op" \in DOMAIN r /\ r.op # NoField  BY <1>3, <1>5
<1>7. Decoded(r).op = r.op  BY <1>2, <1>6
<1>8. CASE r.op = "buy"
  <2>1. /\ DOMAIN r = {"via", "op", "user", "volume", "price"}
        /\ r.user \in Users \cup {NoField} /\ r.volume \in Volumes \cup {NoField}
        /\ r.price \in Prices \cup {NoField}
    BY <1>5, <1>8
  <2>2. /\ Decoded(r).user = (IF r.user = NoField THEN EmptyName ELSE r.user)
        /\ Decoded(r).volume = (IF r.volume = NoField THEN 0 ELSE r.volume)
        /\ Decoded(r).price = (IF r.price = NoField THEN 0 ELSE r.price)
    BY <1>2, <1>4, <2>1
  <2>3. Decoded(r).user \in Users  BY <1>1, <2>1, <2>2
  <2>4. Decoded(r).volume \in Nat
    <3>1. r.volume # NoField => r.volume \in Nat  BY <1>1, <2>1
    <3> QED  BY <2>2, <3>1
  <2>5. Decoded(r).price \in Nat
    <3>1. r.price # NoField => r.price \in Nat  BY <1>1, <2>1
    <3> QED  BY <2>2, <3>1
  <2> QED  BY <1>7, <1>8, <2>2, <2>3, <2>4, <2>5, Zenon
<1>9. CASE r.op = "sell"
  <2>1. DOMAIN r = {"via", "op", "volume"} /\ r.volume \in Volumes \cup {0, NoField}
    BY <1>5, <1>9
  <2>2. Decoded(r).volume = (IF r.volume = NoField THEN 0 ELSE r.volume)
    BY <1>2, <1>4, <2>1
  <2>3. Decoded(r).volume \in Nat
    <3>1. r.volume # NoField => r.volume \in Nat
      <4>1. CASE r.volume = 0  BY <4>1
      <4> QED  BY <1>1, <2>1, <4>1
    <3> QED  BY <2>2, <3>1
  <2>4. r.op # "buy" /\ r.op # "allocation"  BY <1>9
  <2> QED  BY <1>7, <1>9, <2>3, <2>4, Zenon
<1>10. CASE r.op = "allocation"
  BY <1>5, <1>7, <1>10
<1> QED  BY <1>5, <1>8, <1>9, <1>10

-----------------------------------------------------------------------------
(* The engine *)

Mine(book, u) == {o \in book : o.user = u}

\* A match changes the state of the engine by the rule of Matching.
LEMMA MatchRule ==
    ASSUME NEW book, NEW total, E!Match(book, total)
    PROVE  /\ given' = GivenAfter(given, book, total)
           /\ orders' = OrdersAfter(book, total)
           /\ offer' = OfferAfter(book, total)
<1>1. \A f : E!SumFunction(f) = SumFunction(f)
  BY Zenon DEF E!SumFunction, E!SumFunctionOnSet, E!FoldFunctionOnSet, E!MapThenFoldSet,
     SumFunction, SumFunctionOnSet, FoldFunctionOnSet, MapThenFoldSet
<1>a. \A o : E!Ahead(book, o) = Ahead(book, o)
  BY <1>1, Zenon DEF E!Ahead, Ahead, E!Wanted, Wanted, E!Before, Before
<1>2. E!Served(book, total) = Served(book, total)
  BY <1>a DEF E!Served, Served
<1>3. \A o : E!Portion(book, total, o) = Portion(book, total, o)
  BY <1>a DEF E!Portion, Portion
<1>4. \A S : E!Portions(book, total, S) = Portions(book, total, S)
  <2>1. \A S : [o \in S |-> E!Portion(book, total, o)] = [o \in S |-> Portion(book, total, o)]
    BY <1>3
  <2> QED  BY <1>1, <2>1, Zenon DEF E!Portions, Portions
<1>5. \A u : E!GivenTo(given, u) = GivenTo(given, u)
  BY Zenon DEF E!GivenTo, GivenTo
<1>6. E!GivenAfter(given, book, total) = GivenAfter(given, book, total)
  BY <1>2, <1>4, <1>5 DEF E!GivenAfter, GivenAfter
<1>7. E!OrdersAfter(book, total) = OrdersAfter(book, total)
  BY <1>2, <1>3 DEF E!OrdersAfter, OrdersAfter
<1>8. E!OfferAfter(book, total) = OfferAfter(book, total)
  BY <1>2, <1>4, Zenon DEF E!OfferAfter, OfferAfter
<1> QED  BY <1>6, <1>7, <1>8 DEF E!Match

\* It leaves an engine, takes nothing from anybody, and what a user has and
\* still wants is what the user had and wanted of the orders that it started on.
LEMMA MatchEffect ==
    ASSUME EngineTypes, NEW book, IsBook(book, Users), NEW total \in Int,
           E!Match(book, total), arrivals' \in Nat,
           \A o \in book : o.seq <= arrivals'
    PROVE  /\ EngineTypes'
           /\ \A u : GivenTo(given, u) <= GivenTo(given', u)
           /\ \A u : GivenTo(given', u) + Wanted(Mine(orders', u))
                       = GivenTo(given, u) + Wanted(Mine(book, u))
<1>1. /\ given' = GivenAfter(given, book, total)
      /\ orders' = OrdersAfter(book, total)
      /\ offer' = OfferAfter(book, total)
  BY MatchRule
<1>2. \A u \in DOMAIN given : given[u] \in Nat  BY DEF EngineTypes
<1>3. /\ \A u \in DOMAIN given' : given'[u] \in Nat
      /\ \A u : GivenTo(given, u) <= GivenTo(given', u)
  BY <1>1, <1>2, MatchGives, Zenon
<1>4. IsBook(orders', Users) /\ \A o \in orders' : \E p \in book : o.seq = p.seq
  BY <1>1, BookAfter
<1>5. \A o \in orders' : o.seq <= arrivals'
  BY <1>4
<1>6. offer' \in Int
  <2>1. Served(book, total) \subseteq Served(book, total)  OBVIOUS
  <2>2. Portions(book, total, Served(book, total)) \in Nat
    BY <2>1, PortionsFit
  <2> QED  BY <1>1, <2>2 DEF OfferAfter
<1>7. \A u : GivenTo(given', u) + Wanted(Mine(orders', u))
               = GivenTo(given, u) + Wanted(Mine(book, u))
  BY <1>1, <1>2, MatchKeepsDemand DEF Mine
<1> QED  BY <1>3, <1>4, <1>5, <1>6, <1>7 DEF EngineTypes

\* A buy adds its volume to what its user has and wants.
LEMMA BuyEffect ==
    ASSUME EngineTypes, NEW u \in Users, NEW v \in Nat, NEW p \in Nat, E!Buy(u, v, p)
    PROVE  /\ EngineTypes'
           /\ \A w : GivenTo(given, w) <= GivenTo(given', w)
           /\ \A w : GivenTo(given', w) + Wanted(Mine(orders', w))
                       = GivenTo(given, w) + Wanted(Mine(orders, w))
                         + (IF w = u THEN v ELSE 0)
<1> DEFINE new == [user |-> u, volume |-> v, price |-> p, seq |-> arrivals + 1]
           book == orders \cup {new}
<1>1. arrivals' = arrivals + 1 /\ E!Match(book, offer)
  BY DEF E!Buy
<1>2. arrivals \in Nat /\ offer \in Int /\ IsBook(orders, Users)
      /\ \A o \in orders : o.seq <= arrivals
  BY DEF EngineTypes
<1>3. new \in [user : Users, volume : Nat, price : Int, seq : Nat]
      /\ new.seq = arrivals + 1 /\ new.user = u /\ new.volume = v
  BY <1>2
<1> HIDE DEF new
<1>4. \A o \in orders : o.seq # new.seq /\ o.seq \in Nat
  BY <1>2, <1>3 DEF IsBook
<1>5. IsBook(book, Users)
  <2>1. IsFiniteSet(book)  BY <1>2, FS_AddElement DEF IsBook
  <2> QED  BY <1>2, <1>3, <1>4, <2>1 DEF IsBook
<1>6. \A o \in book : o.seq <= arrivals'
  <2>1. \A o \in orders : o.seq <= arrivals + 1  BY <1>2, <1>4
  <2> QED  BY <1>1, <1>2, <1>3, <2>1
<1>7. \A w : Wanted(Mine(book, w)) = Wanted(Mine(orders, w)) + (IF w = u THEN v ELSE 0)
          /\ Wanted(Mine(orders, w)) \in Nat
  <2> SUFFICES ASSUME NEW w
               PROVE  /\ Wanted(Mine(book, w))
                           = Wanted(Mine(orders, w)) + (IF w = u THEN v ELSE 0)
                      /\ Wanted(Mine(orders, w)) \in Nat
    OBVIOUS
  <2>1. Mine(orders, w) \in SUBSET book /\ Mine(book, w) \in SUBSET book
    BY DEF Mine
  <2>2. IsFiniteSet(Mine(book, w)) /\ \A o \in book : o.volume \in Nat
    BY <1>5, <2>1, FS_Subset DEF IsBook
  <2>3. Wanted(Mine(orders, w)) \in Nat
    BY <1>5, <2>1, <2>2, WantedBasics DEF IsBook
  <2>4. CASE w = u
    <3>1. new \in Mine(book, w) /\ Mine(book, w) \ {new} = Mine(orders, w)
      BY <1>3, <1>4, <2>4 DEF Mine
    <3>2. \A o \in Mine(book, w) : o.volume \in Nat  BY <2>1, <2>2
    <3>3. Wanted(Mine(book, w)) = new.volume + Wanted(Mine(book, w) \ {new})
      BY <2>2, <3>1, <3>2, WantedBasics
    <3> QED  BY <1>3, <2>3, <2>4, <3>1, <3>3
  <2>5. CASE w # u
    <3>1. Mine(book, w) = Mine(orders, w)  BY <1>3, <2>5 DEF Mine
    <3> QED  BY <2>3, <2>5, <3>1
  <2> QED  BY <2>4, <2>5
<1> HIDE DEF book
<1>8. arrivals' \in Nat  BY <1>1, <1>2
<1>9. /\ EngineTypes'
      /\ \A w : GivenTo(given, w) <= GivenTo(given', w)
      /\ \A w : GivenTo(given', w) + Wanted(Mine(orders', w))
                  = GivenTo(given, w) + Wanted(Mine(book, w))
  BY <1>1, <1>2, <1>5, <1>6, <1>8, MatchEffect
<1>10. \A w : GivenTo(given, w) \in Nat
  BY DEF EngineTypes, GivenTo
<1>11. \A w : GivenTo(given', w) + Wanted(Mine(orders', w))
              = GivenTo(given, w) + Wanted(Mine(orders, w)) + (IF w = u THEN v ELSE 0)
  <2> SUFFICES ASSUME NEW w
               PROVE  GivenTo(given', w) + Wanted(Mine(orders', w))
                        = GivenTo(given, w) + Wanted(Mine(orders, w))
                          + (IF w = u THEN v ELSE 0)
    OBVIOUS
  <2> DEFINE more == IF w = u THEN v ELSE 0
  <2>1. more \in Int  OBVIOUS
  <2>2. Wanted(Mine(book, w)) = Wanted(Mine(orders, w)) + more  BY <1>7
  <2> HIDE DEF more
  <2>3. GivenTo(given', w) + Wanted(Mine(orders', w))
          = GivenTo(given, w) + Wanted(Mine(orders, w)) + more
    BY <1>7, <1>9, <1>10, <2>1, <2>2
  <2> QED  BY <2>3 DEF more
<1> QED  BY <1>9, <1>11

\* A sell changes nothing of what anybody has and wants together.
LEMMA SellEffect ==
    ASSUME EngineTypes, NEW v \in Nat, E!Sell(v)
    PROVE  /\ EngineTypes'
           /\ \A w : GivenTo(given, w) <= GivenTo(given', w)
           /\ \A w : GivenTo(given', w) + Wanted(Mine(orders', w))
                       = GivenTo(given, w) + Wanted(Mine(orders, w))
<1>1. arrivals' = arrivals /\ E!Match(orders, offer + v)
  BY DEF E!Sell
<1>2. arrivals' \in Nat /\ offer + v \in Int /\ IsBook(orders, Users)
      /\ \A o \in orders : o.seq <= arrivals'
  BY <1>1 DEF EngineTypes
<1> QED  BY <1>1, <1>2, MatchEffect

-----------------------------------------------------------------------------
(* The calls *)

\* The fields of a call.
LEMMA CallFields ==
    ASSUME ApiTypes
    PROVE  /\ DOMAIN calls = 1 .. Len(calls) /\ Len(calls) \in Nat
           /\ IsFiniteSet(DOMAIN calls)
           /\ \A i \in DOMAIN calls :
                /\ calls[i] \in CallRecord
                /\ calls[i].request \in Requests /\ calls[i].attempts \in Nat \ {0}
                /\ calls[i].done \in Nat /\ calls[i].answer \in Answers
                /\ calls[i].had \in Nat
<1>1. DOMAIN calls = 1 .. Len(calls) /\ Len(calls) \in Nat
  BY DEF ApiTypes
<1>2. \A i \in DOMAIN calls : calls[i] \in CallRecord
  BY DEF ApiTypes
<1>3. IsFiniteSet(1 .. Len(calls))
  BY <1>1, FS_Interval
<1> QED  BY <1>1, <1>2, <1>3 DEF CallRecord

\* A call that is carried out once more differs in nothing else.
LEMMA CarriedEffect ==
    ASSUME ApiTypes, NEW m \in requests, Carried(m)
    PROVE  /\ calls' \in Seq(CallRecord) /\ Len(calls') = Len(calls)
           /\ DOMAIN calls' = DOMAIN calls /\ m.call \in DOMAIN calls
           /\ \A j \in DOMAIN calls :
                /\ calls'[j].request = calls[j].request
                /\ calls'[j].attempts = calls[j].attempts
                /\ calls'[j].answer = calls[j].answer
                /\ calls'[j].had = calls[j].had
                /\ calls'[j].done =
                     (IF j = m.call THEN calls[j].done + 1 ELSE calls[j].done)
<1>1. m.call \in DOMAIN calls  BY DEF ApiTypes
<1> DEFINE more == [calls[m.call] EXCEPT !.done = @ + 1]
<1>2. calls' = [calls EXCEPT ![m.call] = more]
  BY <1>1 DEF Carried
<1>3. more \in CallRecord
  BY <1>1, CallFields DEF CallRecord
<1>4. calls' \in Seq(CallRecord) /\ Len(calls') = Len(calls)
      /\ DOMAIN calls' = DOMAIN calls
  <2> HIDE DEF more
  <2> QED  BY <1>1, <1>2, <1>3 DEF ApiTypes
<1>5. /\ calls'[m.call] = more
      /\ \A j \in DOMAIN calls \ {m.call} : calls'[j] = calls[j]
  <2> HIDE DEF more
  <2> QED  BY <1>1, <1>2 DEF ApiTypes
<1>6. /\ calls'[m.call].request = calls[m.call].request
      /\ calls'[m.call].attempts = calls[m.call].attempts
      /\ calls'[m.call].answer = calls[m.call].answer
      /\ calls'[m.call].had = calls[m.call].had
      /\ calls'[m.call].done = calls[m.call].done + 1
  BY <1>1, <1>5, CallFields DEF CallRecord
<1> QED  BY <1>1, <1>4, <1>5, <1>6

\* An attempt that a handler has just ended was not among the ended ones.
LEMMA EndedMore ==
    ASSUME ApiTypes, NEW m \in requests, requests' = requests \ {m},
           \A j \in DOMAIN calls : calls'[j].attempts = calls[j].attempts
    PROVE  \A j \in DOMAIN calls :
              /\ IsFiniteSet(Ended(j)) /\ Cardinality(Ended(j)) \in Nat
              /\ Cardinality(Ended(j))' =
                   (IF j = m.call THEN Cardinality(Ended(j)) + 1
                                  ELSE Cardinality(Ended(j)))
<1> SUFFICES ASSUME NEW j \in DOMAIN calls
             PROVE  /\ IsFiniteSet(Ended(j)) /\ Cardinality(Ended(j)) \in Nat
                    /\ Cardinality(Ended(j))' =
                         (IF j = m.call THEN Cardinality(Ended(j)) + 1
                                        ELSE Cardinality(Ended(j)))
  OBVIOUS
<1>1. IsFiniteSet(Ended(j)) /\ Cardinality(Ended(j)) \in Nat
  <2>1. calls[j].attempts \in Int  BY CallFields
  <2>3. IsFiniteSet(1 .. calls[j].attempts)
    BY <2>1, FS_Interval
  <2>2. Ended(j) \subseteq 1 .. calls[j].attempts  BY DEF Ended
  <2> QED  BY <2>2, <2>3, FS_Subset, FS_CardinalityType
<1>2. /\ m = Attempt(m.call, m.attempt) /\ m.attempt \in 1 .. calls[m.call].attempts
      /\ \A n : Attempt(j, n) = m <=> j = m.call /\ n = m.attempt
  BY DEF ApiTypes, Attempt
<1>3. CASE j = m.call
  <2>1. Ended(j)' = Ended(j) \cup {m.attempt} /\ m.attempt \notin Ended(j)
    BY <1>2, <1>3 DEF Ended, Attempt
  <2> QED  BY <1>1, <1>3, <2>1, FS_AddElement
<1>4. CASE j # m.call
  <2>1. Ended(j)' = Ended(j)
    BY <1>2, <1>4 DEF Ended, Attempt
  <2> QED  BY <1>1, <1>4, <2>1
<1> QED  BY <1>3, <1>4

\* A handler that ends an attempt with an answer that the state vouches for.
LEMMA HandlerStep ==
    ASSUME IInv, NEW m \in requests, NEW answer \in Answers, Reply(m, answer),
           EngineTypes', \A u : GivenTo(given, u) <= GivenTo(given', u),
           \/ UNCHANGED calls
           \/ Carried(m) /\ ~Refused(RequestOf(m)) /\ RequestOf(m).op # "allocation",
           Vouched(m.call, answer)'
    PROVE  IInv'
<1>1. ApiTypes /\ EngineTypes /\ CarriedOut /\ StillThere /\ AnswersVouched
  BY DEF IInv
<1>2. /\ calls' \in Seq(CallRecord) /\ Len(calls') = Len(calls)
      /\ DOMAIN calls' = DOMAIN calls /\ m.call \in DOMAIN calls
      /\ \A j \in DOMAIN calls :
            /\ calls'[j].request = calls[j].request
            /\ calls'[j].attempts = calls[j].attempts
            /\ calls'[j].answer = calls[j].answer
            /\ calls'[j].had = calls[j].had
            /\ calls'[j].done \in Nat /\ calls[j].done <= calls'[j].done
            /\ calls'[j].done <= calls[j].done + (IF j = m.call THEN 1 ELSE 0)
            /\ Refused(calls[j].request) \/ calls[j].request.op = "allocation"
                 => calls'[j].done = calls[j].done
  <2>1. m.call \in DOMAIN calls /\ \A j \in DOMAIN calls : calls[j].done \in Nat
    BY <1>1, CallFields DEF ApiTypes
  <2>2. CASE UNCHANGED calls
    BY <1>1, <2>1, <2>2 DEF ApiTypes
  <2>3. CASE Carried(m) /\ ~Refused(RequestOf(m)) /\ RequestOf(m).op # "allocation"
    BY <1>1, <2>1, <2>3, CarriedEffect DEF RequestOf
  <2> QED  BY <2>2, <2>3
<1>3. /\ requests' = requests \ {m} /\ waitsFor' = waitsFor
      /\ answers' \subseteq answers \cup {[call |-> m.call, answer |-> answer]}
  BY DEF Reply
<1>4. ApiTypes'
  <2>1. requests' \subseteq [call : DOMAIN calls', attempt : Nat]
    BY <1>1, <1>2, <1>3 DEF ApiTypes
  <2>2. \A n \in requests' : n.attempt \in 1 .. calls'[n.call].attempts
    BY <1>1, <1>2, <1>3 DEF ApiTypes
  <2>3. answers' \subseteq [call : DOMAIN calls', answer : Answers]
    BY <1>1, <1>2, <1>3 DEF ApiTypes
  <2>4. waitsFor' \in [Clients -> 0 .. Len(calls')]
    BY <1>1, <1>2, <1>3 DEF ApiTypes
  <2> QED  BY <1>2, <2>1, <2>2, <2>3, <2>4 DEF ApiTypes
<1>5. CarriedOut'
  <2>1. \A j \in DOMAIN calls : calls[j].done \in Nat  BY <1>1, CallFields
  <2>2. \A j \in DOMAIN calls : calls'[j].done <= Cardinality(Ended(j))'
    <3>1. \A j \in DOMAIN calls :
              /\ Cardinality(Ended(j)) \in Nat
              /\ Cardinality(Ended(j))' =
                   (IF j = m.call THEN Cardinality(Ended(j)) + 1
                                  ELSE Cardinality(Ended(j)))
      BY <1>1, <1>2, <1>3, EndedMore
    <3>2. \A j \in DOMAIN calls : calls[j].done <= Cardinality(Ended(j))
      BY <1>1 DEF CarriedOut
    <3> QED  BY <1>2, <2>1, <3>1, <3>2
  <2>3. \A j \in DOMAIN calls :
            Refused(calls'[j].request) \/ calls'[j].request.op = "allocation"
              => calls'[j].done = 0
    BY <1>1, <1>2 DEF CarriedOut, OpOf
  <2> QED  BY <1>2, <2>2, <2>3 DEF CarriedOut, OpOf
<1>6. StillThere'
  <2> SUFFICES ASSUME NEW i \in DOMAIN calls, calls[i].request.op = "allocation"
               PROVE  calls[i].had <= GivenTo(given', Decoded(calls[i].request).user)
    BY <1>2 DEF StillThere, OpOf
  <2> DEFINE u == Decoded(calls[i].request).user
  <2>1. calls[i].had <= GivenTo(given, u) /\ calls[i].had \in Nat
    BY <1>1, CallFields DEF StillThere, OpOf
  <2>2. GivenTo(given, u) <= GivenTo(given', u)  OBVIOUS
  <2>3. GivenTo(given, u) \in Nat /\ GivenTo(given', u) \in Nat
    BY <1>1 DEF EngineTypes, GivenTo
  <2> HIDE DEF u
  <2>4. calls[i].had <= GivenTo(given', u)  BY <2>1, <2>2, <2>3
  <2> QED  BY <2>4 DEF u
<1>7. AnswersVouched'
  <2>1. ASSUME NEW i \in DOMAIN calls, NEW a, Vouched(i, a)  PROVE Vouched(i, a)'
    <3>1. calls[i].done \in Nat  BY <1>1, CallFields
    <3> QED  BY <1>2, <2>1, <3>1 DEF Vouched, OpOf
  <2>2. \A a \in answers : a.call \in DOMAIN calls /\ Vouched(a.call, a.answer)
    BY <1>1 DEF AnswersVouched, ApiTypes
  <2>3. \A a \in answers : Vouched(a.call, a.answer)'
    BY <2>1, <2>2
  <2>4. \A a \in answers' : Vouched(a.call, a.answer)'
    BY <1>3, <2>3
  <2>5. ASSUME NEW i \in DOMAIN calls  PROVE Vouched(i, calls[i].answer)'
    <3>1. PICK a : a = calls[i].answer  OBVIOUS
    <3>2. Vouched(i, a)  BY <1>1, <3>1 DEF AnswersVouched
    <3>3. Vouched(i, a)'  BY <2>1, <3>2
    <3>4. a = calls'[i].answer  BY <1>2, <3>1
    <3> QED  BY <3>3, <3>4 DEF Vouched, OpOf
  <2>6. \A i \in DOMAIN calls' : Vouched(i, calls[i].answer)'
    BY <1>2, <2>5
  <2> QED  BY <2>4, <2>6 DEF AnswersVouched
<1> QED  BY <1>4, <1>5, <1>6, <1>7 DEF IInv

-----------------------------------------------------------------------------
(* The handlers *)

\* A request that is refused leaves everything as it was.
LEMMA RefuseInv ==
    ASSUME IInv, NEW m \in requests, Refuse(m)
    PROVE  IInv'
<1>1. Refused(RequestOf(m)) /\ Reply(m, Error) /\ UNCHANGED <<engine, calls>>
  BY DEF Refuse
<1>2. Error \in Answers /\ Error.status = "error"  BY DEF Error, Answers
<1>3. EngineTypes' /\ \A u : GivenTo(given, u) <= GivenTo(given', u)
  <2>1. \A u : GivenTo(given, u) \in Nat  BY DEF IInv, EngineTypes, GivenTo
  <2>2. UNCHANGED <<offer, given, orders, arrivals>>  BY <1>1 DEF engine
  <2> QED  BY <2>1, <2>2 DEF IInv, EngineTypes
<1>4. Vouched(m.call, Error)'
  <2>1. calls' = calls  BY <1>1
  <2>2. OpOf(m.call) = "allocation" => ~Complete(calls[m.call].request)
    BY <1>1, RequestFacts DEF Refused, RequestOf, OpOf
  <2>3. Vouched(m.call, Error)  BY <1>1, <1>2, <2>2 DEF Vouched, RequestOf
  <2> QED  BY <2>1, <2>3 DEF Vouched, OpOf
<1>5. \E answer \in Answers : answer = Error /\ Reply(m, answer) /\ Vouched(m.call, answer)'
  BY <1>1, <1>2, <1>4 DEF Vouched, OpOf, Error
<1> QED  BY <1>1, <1>3, <1>5, HandlerStep

\* A request that is carried out gets the answer ok, once it was.
LEMMA CarriedStep ==
    ASSUME IInv, NEW m \in requests, Carried(m), Reply(m, Ok(0)),
           ~Refused(RequestOf(m)), RequestOf(m).op # "allocation",
           EngineTypes', \A u : GivenTo(given, u) <= GivenTo(given', u)
    PROVE  IInv'
<1>1. Ok(0) \in Answers /\ Ok(0).status = "ok"  BY DEF Ok, Answers
<1>2. ApiTypes  BY DEF IInv
<1>3. /\ m.call \in DOMAIN calls /\ calls[m.call].done \in Nat
      /\ calls'[m.call].done = calls[m.call].done + 1
      /\ calls'[m.call].request = calls[m.call].request
  BY <1>2, CarriedEffect, CallFields
<1>4. Vouched(m.call, Ok(0))'
  BY <1>1, <1>3 DEF Vouched, OpOf, RequestOf, Ok
<1>5. \E answer \in Answers : answer = Ok(0) /\ Reply(m, answer) /\ Vouched(m.call, answer)'
  BY <1>1, <1>4 DEF Vouched, OpOf, Ok
<1> QED  BY <1>5, HandlerStep

\* The request of an attempt is one of the requests.
LEMMA RequestOfAttempt ==
    ASSUME ApiTypes, NEW m \in requests
    PROVE  m.call \in DOMAIN calls /\ RequestOf(m) \in Requests
BY CallFields DEF ApiTypes, RequestOf

\* What a buy does to the engine and to the count of its call.
LEMMA BuyInv ==
    ASSUME IInv, NEW m \in requests, Buy(m)
    PROVE  IInv'
<1> DEFINE r == RequestOf(m)
           d == Decoded(RequestOf(m))
<1>1. d.op = "buy" /\ ~Refused(r) /\ E!Buy(d.user, d.volume, d.price)
      /\ Carried(m) /\ Reply(m, Ok(0))
  BY DEF Buy
<1>2. r \in Requests  BY RequestOfAttempt DEF IInv
<1>3. r.op = "buy" /\ d.user \in Users /\ d.volume \in Nat /\ d.price \in Nat
  BY <1>1, <1>2, RequestFacts
<1> HIDE DEF d
<1>4. EngineTypes' /\ \A u : GivenTo(given, u) <= GivenTo(given', u)
  BY <1>1, <1>3, BuyEffect DEF IInv
<1> QED  BY <1>1, <1>3, <1>4, CarriedStep

\* The same of a sell.
LEMMA SellInv ==
    ASSUME IInv, NEW m \in requests, Sell(m)
    PROVE  IInv'
<1> DEFINE r == RequestOf(m)
           d == Decoded(RequestOf(m))
<1>1. d.op = "sell" /\ ~Refused(r) /\ E!Sell(d.volume) /\ Carried(m) /\ Reply(m, Ok(0))
  BY DEF Sell
<1>2. r \in Requests  BY RequestOfAttempt DEF IInv
<1>3. r.op = "sell" /\ d.volume \in Nat
  BY <1>1, <1>2, RequestFacts
<1> HIDE DEF d
<1>4. EngineTypes' /\ \A u : GivenTo(given, u) <= GivenTo(given', u)
  BY <1>1, <1>3, SellEffect DEF IInv
<1> QED  BY <1>1, <1>3, <1>4, CarriedStep

\* A read is answered with what the user has now, which is what the user had
\* when it was asked for or more.
LEMMA GetAllocationInv ==
    ASSUME IInv, NEW m \in requests, GetAllocation(m)
    PROVE  IInv'
<1> DEFINE i == m.call
           u == Decoded(RequestOf(m)).user
<1>1. RequestOf(m).op = "allocation" /\ Reply(m, Allocation(RequestOf(m)))
      /\ UNCHANGED <<engine, calls>>
  BY DEF GetAllocation
<1>2. i \in DOMAIN calls /\ ApiTypes /\ EngineTypes /\ StillThere
  BY RequestOfAttempt DEF IInv
<1>3. EngineTypes' /\ \A v : GivenTo(given, v) <= GivenTo(given', v)
  <2>1. \A v : GivenTo(given, v) \in Nat  BY <1>2 DEF EngineTypes, GivenTo
  <2>2. UNCHANGED <<offer, given, orders, arrivals>>  BY <1>1 DEF engine
  <2> QED  BY <1>2, <2>1, <2>2 DEF EngineTypes
<1>4. calls[i].had <= GivenTo(given, u) /\ calls[i].had \in Nat
  BY <1>1, <1>2, CallFields DEF StillThere, OpOf, RequestOf
<1>5. PICK answer : answer = Allocation(RequestOf(m))
  OBVIOUS
<1>6. answer \in Answers /\ Vouched(i, answer)
  <2> HIDE DEF i, u
  <2>1. OpOf(i) = "allocation"  BY <1>1 DEF i, OpOf, RequestOf
  <2>2. CASE u \in DOMAIN given
    <3>1. answer = [status |-> "ok", volume |-> given[u]]
      BY <1>5, <2>2 DEF Allocation, Ok, u
    <3>2. given[u] \in Nat /\ calls[i].had <= given[u]
      BY <1>2, <1>4, <2>2 DEF EngineTypes, GivenTo
    <3> QED  BY <1>4, <2>1, <3>1, <3>2 DEF Vouched, Answers
  <2>3. CASE u \notin DOMAIN given
    <3>1. answer = Error \/ answer = Ok(0)
      BY <1>5, <2>3 DEF Allocation, u
    <3>2. calls[i].had = 0  BY <1>4, <2>3 DEF GivenTo
    <3> QED  BY <2>1, <3>1, <3>2 DEF Vouched, Answers, Error, Ok
  <2> QED  BY <2>2, <2>3
<1>7. Vouched(m.call, answer)'
  BY <1>1, <1>6 DEF Vouched, OpOf
<1>8. Reply(m, answer)  BY <1>1, <1>5
<1> QED  BY <1>1, <1>3, <1>6, <1>7, <1>8, HandlerStep

-----------------------------------------------------------------------------
(* The clients *)

\* A step that leaves the engine alone.
LEMMA EngineRests ==
    ASSUME IInv, UNCHANGED engine
    PROVE  EngineTypes' /\ given' = given /\ \A u : E!Given(u) = GivenTo(given, u)
<1>1. UNCHANGED <<offer, given, orders, arrivals>>  BY DEF engine
<1>2. EngineTypes'  BY <1>1 DEF IInv, EngineTypes
<1>3. \A u : E!Given(u) = GivenTo(given, u)
  BY Zenon DEF E!Given, E!GivenTo, GivenTo
<1> QED  BY <1>1, <1>2, <1>3

\* A new call: not served yet, and its user has what a read will promise.
LEMMA SendInv ==
    ASSUME IInv, NEW c \in Clients, Send(c)
    PROVE  IInv'
<1>1. PICK r \in Requests :
        calls' = Append(calls,
            [request |-> r, attempts |-> 1, done |-> 0, answer |-> NoAnswer,
             had |-> IF r.op = "allocation" THEN E!Given(Decoded(r).user) ELSE 0])
  BY DEF Send
<1>n. PICK n : n = Len(calls) + 1  OBVIOUS
<1> DEFINE had == IF r.op = "allocation" THEN E!Given(Decoded(r).user) ELSE 0
           new == [request |-> r, attempts |-> 1, done |-> 0,
                   answer |-> NoAnswer, had |-> had]
<1>2. /\ calls' = Append(calls, new)
      /\ waitsFor' = [waitsFor EXCEPT ![c] = n]
      /\ requests' = requests \cup {Attempt(n, 1)}
      /\ UNCHANGED <<engine, answers>>
  BY <1>n, <1>1 DEF Send
<1>3. /\ EngineTypes' /\ given' = given
      /\ \A u : E!Given(u) = GivenTo(given, u) /\ GivenTo(given, u) \in Nat
  BY <1>2, EngineRests DEF IInv, EngineTypes, GivenTo
<1>4. had \in Nat /\ (r.op = "allocation" => had <= GivenTo(given, Decoded(r).user))
  <2>1. \A u : E!Given(u) \in Nat /\ E!Given(u) <= GivenTo(given, u)
    BY <1>3
  <2> QED  BY <2>1
<1> HIDE DEF had
<1>5. new \in CallRecord
  BY <1>4 DEF CallRecord, NoAnswer, Answers
<1>6. /\ new.request = r /\ new.attempts = 1 /\ new.done = 0
      /\ new.answer = NoAnswer /\ new.had = had
  OBVIOUS
<1>7. ApiTypes /\ CarriedOut /\ StillThere /\ AnswersVouched
  BY DEF IInv
<1>8. DOMAIN calls = 1 .. Len(calls) /\ Len(calls) \in Nat
      /\ \A i \in DOMAIN calls : calls[i].done \in Nat
  BY <1>7, CallFields
<1> HIDE DEF new
<1>9. /\ calls' \in Seq(CallRecord) /\ Len(calls') = n
      /\ DOMAIN calls' = DOMAIN calls \cup {n} /\ n \notin DOMAIN calls
      /\ calls'[n] = new /\ \A i \in DOMAIN calls : calls'[i] = calls[i]
  BY <1>n, <1>2, <1>5, <1>7, <1>8 DEF ApiTypes
<1>10. ApiTypes'
  <2>1. /\ requests' \subseteq [call : DOMAIN calls', attempt : Nat]
        /\ \A m \in requests' : m.attempt \in 1 .. calls'[m.call].attempts
    BY <1>2, <1>6, <1>7, <1>9 DEF ApiTypes, Attempt
  <2>2. answers' \subseteq [call : DOMAIN calls', answer : Answers]
    BY <1>2, <1>7, <1>9 DEF ApiTypes
  <2>3. waitsFor' \in [Clients -> 0 .. Len(calls')]
    BY <1>n, <1>2, <1>7, <1>8, <1>9 DEF ApiTypes
  <2> QED  BY <1>9, <2>1, <2>2, <2>3 DEF ApiTypes
<1>11. CarriedOut'
  <2>1. \A i \in DOMAIN calls : Ended(i)' = Ended(i)
    BY <1>2, <1>9 DEF Ended, Attempt
  <2>2. Cardinality(Ended(n)') = 0
    <3>1. Ended(n)' = {}
      BY <1>2, <1>6, <1>9 DEF Ended
    <3> QED  BY <3>1, FS_EmptySet
  <2>3. \A i \in DOMAIN calls' : calls'[i].done <= Cardinality(Ended(i)')
    BY <1>6, <1>7, <1>9, <2>1, <2>2 DEF CarriedOut
  <2>4. \A i \in DOMAIN calls' :
            Refused(calls'[i].request) \/ calls'[i].request.op = "allocation"
              => calls'[i].done = 0
    BY <1>6, <1>7, <1>9 DEF CarriedOut, OpOf
  <2> QED  BY <2>3, <2>4 DEF CarriedOut, OpOf
<1>12. StillThere'
  BY <1>3, <1>4, <1>6, <1>7, <1>9 DEF StillThere, OpOf
<1>13. AnswersVouched'
  <2>1. \A a \in answers : a.call \in DOMAIN calls  BY <1>7 DEF ApiTypes
  <2>2. \A a \in answers' : Vouched(a.call, a.answer)'
    BY <1>2, <1>7, <1>9, <2>1 DEF AnswersVouched, Vouched, OpOf
  <2>3. \A i \in DOMAIN calls : Vouched(i, calls[i].answer)'
    BY <1>7, <1>9 DEF AnswersVouched, Vouched, OpOf
  <2>4. Vouched(n, calls[n].answer)'
    BY <1>6, <1>9 DEF Vouched, NoAnswer
  <2> QED  BY <1>9, <2>2, <2>3, <2>4 DEF AnswersVouched
<1> QED  BY <1>3, <1>10, <1>11, <1>12, <1>13 DEF IInv

\* Another attempt at a call: it has not ended, and answers to the earlier ones
\* are not read any more.
LEMMA RetryInv ==
    ASSUME IInv, NEW c \in Clients, Retry(c)
    PROVE  IInv'
<1> DEFINE i == waitsFor[c]
           n == calls[i].attempts + 1
           more == [calls[i] EXCEPT !.attempts = @ + 1]
<1>1. ApiTypes /\ CarriedOut /\ StillThere /\ AnswersVouched
  BY DEF IInv
<1>2. DOMAIN calls = 1 .. Len(calls) /\ Len(calls) \in Nat
      /\ \A j \in DOMAIN calls :
            calls[j] \in CallRecord /\ calls[j].attempts \in Nat \ {0}
  BY <1>1, CallFields
<1>3. i \in DOMAIN calls
  BY <1>1, <1>2 DEF Retry, ApiTypes
<1>4. /\ calls' = [calls EXCEPT ![i] = more]
      /\ requests' = requests \cup {Attempt(i, n)}
      /\ answers' \subseteq answers /\ UNCHANGED <<engine, waitsFor>>
  BY <1>3 DEF Retry
<1>5. /\ more \in CallRecord /\ more.attempts = n /\ n \in Nat
      /\ more.request = calls[i].request /\ more.done = calls[i].done
      /\ more.answer = calls[i].answer /\ more.had = calls[i].had
  BY <1>2, <1>3 DEF CallRecord
<1>6. EngineTypes' /\ given' = given
  BY <1>4, EngineRests
<1> HIDE DEF i, more
<1>7. /\ calls' \in Seq(CallRecord) /\ Len(calls') = Len(calls)
      /\ DOMAIN calls' = DOMAIN calls /\ calls'[i] = more
      /\ \A j \in DOMAIN calls \ {i} : calls'[j] = calls[j]
  BY <1>1, <1>3, <1>4, <1>5 DEF ApiTypes
<1>8. \A j \in DOMAIN calls :
        /\ calls'[j].request = calls[j].request /\ calls'[j].done = calls[j].done
        /\ calls'[j].answer = calls[j].answer /\ calls'[j].had = calls[j].had
        /\ calls'[j].attempts = (IF j = i THEN n ELSE calls[j].attempts)
  BY <1>5, <1>7
<1>9. ApiTypes'
  <2>1. requests' \subseteq [call : DOMAIN calls', attempt : Nat]
    BY <1>1, <1>3, <1>4, <1>5, <1>7 DEF ApiTypes, Attempt
  <2>2. \A m \in requests' : m.attempt \in 1 .. calls'[m.call].attempts
    <3>1. \A m \in requests :
            m.call \in DOMAIN calls /\ m.attempt \in 1 .. calls[m.call].attempts
      BY <1>1 DEF ApiTypes
    <3>2. \A m \in requests : m.attempt \in 1 .. calls'[m.call].attempts
      BY <1>2, <1>8, <3>1
    <3>3. Attempt(i, n).attempt \in 1 .. calls'[Attempt(i, n).call].attempts
      BY <1>2, <1>3, <1>8 DEF Attempt
    <3> QED  BY <1>4, <3>2, <3>3
  <2>3. answers' \subseteq [call : DOMAIN calls', answer : Answers]
    BY <1>1, <1>4, <1>7 DEF ApiTypes
  <2> QED  BY <1>1, <1>4, <1>7, <2>1, <2>2, <2>3 DEF ApiTypes
<1>10. CarriedOut'
  <2>1. ASSUME NEW j \in DOMAIN calls  PROVE Ended(j)' = Ended(j)
    <3>1. CASE j = i
      <4>1. 1 .. n = (1 .. calls[i].attempts) \cup {n} /\ n \notin 1 .. calls[i].attempts
        BY <1>2, <1>3
      <4>2. \A k \in 1 .. calls[i].attempts :
                Attempt(i, k) \in requests' <=> Attempt(i, k) \in requests
        BY <1>4, <4>1 DEF Attempt
      <4>3. Attempt(i, n) \in requests'  BY <1>4
      <4> QED  BY <1>8, <3>1, <4>1, <4>2, <4>3 DEF Ended
    <3>2. CASE j # i
      BY <1>4, <1>8, <3>2 DEF Ended, Attempt
    <3> QED  BY <3>1, <3>2
  <2> QED  BY <1>1, <1>7, <1>8, <2>1 DEF CarriedOut, OpOf
<1>11. StillThere'
  BY <1>1, <1>6, <1>7, <1>8 DEF StillThere, OpOf
<1>12. AnswersVouched'
  <2>1. \A a \in answers : a.call \in DOMAIN calls  BY <1>1 DEF ApiTypes
  <2>2. \A j \in DOMAIN calls : \A a : Vouched(j, a) => Vouched(j, a)'
    BY <1>8 DEF Vouched, OpOf
  <2>3. \A a \in answers' : Vouched(a.call, a.answer)'
    BY <1>1, <1>4, <2>1, <2>2 DEF AnswersVouched
  <2>4. \A j \in DOMAIN calls : Vouched(j, calls[j].answer)'
    BY <1>1, <1>8 DEF AnswersVouched, Vouched, OpOf
  <2> QED  BY <1>7, <2>3, <2>4 DEF AnswersVouched
<1> QED  BY <1>6, <1>9, <1>10, <1>11, <1>12 DEF IInv

\* A client that has given up reads no answer.
LEMMA GiveUpInv ==
    ASSUME IInv, NEW c \in Clients, GiveUp(c)
    PROVE  IInv'
<1>1. /\ waitsFor' = [waitsFor EXCEPT ![c] = 0] /\ answers' \subseteq answers
      /\ UNCHANGED <<engine, requests, calls>>
  BY DEF GiveUp
<1>2. EngineTypes' /\ given' = given
  BY <1>1, EngineRests
<1>3. ApiTypes'
  BY <1>1, CallFields DEF IInv, ApiTypes
<1> QED
  BY <1>1, <1>2, <1>3
  DEF IInv, CarriedOut, StillThere, AnswersVouched, Vouched, Ended, OpOf

\* What a client reads was vouched for on its way.
LEMMA ReceiveInv ==
    ASSUME IInv, NEW c \in Clients, NEW a \in answers, Receive(c, a)
    PROVE  IInv'
<1> DEFINE i == a.call
           told == [calls[i] EXCEPT !.answer = a.answer]
<1>1. ApiTypes /\ CarriedOut /\ StillThere /\ AnswersVouched
  BY DEF IInv
<1>2. DOMAIN calls = 1 .. Len(calls) /\ Len(calls) \in Nat
      /\ \A j \in DOMAIN calls : calls[j] \in CallRecord
  BY <1>1, CallFields
<1>3. i \in DOMAIN calls /\ a.answer \in Answers /\ Vouched(i, a.answer)
  BY <1>1 DEF ApiTypes, AnswersVouched
<1>4. /\ calls' = [calls EXCEPT ![i] = told] /\ answers' \subseteq answers
      /\ waitsFor' = [waitsFor EXCEPT ![c] = 0] /\ UNCHANGED <<engine, requests>>
  BY <1>3 DEF Receive
<1>5. /\ told \in CallRecord /\ told.answer = a.answer
      /\ told.request = calls[i].request /\ told.done = calls[i].done
      /\ told.attempts = calls[i].attempts /\ told.had = calls[i].had
  BY <1>2, <1>3 DEF CallRecord
<1>6. EngineTypes' /\ given' = given
  BY <1>4, EngineRests
<1> HIDE DEF i, told
<1>7. /\ calls' \in Seq(CallRecord) /\ Len(calls') = Len(calls)
      /\ DOMAIN calls' = DOMAIN calls /\ calls'[i] = told
      /\ \A j \in DOMAIN calls \ {i} : calls'[j] = calls[j]
  BY <1>1, <1>3, <1>4, <1>5 DEF ApiTypes
<1>8. \A j \in DOMAIN calls :
        /\ calls'[j].request = calls[j].request /\ calls'[j].done = calls[j].done
        /\ calls'[j].attempts = calls[j].attempts /\ calls'[j].had = calls[j].had
        /\ j = i => calls'[j].answer = a.answer
        /\ j # i => calls'[j].answer = calls[j].answer
  BY <1>5, <1>7
<1>9. ApiTypes'
  <2>1. requests' \subseteq [call : DOMAIN calls', attempt : Nat]
    BY <1>1, <1>4, <1>7 DEF ApiTypes
  <2>2. \A m \in requests' : m.attempt \in 1 .. calls'[m.call].attempts
    BY <1>1, <1>4, <1>8 DEF ApiTypes
  <2>3. answers' \subseteq [call : DOMAIN calls', answer : Answers]
    BY <1>1, <1>4, <1>7 DEF ApiTypes
  <2>4. waitsFor' \in [Clients -> 0 .. Len(calls')]
    BY <1>1, <1>2, <1>4, <1>7 DEF ApiTypes
  <2> QED  BY <1>7, <2>1, <2>2, <2>3, <2>4 DEF ApiTypes
<1>10. CarriedOut'
  <2>1. \A j \in DOMAIN calls : Ended(j)' = Ended(j)
    BY <1>4, <1>8 DEF Ended
  <2> QED  BY <1>1, <1>7, <1>8, <2>1 DEF CarriedOut, OpOf
<1>11. StillThere'
  BY <1>1, <1>6, <1>7, <1>8 DEF StillThere, OpOf
<1>12. AnswersVouched'
  <2>1. \A b \in answers : b.call \in DOMAIN calls  BY <1>1 DEF ApiTypes
  <2>2. \A j \in DOMAIN calls : \A b : Vouched(j, b) => Vouched(j, b)'
    BY <1>8 DEF Vouched, OpOf
  <2>3. \A b \in answers' : Vouched(b.call, b.answer)'
    BY <1>1, <1>4, <2>1, <2>2 DEF AnswersVouched
  <2>4. ASSUME NEW j \in DOMAIN calls  PROVE Vouched(j, calls[j].answer)'
    <3>1. CASE j = i
      BY <1>3, <1>8, <3>1 DEF Vouched, OpOf
    <3>2. CASE j # i
      BY <1>1, <1>8, <3>2 DEF AnswersVouched, Vouched, OpOf
    <3> QED  BY <3>1, <3>2
  <2> QED  BY <1>7, <2>3, <2>4 DEF AnswersVouched
<1> QED  BY <1>6, <1>9, <1>10, <1>11, <1>12 DEF IInv

-----------------------------------------------------------------------------
\* Nobody has called yet.
LEMMA InitInv == Init => IInv
<1> SUFFICES ASSUME Init  PROVE IInv
  OBVIOUS
<1>1. /\ offer = 0 /\ orders = {} /\ arrivals = 0 /\ DOMAIN given = {}
      /\ requests = {} /\ answers = {} /\ calls = <<>>
      /\ waitsFor = [c \in Clients |-> 0]
  BY DEF Init, E!Init
<1>2. DOMAIN calls = {} /\ Len(calls) = 0 /\ calls \in Seq(CallRecord)
  BY <1>1
<1>3. EngineTypes
  BY <1>1, FS_EmptySet DEF EngineTypes, IsBook
<1>4. ApiTypes
  BY <1>1, <1>2 DEF ApiTypes
<1>5. CarriedOut /\ StillThere /\ AnswersVouched
  BY <1>1, <1>2 DEF CarriedOut, StillThere, AnswersVouched
<1> QED  BY <1>3, <1>4, <1>5 DEF IInv

\* Each step of a client or a handler keeps the invariant.
LEMMA NextInv == ASSUME IInv, [Next]_vars  PROVE IInv'
<1>1. CASE UNCHANGED vars
  <2>1. UNCHANGED <<engine, requests, answers, waitsFor, calls>>
    BY <1>1 DEF vars
  <2>2. EngineTypes' /\ given' = given  BY <2>1, EngineRests
  <2> QED
    BY <2>1, <2>2
    DEF IInv, ApiTypes, CarriedOut, StillThere, AnswersVouched, Vouched, Ended, OpOf
<1>2. CASE Finished
  BY <1>1, <1>2 DEF Finished
<1> QED
  BY <1>1, <1>2, SendInv, RetryInv, GiveUpInv, ReceiveInv,
     RefuseInv, BuyInv, SellInv, GetAllocationInv
  DEF Next

\* The invariant, for any number of clients, calls and attempts.
LEMMA InvariantHolds == Spec => []IInv
<1>1. IInv /\ [Next]_vars => IInv'
  BY NextInv
<1> QED  BY InitInv, <1>1, PTL DEF Spec

\* What the two transports tell a client is so: an error means that no attempt
\* has reached the engine, a success that at least one has and no more than
\* were made.
THEOREM HonestAnswers == Spec => []AnswersAreHonest
<1>1. IInv => AnswersAreHonest
  <2> SUFFICES ASSUME IInv, NEW i \in DOMAIN calls
               PROVE  /\ calls[i].answer.status = "error" => calls[i].done = 0
                      /\ calls[i].answer.status = "ok" /\ OpOf(i) # "allocation" =>
                           calls[i].done \in 1 .. calls[i].attempts
    BY DEF AnswersAreHonest, OpOf
  <2>1. Vouched(i, calls[i].answer) /\ calls[i].done <= Cardinality(Ended(i))
        /\ (Refused(calls[i].request) \/ OpOf(i) = "allocation" => calls[i].done = 0)
    BY DEF IInv, AnswersVouched, CarriedOut
  <2>2. calls[i].done \in Nat /\ calls[i].attempts \in Nat
    BY CallFields DEF IInv
  <2>3. Cardinality(Ended(i)) \in Nat /\ Cardinality(Ended(i)) <= calls[i].attempts
    <3>1. Ended(i) \subseteq 1 .. calls[i].attempts  BY DEF Ended
    <3>2. /\ IsFiniteSet(1 .. calls[i].attempts)
          /\ Cardinality(1 .. calls[i].attempts) = calls[i].attempts
      <4>1. 1 \in Int /\ calls[i].attempts \in Int  BY <2>2
      <4>2. /\ IsFiniteSet(1 .. calls[i].attempts)
            /\ Cardinality(1 .. calls[i].attempts)
                 = IF 1 > calls[i].attempts THEN 0 ELSE calls[i].attempts - 1 + 1
        BY <4>1, FS_Interval
      <4> QED  BY <2>2, <4>2
    <3> QED  BY <3>1, <3>2, FS_Subset, FS_CardinalityType
  <2> QED  BY <2>1, <2>2, <2>3 DEF Vouched
<1> QED  BY InvariantHolds, <1>1, PTL

\* An answer to a read is never older than the call for it, over HTTP or gRPC:
\* nothing that the engine does lowers an allocation while it is on its way.
THEOREM FreshReads == Spec => []ReadsAreFresh
<1>1. IInv => ReadsAreFresh
  BY DEF IInv, AnswersVouched, Vouched, ReadsAreFresh, OpOf
<1> QED  BY InvariantHolds, <1>1, PTL

-----------------------------------------------------------------------------
(* What was asked for *)

\* Carrying a call out once more asks for its volume once more.
LEMMA OnceMore == \A d, v \in Nat : d * v \in Nat /\ (d + 1) * v = d * v + v /\ 0 * v = 0
OBVIOUS

\* What call i asked for in the name of u, as the handlers see its request.
LEMMA AskedIs ==
    ASSUME NEW r \in Requests, NEW done \in Nat, NEW i, NEW u,
           calls[i].request = r, calls[i].done = done
    PROVE  Asked(i, u) = (IF r.op = "buy" /\ Decoded(r).user = u
                          THEN done * Decoded(r).volume ELSE 0)
<1>1. CASE r.op # "buy"
  BY <1>1 DEF Asked
<1>2. CASE r.op = "buy"
  <2>1. /\ Decoded(r).user = (IF r.user = NoField THEN EmptyName ELSE r.user)
        /\ Decoded(r).volume = (IF r.volume = NoField THEN 0 ELSE r.volume)
    BY <1>2, RequestFacts
  <2> QED  BY <1>2, <2>1 DEF Asked
<1> QED  BY <1>1, <1>2

\* The same as a function of the call's record.
Weight(call, u) ==
    IF call.request.op = "buy" /\ Decoded(call.request).user = u
    THEN call.done * Decoded(call.request).volume ELSE 0

Demand(u) == SumFunction([i \in DOMAIN calls |-> Weight(calls[i], u)])

\* AttemptsAreBooked in these terms.
Booked ==
    \A u \in Users : GivenTo(given, u) + Wanted(Mine(orders, u)) = Demand(u)

\* The weight of a call is an amount.
LEMMA WeightIsAmount ==
    \A u : \A call : call.request \in Requests /\ call.done \in Nat => Weight(call, u) \in Nat
<1> SUFFICES ASSUME NEW u, NEW call, call.request \in Requests, call.done \in Nat
             PROVE  Weight(call, u) \in Nat
  OBVIOUS
<1>1. CASE call.request.op = "buy" /\ Decoded(call.request).user = u
  <2>1. Decoded(call.request).volume \in Nat  BY <1>1, RequestFacts
  <2>2. call.done * Decoded(call.request).volume \in Nat  BY <2>1, OnceMore
  <2> QED  BY <1>1, <2>2 DEF Weight
<1>2. CASE ~(call.request.op = "buy" /\ Decoded(call.request).user = u)
  BY <1>2 DEF Weight
<1> QED  BY <1>1, <1>2

\* A step of a client asks for nothing: calls keep their requests and counts,
\* and a new call has not been carried out.
LEMMA DemandRests ==
    ASSUME ApiTypes, DOMAIN calls \subseteq DOMAIN calls', IsFiniteSet(DOMAIN calls'),
           \A i \in DOMAIN calls :
                calls'[i].request = calls[i].request /\ calls'[i].done = calls[i].done,
           \A i \in DOMAIN calls' \ DOMAIN calls :
                calls'[i].request \in Requests /\ calls'[i].done = 0,
           NEW u
    PROVE  Demand(u)' = Demand(u)
<1> DEFINE old == [i \in DOMAIN calls |-> Weight(calls[i], u)]
           new == [i \in DOMAIN calls' |-> Weight(calls'[i], u)]
<1>1. Demand(u) = SumFunctionOnSet(old, DOMAIN calls)
      /\ Demand(u)' = SumFunctionOnSet(new, DOMAIN calls')
  BY DEF Demand, SumFunction
<1>2. \A i \in DOMAIN calls : old[i] \in Int /\ new[i] = old[i]
  <2>1. \A i \in DOMAIN calls : Weight(calls[i], u) \in Nat
    BY CallFields, WeightIsAmount
  <2>2. \A i \in DOMAIN calls : Weight(calls'[i], u) = Weight(calls[i], u)
    BY DEF Weight
  <2> QED  BY <2>1, <2>2
<1>3. \A i \in DOMAIN calls' \ DOMAIN calls : new[i] = 0
  <2> SUFFICES ASSUME NEW i \in DOMAIN calls' \ DOMAIN calls
               PROVE  Weight(calls'[i], u) = 0
    OBVIOUS
  <2>1. CASE calls'[i].request.op = "buy" /\ Decoded(calls'[i].request).user = u
    <3>1. Decoded(calls'[i].request).volume \in Nat  BY <2>1, RequestFacts
    <3>2. calls'[i].done * Decoded(calls'[i].request).volume = 0
      BY <3>1, OnceMore
    <3> QED  BY <2>1, <3>2 DEF Weight
  <2>2. CASE ~(calls'[i].request.op = "buy" /\ Decoded(calls'[i].request).user = u)
    BY <2>2 DEF Weight
  <2> QED  BY <2>1, <2>2
<1> HIDE DEF old, new
<1>4. SumFunctionOnSet(new, DOMAIN calls') = SumFunctionOnSet(old, DOMAIN calls)
  BY <1>2, <1>3, SumSupport
<1> QED  BY <1>1, <1>4

\* A handler asks for the volume of the request that it carries out.
LEMMA DemandCarried ==
    ASSUME ApiTypes, NEW m \in requests, Carried(m), NEW u
    PROVE  /\ Demand(u) \in Nat
           /\ Demand(u)' = Demand(u) +
                (IF RequestOf(m).op = "buy" /\ Decoded(RequestOf(m)).user = u
                 THEN Decoded(RequestOf(m)).volume ELSE 0)
<1> DEFINE old == [i \in DOMAIN calls |-> Weight(calls[i], u)]
           new == [i \in DOMAIN calls |-> Weight(calls'[i], u)]
           r == RequestOf(m)
           more == IF r.op = "buy" /\ Decoded(r).user = u
                   THEN Decoded(r).volume ELSE 0
<1>1. /\ DOMAIN calls' = DOMAIN calls /\ m.call \in DOMAIN calls
      /\ \A i \in DOMAIN calls :
            /\ calls'[i].request = calls[i].request
            /\ calls'[i].done =
                 (IF i = m.call THEN calls[i].done + 1 ELSE calls[i].done)
  BY CarriedEffect
<1>2. Demand(u) = SumFunctionOnSet(old, DOMAIN calls)
      /\ Demand(u)' = SumFunctionOnSet(new, DOMAIN calls)
  BY <1>1 DEF Demand, SumFunction
<1>3. \A i \in DOMAIN calls : old[i] \in Nat /\ new[i] \in Nat
  <2>1. \A i \in DOMAIN calls : calls[i].request \in Requests /\ calls[i].done \in Nat
    BY CallFields
  <2>2. \A i \in DOMAIN calls : calls'[i].request \in Requests /\ calls'[i].done \in Nat
    BY <1>1, <2>1
  <2> QED  BY <2>1, <2>2, WeightIsAmount
<1>4. \A i \in DOMAIN calls \ {m.call} : old[i] = new[i]
  <2>1. \A i \in DOMAIN calls \ {m.call} : Weight(calls'[i], u) = Weight(calls[i], u)
    BY <1>1 DEF Weight
  <2> QED  BY <2>1
<1>5. new[m.call] - old[m.call] = more /\ more \in Nat
  <2>1. /\ calls[m.call].request = r /\ calls'[m.call].request = r
        /\ r \in Requests /\ calls[m.call].done \in Nat
        /\ calls'[m.call].done = calls[m.call].done + 1
    BY <1>1, CallFields DEF RequestOf
  <2>2. CASE r.op = "buy" /\ Decoded(r).user = u
    <3>1. PICK v \in Nat : v = Decoded(r).volume  BY <2>1, <2>2, RequestFacts
    <3>2. PICK k \in Nat : k = calls[m.call].done  BY <2>1
    <3>3. old[m.call] = k * v /\ new[m.call] = (k + 1) * v
      BY <1>1, <2>1, <2>2, <3>1, <3>2 DEF Weight
    <3>4. k * v \in Nat /\ (k + 1) * v = k * v + v  BY OnceMore
    <3>5. more = v  BY <2>2, <3>1
    <3> HIDE DEF old, new, more
    <3> QED  BY <3>3, <3>4, <3>5
  <2>3. CASE ~(r.op = "buy" /\ Decoded(r).user = u)
    <3>1. old[m.call] = 0 /\ new[m.call] = 0 /\ more = 0
      BY <1>1, <2>1, <2>3 DEF Weight
    <3> HIDE DEF old, new, more
    <3> QED  BY <3>1
  <2> QED  BY <2>2, <2>3
<1> HIDE DEF old, new, more
<1>6. IsFiniteSet(DOMAIN calls)  BY CallFields
<1>7. SumFunctionOnSet(new, DOMAIN calls)
        = SumFunctionOnSet(old, DOMAIN calls) + new[m.call] - old[m.call]
  <2>1. PICK k \in DOMAIN calls : k = m.call  BY <1>1
  <2>2. \A i \in DOMAIN calls : old[i] \in Int /\ new[i] \in Int  BY <1>3
  <2>3. \A i \in DOMAIN calls \ {k} : old[i] = new[i]  BY <1>4, <2>1
  <2>4. SumFunctionOnSet(new, DOMAIN calls)
          = SumFunctionOnSet(old, DOMAIN calls) + new[k] - old[k]
    BY <1>6, <2>2, <2>3, SumChange
  <2> QED  BY <2>1, <2>4
<1>8. SumFunctionOnSet(old, DOMAIN calls) \in Nat
  BY <1>3, <1>6, SumNat
<1>9. Demand(u)' = Demand(u) + more
  BY <1>1, <1>2, <1>3, <1>5, <1>7, <1>8
<1> QED  BY <1>2, <1>8, <1>9 DEF more

\* Each step books what it asks for.
LEMMA BookedStep == ASSUME IInv, Booked, [Next]_vars  PROVE Booked'
<1>1. ApiTypes /\ EngineTypes  BY DEF IInv
<1>2. ASSUME NEW m \in requests, Buy(m)  PROVE Booked'
  <2> DEFINE r == RequestOf(m)
             d == Decoded(RequestOf(m))
  <2>1. d.op = "buy" /\ E!Buy(d.user, d.volume, d.price) /\ Carried(m)
    BY <1>2 DEF Buy
  <2>2. r \in Requests  BY <1>1, RequestOfAttempt
  <2>3. r.op = "buy" /\ d.user \in Users /\ d.volume \in Nat /\ d.price \in Nat
    BY <2>1, <2>2, RequestFacts
  <2> SUFFICES ASSUME NEW u \in Users
               PROVE  GivenTo(given', u) + Wanted(Mine(orders', u)) = Demand(u)'
    BY DEF Booked, Mine
  <2>4. Demand(u)' = Demand(u) + (IF d.user = u THEN d.volume ELSE 0)
    BY <1>1, <2>1, <2>3, DemandCarried
  <2> HIDE DEF d
  <2>5. GivenTo(given', u) + Wanted(Mine(orders', u))
          = GivenTo(given, u) + Wanted(Mine(orders, u))
            + (IF u = d.user THEN d.volume ELSE 0)
    BY <1>1, <2>1, <2>3, BuyEffect
  <2>6. GivenTo(given, u) + Wanted(Mine(orders, u)) = Demand(u)
    BY DEF Booked
  <2> QED  BY <2>4, <2>5, <2>6
<1>3. ASSUME NEW m \in requests, Sell(m)  PROVE Booked'
  <2> DEFINE r == RequestOf(m)
             d == Decoded(RequestOf(m))
  <2>1. d.op = "sell" /\ E!Sell(d.volume) /\ Carried(m)
    BY <1>3 DEF Sell
  <2>2. r \in Requests  BY <1>1, RequestOfAttempt
  <2>3. r.op = "sell" /\ d.volume \in Nat
    BY <2>1, <2>2, RequestFacts
  <2> SUFFICES ASSUME NEW u \in Users
               PROVE  GivenTo(given', u) + Wanted(Mine(orders', u)) = Demand(u)'
    BY DEF Booked, Mine
  <2>4. Demand(u)' = Demand(u)
    <3>1. Demand(u) \in Nat /\ Demand(u)' = Demand(u) + 0
      BY <1>1, <2>1, <2>3, DemandCarried
    <3> QED  BY <3>1
  <2> HIDE DEF d
  <2>5. GivenTo(given', u) + Wanted(Mine(orders', u))
          = GivenTo(given, u) + Wanted(Mine(orders, u))
    BY <1>1, <2>1, <2>3, SellEffect
  <2>6. GivenTo(given, u) + Wanted(Mine(orders, u)) = Demand(u)
    BY DEF Booked
  <2> QED  BY <2>4, <2>5, <2>6
<1>4. ASSUME UNCHANGED engine, \A u : Demand(u)' = Demand(u)  PROVE Booked'
  <2>1. given' = given /\ orders' = orders  BY <1>4 DEF engine
  <2> QED  BY <1>4, <2>1 DEF Booked, Mine
<1>5. ApiTypes'  BY NextInv DEF IInv
<1>6. IsFiniteSet(DOMAIN calls')
  <2>1. DOMAIN calls' = 1 .. Len(calls') /\ Len(calls') \in Nat
    BY <1>5 DEF ApiTypes
  <2> QED  BY <2>1, FS_Interval
<1>7. ASSUME UNCHANGED engine, UNCHANGED calls  PROVE Booked'
  <2>1. \A u : Demand(u)' = Demand(u)  BY <1>7 DEF Demand, Weight
  <2> QED  BY <1>4, <1>7, <2>1
<1>8. ASSUME NEW c \in Clients, Send(c)  PROVE Booked'
  <2>1. PICK new : /\ new.request \in Requests /\ new.done = 0
                   /\ calls' = Append(calls, new)
    BY <1>8 DEF Send
  <2>2. /\ DOMAIN calls \subseteq DOMAIN calls'
        /\ \A i \in DOMAIN calls : calls'[i] = calls[i]
        /\ \A i \in DOMAIN calls' \ DOMAIN calls : calls'[i] = new
    BY <1>1, <2>1 DEF ApiTypes
  <2>3. \A u : Demand(u)' = Demand(u)
    BY <1>1, <1>6, <2>1, <2>2, DemandRests
  <2> QED  BY <1>4, <1>8, <2>3 DEF Send
<1>9. ASSUME NEW i \in DOMAIN calls, UNCHANGED engine,
             \/ calls' = [calls EXCEPT ![i].attempts = @ + 1]
             \/ \E a : calls' = [calls EXCEPT ![i].answer = a]
      PROVE  Booked'
  <2>1. /\ DOMAIN calls' = DOMAIN calls
        /\ \A j \in DOMAIN calls \ {i} : calls'[j] = calls[j]
    BY <1>1, <1>9 DEF ApiTypes
  <2>2. calls'[i].request = calls[i].request /\ calls'[i].done = calls[i].done
    <3>1. calls[i] \in CallRecord  BY <1>1, CallFields
    <3>2. \/ calls'[i] = [calls[i] EXCEPT !.attempts = @ + 1]
          \/ \E a : calls'[i] = [calls[i] EXCEPT !.answer = a]
      BY <1>1, <1>9 DEF ApiTypes
    <3> QED  BY <3>1, <3>2 DEF CallRecord
  <2>3. \A u : Demand(u)' = Demand(u)
    BY <1>1, <1>6, <2>1, <2>2, DemandRests
  <2> QED  BY <1>4, <1>9, <2>3
<1>10. ASSUME NEW c \in Clients, Retry(c)  PROVE Booked'
  <2>1. waitsFor[c] \in DOMAIN calls  BY <1>1, <1>10, CallFields DEF Retry, ApiTypes
  <2> QED  BY <1>9, <1>10, <2>1 DEF Retry
<1>11. ASSUME NEW c \in Clients, NEW a \in answers, Receive(c, a)  PROVE Booked'
  <2>1. a.call \in DOMAIN calls  BY <1>1 DEF ApiTypes
  <2> QED  BY <1>9, <1>11, <2>1 DEF Receive
<1>12. ASSUME NEW c \in Clients, GiveUp(c)  PROVE Booked'
  BY <1>7, <1>12 DEF GiveUp
<1>13. ASSUME NEW m \in requests, Refuse(m) \/ GetAllocation(m)  PROVE Booked'
  BY <1>7, <1>13 DEF Refuse, GetAllocation
<1>14. CASE UNCHANGED vars
  BY <1>7, <1>14 DEF vars
<1>15. CASE Finished
  BY <1>14, <1>15 DEF Finished
<1> QED
  BY <1>2, <1>3, <1>8, <1>10, <1>11, <1>12, <1>13, <1>14, <1>15 DEF Next

\* However often clients ask again, what a user was given and has open is the
\* sum of the buys in the user's name that handlers carried out.
THEOREM EveryAttemptIsBooked == Spec => []AttemptsAreBooked
<1>1. Init => Booked
  <2> SUFFICES ASSUME Init, NEW u \in Users
               PROVE  GivenTo(given, u) + Wanted(Mine(orders, u)) = Demand(u)
    BY DEF Booked
  <2>1. DOMAIN given = {} /\ orders = {} /\ DOMAIN calls = {}
    BY DEF Init, E!Init
  <2>2. Demand(u) = 0  BY <2>1, SumEmpty DEF Demand, SumFunction
  <2>3. Mine(orders, u) = {}  BY <2>1 DEF Mine
  <2>4. GivenTo(given, u) = 0  BY <2>1 DEF GivenTo
  <2> QED  BY <2>2, <2>3, <2>4, WantedNothing
<1>2. IInv /\ Booked /\ [Next]_vars => Booked'
  BY BookedStep
<1>3. IInv /\ Booked => AttemptsAreBooked
  <2> SUFFICES ASSUME IInv, Booked, NEW u \in Users
               PROVE  E!Given(u) + OpenVolume(u)
                        = SumFunction([i \in DOMAIN calls |-> Asked(i, u)])
    BY DEF AttemptsAreBooked
  <2>1. E!Given(u) = GivenTo(given, u)
    BY Zenon DEF E!Given, E!GivenTo, GivenTo
  <2>2. \A S : E!Wanted(S) = Wanted(S)
    BY Zenon DEF E!Wanted, E!SumFunction, E!SumFunctionOnSet, E!FoldFunctionOnSet,
       E!MapThenFoldSet, Wanted, SumFunction, SumFunctionOnSet, FoldFunctionOnSet,
       MapThenFoldSet
  <2>3. OpenVolume(u) = Wanted(Mine(orders, u))
    BY <2>2 DEF OpenVolume, Mine
  <2>4. \A i \in DOMAIN calls : Asked(i, u) = Weight(calls[i], u)
    BY CallFields, AskedIs DEF IInv, Weight
  <2>5. [i \in DOMAIN calls |-> Asked(i, u)] = [i \in DOMAIN calls |-> Weight(calls[i], u)]
    BY <2>4
  <2>6. SumFunction([i \in DOMAIN calls |-> Asked(i, u)]) = Demand(u)
    BY <2>5, Zenon DEF Demand
  <2> QED  BY <2>1, <2>3, <2>6 DEF Booked
<1> QED  BY InvariantHolds, <1>1, <1>2, <1>3, PTL DEF Spec
=============================================================================

-------------------------------- MODULE TwnApi --------------------------------
(***************************************************************************)
(* The two transports in front of the engine, and the clients that use     *)
(* them: what a handler refuses, what it passes on, what it answers.       *)
(*                                                                         *)
(* The engine is the atomic one of MatchingEngine: a handler of the        *)
(* in-memory engine never yields, and one of Postgres that is dropped      *)
(* half-way rolls back.  Requests and answers overtake each other; one     *)
(* that is lost is one that is never taken up.  A client that has waited   *)
(* long enough sends its call again: the earlier attempt may still be on   *)
(* its way, or served already.  An answer comes back on the connection of  *)
(* its attempt or not at all.                                              *)
(*                                                                         *)
(* A field that a request leaves out is NoField.  serde refuses it in a    *)
(* JSON body or a query; protobuf gives it the zero of its type.  /v2/buy, *)
(* /btc-price, the token of /buy and the debug pages do not reach the      *)
(* engine and are left out.                                                *)
(***************************************************************************)
EXTENDS Integers, Sequences, Functions

CONSTANTS
    Clients,
    Users, EmptyName,  \* the users, one of which has the empty name
    Prices, Volumes,
    NoField,
    MaxCalls,          \* bound on the calls of all the clients
    MaxRetries         \* bound on the repeated attempts of a behaviour

ASSUME ApiAssumption ==
    /\ EmptyName \in Users
    /\ Volumes \subseteq Nat /\ Prices \subseteq Nat
    /\ NoField \notin Users /\ NoField \notin Nat
    /\ NoField \notin {"buy", "sell", "allocation"}
    /\ MaxCalls \in Nat /\ MaxRetries \in Nat

VARIABLES
    offer, given, orders, arrivals,  \* the engine
    requests,   \* attempts sent, and not yet served
    answers,    \* answers sent, and not yet received
    waitsFor,   \* the call a client waits for, or 0
    \* history
    calls       \* the calls so far: the request, the attempts at it, how often
                \* the engine carried it out, the answer the client got, and for
                \* a read what the user had when the call was made

engine == <<offer, given, orders, arrivals>>
vars == <<engine, requests, answers, waitsFor, calls>>

E == INSTANCE MatchingEngine

-----------------------------------------------------------------------------
(* Requests *)

\* A name may be empty, and a sell may carry the volume 0.  A body that lacks a
\* field is refused whatever it lacks and asks for: one buy stands for all.
HttpRequests ==
    [via : {"http"}, op : {"buy"}, user : Users, volume : Volumes, price : Prices]
    \cup [via : {"http"}, op : {"buy"},
          user : {NoField}, volume : {NoField}, price : {NoField}]
    \cup [via : {"http"}, op : {"sell"}, volume : Volumes \cup {0}]
    \cup [via : {"http"}, op : {"allocation"}, user : Users \cup {NoField}]

\* Any field may be missing, alone or with others: protobuf does not send one
\* that holds the zero of its type.
GrpcNames == (Users \ {EmptyName}) \cup {NoField}
GrpcNumbers(S) == (S \ {0}) \cup {NoField}

GrpcRequests ==
    [via : {"grpc"}, op : {"buy"}, user : GrpcNames,
     volume : GrpcNumbers(Volumes), price : GrpcNumbers(Prices)]
    \cup [via : {"grpc"}, op : {"sell"}, volume : GrpcNumbers(Volumes)]
    \cup [via : {"grpc"}, op : {"allocation"}, user : GrpcNames]

Requests == HttpRequests \cup GrpcRequests

Complete(r) == \A f \in DOMAIN r : r[f] # NoField

Zero(f) == IF f = "user" THEN EmptyName ELSE 0

\* TwnBuyRequest::new with two of its arguments swapped.
Decoded_Fault(r) ==
    LET number(f) == IF r[f] = NoField THEN 0 ELSE r[f]
    IN  [f \in DOMAIN r |->
            CASE f = "user" /\ r[f] = NoField -> EmptyName
              [] f \in {"volume", "price"} ->
                    IF r.op = "buy" /\ r.via = "grpc"
                    THEN number(IF f = "volume" THEN "price" ELSE "volume")
                    ELSE number(f)
              [] OTHER -> r[f]]

\* The request as the handler sees it.
Decoded(r) == [f \in DOMAIN r |-> IF r[f] = NoField THEN Zero(f) ELSE r[f]]

\* 400, or INVALID_ARGUMENT, before the engine is called.  A buy of volume 0
\* is accepted.
Refused(r) ==
    \/ r.via = "http" /\ ~Complete(r)
    \/ r.op = "sell" /\ Decoded(r).volume = 0

Ok(v) == [status |-> "ok", volume |-> v]
Error == [status |-> "error", volume |-> 0]
NoAnswer == [status |-> "none", volume |-> 0]

\* A user is looked up among the open bids.
Allocation_Fault(r) ==
    LET u == Decoded(r).user
    IN  IF \E o \in orders : o.user = u THEN Ok(E!Given(u))
        ELSE IF r.via = "http" THEN Error ELSE Ok(0)

\* HTTP answers 400 for a user without an entry, gRPC answers 0.
Allocation(r) ==
    LET u == Decoded(r).user
    IN  IF u \in DOMAIN given THEN Ok(given[u])
        ELSE IF r.via = "http" THEN Error ELSE Ok(0)

-----------------------------------------------------------------------------
Init ==
    /\ E!Init
    /\ requests = {} /\ answers = {}
    /\ waitsFor = [c \in Clients |-> 0]
    /\ calls = <<>>

Attempt(i, n) == [call |-> i, attempt |-> n]

\* A client starts a call.
Send(c) ==
    /\ waitsFor[c] = 0 /\ Len(calls) < MaxCalls
    /\ \E r \in Requests :
        calls' = Append(calls,
            [request |-> r, attempts |-> 1, done |-> 0, answer |-> NoAnswer,
             had |-> IF r.op = "allocation" THEN E!Given(Decoded(r).user) ELSE 0])
    /\ waitsFor' = [waitsFor EXCEPT ![c] = Len(calls) + 1]
    /\ requests' = requests \cup {Attempt(Len(calls) + 1, 1)}
    /\ UNCHANGED <<engine, answers>>

Retries == SumFunction([i \in DOMAIN calls |-> calls[i].attempts - 1])

\* The client's timeout: it drops the connection and sends the call again.
Retry(c) ==
    LET i == waitsFor[c] IN
    /\ i # 0 /\ Retries < MaxRetries
    /\ calls' = [calls EXCEPT ![i].attempts = @ + 1]
    /\ requests' = requests \cup {Attempt(i, calls[i].attempts + 1)}
    /\ answers' = {a \in answers : a.call # i}
    /\ UNCHANGED <<engine, waitsFor>>

\* The client's timeout, after which it does not try again.
GiveUp(c) ==
    LET i == waitsFor[c] IN
    /\ i # 0
    /\ waitsFor' = [waitsFor EXCEPT ![c] = 0]
    /\ answers' = {a \in answers : a.call # i}
    /\ UNCHANGED <<engine, requests, calls>>

\* The answer to the latest attempt arrives.
Receive(c, a) ==
    /\ waitsFor[c] = a.call
    /\ waitsFor' = [waitsFor EXCEPT ![c] = 0]
    /\ answers' = answers \ {a}
    /\ calls' = [calls EXCEPT ![a.call].answer = a.answer]
    /\ UNCHANGED <<engine, requests>>

\* A handler ends with `answer`.  Nobody reads it when the client has moved on.
Reply(m, answer) ==
    /\ requests' = requests \ {m}
    /\ answers' =
        IF /\ \E c \in Clients : waitsFor[c] = m.call
           /\ calls[m.call].attempts = m.attempt
        THEN answers \cup {[call |-> m.call, answer |-> answer]}
        ELSE answers
    /\ UNCHANGED waitsFor

Carried(m) == calls' = [calls EXCEPT ![m.call].done = @ + 1]
RequestOf(m) == calls[m.call].request

\* The sell is carried out before its volume is looked at.
Refuse_Fault(m) ==
    LET r == Decoded(RequestOf(m)) IN
    /\ Refused(RequestOf(m))
    /\ Reply(m, Error)
    /\ IF r.op = "sell" THEN E!Sell(r.volume) /\ Carried(m)
                        ELSE UNCHANGED <<engine, calls>>

Refuse(m) ==
    /\ Refused(RequestOf(m))
    /\ Reply(m, Error)
    /\ UNCHANGED <<engine, calls>>

Buy(m) ==
    LET r == Decoded(RequestOf(m)) IN
    /\ r.op = "buy" /\ ~Refused(RequestOf(m))
    /\ E!Buy(r.user, r.volume, r.price)
    /\ Carried(m) /\ Reply(m, Ok(0))

Sell(m) ==
    LET r == Decoded(RequestOf(m)) IN
    /\ r.op = "sell" /\ ~Refused(RequestOf(m))
    /\ E!Sell(r.volume)
    /\ Carried(m) /\ Reply(m, Ok(0))

GetAllocation(m) ==
    /\ RequestOf(m).op = "allocation" /\ ~Refused(RequestOf(m))
    /\ Reply(m, Allocation(RequestOf(m)))
    /\ UNCHANGED <<engine, calls>>

\* The bound on the calls is reached and nobody waits.
Finished ==
    /\ Len(calls) = MaxCalls
    /\ \A c \in Clients : waitsFor[c] = 0
    /\ UNCHANGED vars

Next ==
    \/ \E c \in Clients : Send(c) \/ Retry(c) \/ GiveUp(c)
    \/ \E c \in Clients, a \in answers : Receive(c, a)
    \/ \E m \in requests : Refuse(m) \/ Buy(m) \/ Sell(m) \/ GetAllocation(m)
    \/ Finished

Spec == Init /\ [][Next]_vars

-----------------------------------------------------------------------------
(* Properties *)

\* What a client is told is so, however often it had to ask: after an error no
\* attempt has changed or will change the engine, after a success at least one
\* has and never more than were made.
AnswersAreHonest ==
    \A i \in DOMAIN calls :
        LET call == calls[i] IN
        /\ call.answer.status = "error" => call.done = 0
        /\ call.answer.status = "ok" /\ call.request.op # "allocation" =>
            call.done \in 1 .. call.attempts

\* A read is never older than the call for it, whichever transport it came by
\* and however long answers and retries were on their way: it is answered with
\* at least what the user had when the client asked, never with "username not
\* found" for a user who had something.  So whoever was told a volume before is
\* not told less by a later call.
ReadsAreFresh ==
    \A i \in DOMAIN calls :
        LET call == calls[i] IN
        call.request.op = "allocation" =>
            /\ call.answer.status = "ok" => call.answer.volume >= call.had
            /\ call.answer.status = "error" /\ Complete(call.request) =>
                    call.had = 0

OpenVolume(u) == E!Wanted({o \in orders : o.user = u})

\* The volume that the buys of call i have asked for in the name of user u.
Asked(i, u) ==
    LET r == calls[i].request
        name == IF r.user = NoField THEN EmptyName ELSE r.user
        volume == IF r.volume = NoField THEN 0 ELSE r.volume
    IN  IF r.op = "buy" /\ name = u THEN calls[i].done * volume ELSE 0

\* Every attempt that a handler carried out is in the books of the user it was
\* made for, over either transport.  A gRPC buy that lacks the user is booked
\* with its volume for the user with the empty name, like one over HTTP that
\* gives that name.
AttemptsAreBooked ==
    \A u \in Users :
        E!Given(u) + OpenVolume(u)
            = SumFunction([i \in DOMAIN calls |-> Asked(i, u)])
=============================================================================

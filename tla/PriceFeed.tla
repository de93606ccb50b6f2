------------------------------ MODULE PriceFeed ------------------------------
(***************************************************************************)
(* PriceFeed::get_btc_price: a circuit breaker in front of the upstream    *)
(* price service, shared by all the HTTP workers.                          *)
(*                                                                         *)
(* The circuit is behind a mutex, the failure count is a separate atomic,  *)
(* and a call gives up both while it waits for the upstream.  One action   *)
(* is one lock region, one atomic access or one await.                     *)
(*                                                                         *)
(* Time is counted in ticks; Cooldown ticks are the 10 seconds.  Only      *)
(* whether the 10 seconds are over matters, so ages stop at Cooldown; and  *)
(* the count of failures, which is only compared with the threshold, stops *)
(* there.                                                                  *)
(***************************************************************************)
EXTENDS Integers

CONSTANTS
    Callers,    \* requests that may be in get_btc_price at the same time
    Cooldown,   \* ticks an open circuit blocks
    Threshold,  \* failures that open the circuit: 3
    Disconnects \* may a client go away while its call waits for the upstream?

ASSUME FeedAssumption ==
    /\ Cooldown \in Nat \ {0}
    /\ Threshold \in Nat \ {0}
    /\ Disconnects \in BOOLEAN

VARIABLES
    circuit,    \* CircuitState
    age,        \* ticks since the Instant in Open; 0 in the other states
    failures,
    pc, seen,   \* locals of a call: its place, and the count it got from fetch_add
    healthy,    \* does the upstream answer with success?
    \* history
    sinceTrial, \* ticks since a call last went through an open circuit
    trials,     \* the callers whose call did so and has not returned
    stranded    \* has the last trial gone and left the circuit half-open?

feed == <<circuit, age, failures>>
vars == <<feed, pc, seen, healthy, sinceTrial, trials, stranded>>

Lesser(a, b) == IF a <= b THEN a ELSE b

Init ==
    /\ circuit = "Closed" /\ age = 0 /\ failures = 0
    /\ pc = [c \in Callers |-> "idle"]
    /\ seen = [c \in Callers |-> 0]
    /\ healthy \in BOOLEAN
    /\ sinceTrial = Cooldown /\ trials = {} /\ stranded = FALSE

At(c, label) == pc[c] = label
Goto(c, label) ==
    /\ pc' = [pc EXCEPT ![c] = label]
    /\ UNCHANGED <<trials, stranded>>

\* The call is over: get_btc_price returns, or is dropped at an await.
Leave(c) ==
    /\ pc' = [pc EXCEPT ![c] = "idle"]
    /\ trials' = trials \ {c}

\* It is over without a verdict on the upstream: the circuit stays as it is,
\* half-open too.
LeaveUnsettled(c) ==
    /\ Leave(c)
    /\ stranded' = (stranded \/ (circuit = "HalfOpen" /\ trials = {c}))
    /\ UNCHANGED <<feed, seen, healthy, sinceTrial>>

\* It is over after it has dealt with the circuit.
Return(c) ==
    /\ Leave(c)
    /\ stranded' = (stranded /\ circuit' = "HalfOpen")

\* A name that ends in _Fault is the definition after it with a bug this code
\* could have; no action uses it.
CoolingDownShort_Fault == circuit = "Open" /\ age + 1 < Cooldown
CoolingDownForever_Fault == circuit = "Open"

CoolingDown == circuit = "Open" /\ age < Cooldown

\* The gate, with the circuit closed: on to the upstream.
Pass(c) ==
    /\ At(c, "idle") /\ circuit = "Closed"
    /\ Goto(c, "upstream")
    /\ UNCHANGED <<feed, seen, healthy, sinceTrial>>

\* The gate, 10 seconds after the circuit opened: this call is the trial.
Try(c) ==
    /\ At(c, "idle") /\ circuit = "Open" /\ ~CoolingDown
    /\ circuit' = "HalfOpen" /\ age' = 0
    /\ pc' = [pc EXCEPT ![c] = "upstream"]
    /\ trials' = trials \cup {c} /\ sinceTrial' = 0
    /\ UNCHANGED <<failures, seen, healthy, stranded>>

\* The gate refuses the call: Err(CircuitOpen), nothing changes.
Block(c) ==
    /\ At(c, "idle") /\ (CoolingDown \/ circuit = "HalfOpen")
    /\ UNCHANGED vars

\* reqwest::get(..).await and error_for_status()
Answer(c) ==
    /\ At(c, "upstream")
    /\ Goto(c, IF healthy THEN "body" ELSE "failed")
    /\ UNCHANGED <<feed, seen, healthy, sinceTrial>>

\* resp.json().await: a body of another shape returns ParseFailed at once.
ParseFails(c) ==
    /\ At(c, "body")
    /\ LeaveUnsettled(c)

\* The client disconnects: actix drops the handler's future at the await it is
\* in, and nothing of the rest of the call runs.
Disconnect(c) ==
    /\ Disconnects
    /\ At(c, "upstream") \/ At(c, "body")
    /\ LeaveUnsettled(c)

\* One failure is forgiven instead of all: the count goes below 0.
ResetOne_Fault(c) ==
    /\ At(c, "body")
    /\ failures' = failures - 1
    /\ Goto(c, "reset")
    /\ UNCHANGED <<circuit, age, seen, healthy, sinceTrial>>

\* resp.json().await, then failures.store(0).
ResetFailures(c) ==
    /\ At(c, "body")
    /\ failures' = 0
    /\ Goto(c, "reset")
    /\ UNCHANGED <<circuit, age, seen, healthy, sinceTrial>>

\* A success does not close a half-open circuit.
CloseOpenOnly_Fault(c) ==
    /\ At(c, "reset")
    /\ IF circuit = "Open" THEN circuit' = "Closed" /\ age' = 0
                           ELSE UNCHANGED <<circuit, age>>
    /\ Return(c)
    /\ UNCHANGED <<failures, seen, healthy, sinceTrial>>

\* A success closes the circuit, whatever it is by now.  (Whether the amount
\* is a number decides the answer of this call, and nothing else.)
Close(c) ==
    /\ At(c, "reset")
    /\ circuit' = "Closed" /\ age' = 0
    /\ Return(c)
    /\ UNCHANGED <<failures, seen, healthy, sinceTrial>>

\* failures.fetch_add(1) + 1
CountFailure(c) ==
    /\ At(c, "failed")
    /\ failures' = Lesser(failures + 1, Threshold)
    /\ seen' = [seen EXCEPT ![c] = failures']
    /\ Goto(c, "counted")
    /\ UNCHANGED <<circuit, age, healthy, sinceTrial>>

\* Only the count opens the circuit: a trial that fails after an older call has
\* reset the count leaves it half-open.
OpenOnCount_Fault(c) ==
    /\ At(c, "counted")
    /\ IF seen[c] >= Threshold
       THEN circuit' = "Open" /\ age' = 0
       ELSE UNCHANGED <<circuit, age>>
    /\ Return(c)
    /\ seen' = [seen EXCEPT ![c] = 0]
    /\ UNCHANGED <<failures, healthy, sinceTrial>>

\* The count this call got, or the state it finds now, opens the circuit.
OpenCircuit(c) ==
    /\ At(c, "counted")
    /\ IF seen[c] >= Threshold \/ circuit = "HalfOpen"
       THEN circuit' = "Open" /\ age' = 0
       ELSE UNCHANGED <<circuit, age>>
    /\ Return(c)
    /\ seen' = [seen EXCEPT ![c] = 0]
    /\ UNCHANGED <<failures, healthy, sinceTrial>>

\* A tick of Instant::now().
Tick ==
    /\ age' = IF circuit = "Open" THEN Lesser(age + 1, Cooldown) ELSE age
    /\ sinceTrial' = Lesser(sinceTrial + 1, Cooldown)
    /\ UNCHANGED <<circuit, failures, pc, seen, healthy, trials, stranded>>

\* The upstream fails or recovers.
Toggle ==
    /\ healthy' = ~healthy
    /\ UNCHANGED <<feed, pc, seen, sinceTrial, trials, stranded>>

Gate(c) == Pass(c) \/ Try(c) \/ Block(c)
Finish(c) ==
    \/ Answer(c) \/ ParseFails(c) \/ ResetFailures(c) \/ Close(c)
    \/ CountFailure(c) \/ OpenCircuit(c)

Next == Tick \/ Toggle \/ \E c \in Callers : Gate(c) \/ Finish(c) \/ Disconnect(c)

Spec == Init /\ [][Next]_vars

\* Time passes, and a call that went upstream is answered and then runs on:
\* the code has no timeout, so the answer is an assumption on the upstream.  A
\* client need not disconnect.
FairSpec == Spec /\ WF_vars(Tick) /\ \A c \in Callers : WF_vars(Finish(c))

\* Clients also keep asking for the price.
BusySpec == FairSpec /\ \A c \in Callers : WF_vars(Gate(c))

-----------------------------------------------------------------------------
(* Properties *)

Labels == {"idle", "upstream", "body", "reset", "failed", "counted"}

\* The states of the circuit, with ages and counts below their limits.
TypeOK ==
    /\ circuit \in {"Closed", "Open", "HalfOpen"}
    /\ age \in 0 .. Cooldown /\ sinceTrial \in 0 .. Cooldown
    /\ failures \in 0 .. Threshold
    /\ pc \in [Callers -> Labels] /\ seen \in [Callers -> 0 .. Threshold]
    /\ healthy \in BOOLEAN /\ trials \subseteq Callers /\ stranded \in BOOLEAN

\* Two trials are at least 10 seconds apart, whatever calls from before the
\* circuit opened do to it in the meantime: they may reopen it under a trial
\* that is still out, or close it so that it has to open again.
TrialsSpaced ==
    [][circuit = "Open" /\ circuit' = "HalfOpen" => sinceTrial = Cooldown]_vars

\* There are two ways into a blocked feed with nobody out to unblock it: the
\* last trial got a body that does not parse, or its client went away.  Late
\* answers of older calls never do that, nor a trial that runs to its end.
OnlyLostTrialsStrand ==
    circuit = "HalfOpen" => stranded \/ \E c \in trials : ~At(c, "idle")

\* The circuit does not stay half-open, unless the last trial was lost so.
HalfOpenResolves == circuit = "HalfOpen" ~> circuit # "HalfOpen" \/ stranded

\* When the upstream has recovered for good, so does the feed, unless it is
\* stranded again and again or for ever.
FeedRecovers == <>[](healthy /\ ~stranded) => <>[](circuit = "Closed")

\* "After 10s, only one request allowed through to test recovery": the test has
\* a result, which takes the circuit out of HalfOpen.
TestHasResult == circuit = "HalfOpen" ~> circuit # "HalfOpen"

\* "Opens the circuit after 3 consecutive failures, blocking further requests
\* for 10 seconds": an open circuit stays open until they are over.
OpenForCooldown == [][CoolingDown => circuit' = "Open"]_vars
=============================================================================

--------------------------- MODULE PriceFeedProofs ---------------------------
(***************************************************************************)
(* Proofs about PriceFeed, for every number of callers, every cooldown and *)
(* every threshold.                                                        *)
(***************************************************************************)
EXTENDS PriceFeed, TLAPS

\* The circuit has never been open for longer than the last trial is past:
\* nothing opens it with an older Instant.
TrialBeforeOpen == circuit = "Open" => age <= sinceTrial

\* A trial has not returned.
TrialsAreOut == \A c \in trials : ~At(c, "idle")

FeedInv == TypeOK /\ TrialBeforeOpen /\ TrialsAreOut

\* Lesser gives one of its arguments, and the smaller.
LEMMA LesserValue ==
    ASSUME NEW a \in Nat, NEW b \in Nat
    PROVE  /\ Lesser(a, b) \in 0 .. b /\ Lesser(a, b) <= a
           /\ Lesser(a, b) = a \/ Lesser(a, b) = b
BY DEF Lesser

\* Time keeps the order of the two ages, also when they stop at Cooldown.
LEMMA TickInv == ASSUME FeedInv, Tick PROVE FeedInv'
<1>1. /\ age \in Nat /\ sinceTrial \in Nat /\ Cooldown \in Nat
      /\ age <= Cooldown /\ sinceTrial <= Cooldown
  BY FeedAssumption DEF FeedInv, TypeOK
<1>2. TypeOK'
  <2>1. /\ Lesser(age + 1, Cooldown) \in 0 .. Cooldown
        /\ Lesser(sinceTrial + 1, Cooldown) \in 0 .. Cooldown
    <3>1. age + 1 \in Nat /\ sinceTrial + 1 \in Nat  BY <1>1
    <3> QED  BY <1>1, <3>1, LesserValue
  <2> QED  BY <2>1 DEF Tick, FeedInv, TypeOK
<1>3. TrialBeforeOpen'
  BY <1>1 DEF Tick, FeedInv, TrialBeforeOpen, Lesser
<1>4. TrialsAreOut'
  BY DEF Tick, FeedInv, TrialsAreOut, At
<1> QED  BY <1>2, <1>3, <1>4 DEF FeedInv

\* The gate keeps the invariant: a trial leaves the Open state.
LEMMA GateInv == ASSUME FeedInv, NEW c \in Callers, Gate(c) PROVE FeedInv'
<1>1. 0 \in 0 .. Cooldown  BY FeedAssumption
<1>2. CASE Pass(c)
  BY <1>2 DEF Pass, Goto, feed, FeedInv, TypeOK, Labels, TrialBeforeOpen,
                TrialsAreOut, At
<1>3. CASE Try(c)
  BY <1>1, <1>3 DEF Try, FeedInv, TypeOK, Labels, TrialBeforeOpen,
                     TrialsAreOut, At
<1>4. CASE Block(c)
  BY <1>4 DEF Block, vars, feed, FeedInv, TypeOK, Labels, TrialBeforeOpen,
                TrialsAreOut, At
<1> QED  BY <1>2, <1>3, <1>4 DEF Gate

\* So does the rest of a call: it opens the circuit with a new Instant only.
LEMMA FinishInv ==
    ASSUME FeedInv, NEW c \in Callers, Finish(c) \/ Disconnect(c)
    PROVE  FeedInv'
<1> USE DEF Goto, Return, Leave, LeaveUnsettled, feed, TypeOK, Labels,
            TrialBeforeOpen, TrialsAreOut, At, FeedInv
<1>1. CASE Answer(c)  BY <1>1 DEF Answer
<1>2. CASE ParseFails(c)  BY <1>2 DEF ParseFails
<1>3. CASE ResetFailures(c)
  <2>1. 0 \in 0 .. Threshold  BY FeedAssumption
  <2> QED  BY <1>3, <2>1 DEF ResetFailures
<1>4. CASE Close(c)
  <2>1. 0 \in 0 .. Cooldown  BY FeedAssumption
  <2> QED  BY <1>4, <2>1 DEF Close
<1>5. CASE CountFailure(c)
  <2>1. failures + 1 \in Nat /\ Threshold \in Nat  BY FeedAssumption
  <2>2. failures' \in 0 .. Threshold
    BY <1>5, <2>1, LesserValue DEF CountFailure
  <2> QED  BY <1>5, <2>2 DEF CountFailure
<1>6. CASE OpenCircuit(c)
  <2>1. 0 \in 0 .. Cooldown /\ 0 \in 0 .. Threshold  BY FeedAssumption
  <2>2. \A n \in 0 .. Cooldown : 0 <= n  BY FeedAssumption
  <2> QED  BY <1>6, <2>1, <2>2 DEF OpenCircuit
<1>7. CASE Disconnect(c)  BY <1>7 DEF Disconnect
<1> QED  BY <1>1, <1>2, <1>3, <1>4, <1>5, <1>6, <1>7 DEF Finish

\* The invariant holds in every state of every behaviour.
THEOREM FeedInvariant == Spec => []FeedInv
<1>1. Init => FeedInv
  <2> SUFFICES ASSUME Init PROVE FeedInv  OBVIOUS
  <2>1. /\ 0 \in 0 .. Cooldown /\ Cooldown \in 0 .. Cooldown
        /\ 0 \in 0 .. Threshold
    BY FeedAssumption
  <2>2. TypeOK  BY <2>1 DEF Init, TypeOK, Labels
  <2> QED  BY <2>2 DEF Init, FeedInv, TrialBeforeOpen, TrialsAreOut
<1>2. FeedInv /\ [Next]_vars => FeedInv'
  <2> SUFFICES ASSUME FeedInv, [Next]_vars PROVE FeedInv'  OBVIOUS
  <2>1. CASE Toggle
    BY <2>1 DEF Toggle, feed, FeedInv, TypeOK, Labels, TrialBeforeOpen,
                TrialsAreOut, At
  <2>2. CASE UNCHANGED vars
    BY <2>2 DEF vars, feed, FeedInv, TypeOK, Labels, TrialBeforeOpen,
                TrialsAreOut, At
  <2> QED  BY <2>1, <2>2, TickInv, GateInv, FinishInv DEF Next
<1> QED  BY <1>1, <1>2, PTL DEF Spec

\* Every variable of the feed keeps to its type.
THEOREM FeedTypes == Spec => []TypeOK
<1>1. FeedInv => TypeOK  BY DEF FeedInv
<1> QED  BY FeedInvariant, <1>1, PTL

\* get_btc_price never lets two trials through within one cooldown, whatever
\* the calls do that were on their way when the circuit opened.
THEOREM TrialsAreSpaced == Spec => TrialsSpaced
<1> DEFINE Spaced == circuit = "Open" /\ circuit' = "HalfOpen"
                        => sinceTrial = Cooldown
<1>1. FeedInv /\ [Next]_vars => [Spaced]_vars
  <2> SUFFICES ASSUME FeedInv, [Next]_vars,
                      circuit = "Open", circuit' = "HalfOpen"
               PROVE  sinceTrial = Cooldown
    OBVIOUS
  <2>1. PICK c \in Callers : Try(c)
    BY DEF Next, vars, feed, Tick, Toggle, Gate, Finish, Pass, Block, Answer,
       ParseFails, ResetFailures, Close, CountFailure, OpenCircuit, Disconnect,
       LeaveUnsettled
  <2>2. ~(age < Cooldown)  BY <2>1 DEF Try, CoolingDown
  <2>3. age <= sinceTrial  BY DEF FeedInv, TrialBeforeOpen
  <2>4. /\ age \in Nat /\ sinceTrial \in Nat /\ Cooldown \in Nat
        /\ sinceTrial <= Cooldown
    BY FeedAssumption DEF FeedInv, TypeOK
  <2> QED  BY <2>2, <2>3, <2>4
<1> QED  BY FeedInvariant, <1>1, PTL DEF Spec, TrialsSpaced

\* Each way a call ends settles a half-open circuit or is one of the two that
\* strand it: a success closes it, a failure opens it again.
LEMMA FinishSettles ==
    ASSUME FeedInv, OnlyLostTrialsStrand,
           NEW c \in Callers, Finish(c) \/ Disconnect(c)
    PROVE  OnlyLostTrialsStrand'
<1> USE DEF OnlyLostTrialsStrand, At, Goto, Return, Leave, LeaveUnsettled, feed,
            FeedInv, TypeOK, Labels, TrialsAreOut
<1>1. CASE Answer(c)  BY <1>1 DEF Answer
<1>2. CASE ParseFails(c)  BY <1>2 DEF ParseFails
<1>3. CASE ResetFailures(c)  BY <1>3 DEF ResetFailures
<1>4. CASE Close(c)  BY <1>4 DEF Close
<1>5. CASE CountFailure(c)  BY <1>5 DEF CountFailure
<1>6. CASE OpenCircuit(c)  BY <1>6 DEF OpenCircuit
<1>7. CASE Disconnect(c)  BY <1>7 DEF Disconnect
<1> QED  BY <1>1, <1>2, <1>3, <1>4, <1>5, <1>6, <1>7 DEF Finish

\* The feed is only ever blocked half-open by a trial that is still out, or by
\* the last one having been lost to a malformed body or a disconnect.
THEOREM BlockedByATrial == Spec => []OnlyLostTrialsStrand
<1>1. Init => OnlyLostTrialsStrand  BY DEF Init, OnlyLostTrialsStrand
<1>2. FeedInv /\ OnlyLostTrialsStrand /\ [Next]_vars => OnlyLostTrialsStrand'
  <2> SUFFICES ASSUME FeedInv, OnlyLostTrialsStrand, [Next]_vars
               PROVE  OnlyLostTrialsStrand'
    OBVIOUS
  <2>1. ASSUME NEW c \in Callers, Gate(c) PROVE OnlyLostTrialsStrand'
    BY <2>1 DEF Gate, Pass, Try, Block, vars, feed, OnlyLostTrialsStrand, At, Goto,
       FeedInv, TypeOK, TrialsAreOut
  <2>2. CASE Tick  BY <2>2 DEF Tick, OnlyLostTrialsStrand, At
  <2>3. CASE Toggle  BY <2>3 DEF Toggle, feed, OnlyLostTrialsStrand, At
  <2>4. CASE UNCHANGED vars  BY <2>4 DEF vars, feed, OnlyLostTrialsStrand, At
  <2> QED  BY <2>1, <2>2, <2>3, <2>4, FinishSettles DEF Next
<1> QED  BY <1>1, <1>2, FeedInvariant, PTL DEF Spec
=============================================================================

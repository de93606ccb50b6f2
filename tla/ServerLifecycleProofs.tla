------------------------ MODULE ServerLifecycleProofs ------------------------
(***************************************************************************)
(* Proofs about ServerLifecycle, for every set of calls.                   *)
(***************************************************************************)
EXTENDS ServerLifecycle, TLAPS

\* At the start every variable holds a value of its kind.
LEMMA InitTypes == Init => TypeOK
BY DEF Init, TypeOK

\* No step of main, of a task or of a call leaves the types of the variables.
LEMMA StepTypes == TypeOK /\ [Next]_vars => TypeOK'
<1> SUFFICES ASSUME TypeOK, [Next]_vars PROVE TypeOK'
  OBVIOUS
<1> USE DEF TypeOK, Running, tasks
<1>1. CASE SetUpFails BY <1>1 DEF SetUpFails
<1>2. CASE SpawnTasks BY <1>2 DEF SpawnTasks
<1>3. CASE GrpcBinds BY <1>3 DEF GrpcBinds
<1>4. CASE GrpcFails BY <1>4 DEF GrpcFails
<1>5. ASSUME NEW c \in Calls, Accept(c) PROVE TypeOK'
  BY <1>5 DEF Accept
<1>6. ASSUME NEW c \in Calls, Answer(c) PROVE TypeOK'
  BY <1>6 DEF Answer
<1>7. CASE Tick BY <1>7 DEF Tick, StopAfter
<1>8. CASE TimedStop BY <1>8 DEF TimedStop
<1>9. CASE Terminate BY <1>9 DEF Terminate
<1>10. CASE Interrupt BY <1>10 DEF Interrupt, Drop
<1>11. CASE Drained BY <1>11 DEF Drained
<1>12. CASE DrainTimesOut BY <1>12 DEF DrainTimesOut, Drop
<1>13. CASE HttpEndsFirst BY <1>13 DEF HttpEndsFirst, Drop
<1>14. CASE GrpcEndsFirst BY <1>14 DEF GrpcEndsFirst, Drop
<1>15. CASE UNCHANGED vars BY <1>15 DEF vars
<1> QED
  BY <1>1, <1>2, <1>3, <1>4, <1>5, <1>6, <1>7, <1>8, <1>9, <1>10, <1>11,
     <1>12, <1>13, <1>14, <1>15 DEF Next, Select, Gone

\* The servers, the timer, the calls and the exit of main always are in one of
\* the states that the code distinguishes.
THEOREM LifecycleTypes == Spec => []TypeOK
BY InitTypes, StepTypes, PTL DEF Spec

\* An HTTP server that has ended, and was not cut short, has no call open.
NothingOpenWhenDrained == http = "ended" /\ ~cut => OpenHttp = {}

\* A drained server takes up no call, so none is open until the process ends.
LEMMA StepDrained ==
    TypeOK /\ NothingOpenWhenDrained /\ [Next]_vars => NothingOpenWhenDrained'
<1> SUFFICES ASSUME TypeOK, NothingOpenWhenDrained, [Next]_vars
             PROVE NothingOpenWhenDrained'
  OBVIOUS
<1> USE DEF TypeOK, NothingOpenWhenDrained, Running, tasks, OpenHttp, Open
<1>1. CASE SetUpFails BY <1>1 DEF SetUpFails
<1>2. CASE SpawnTasks BY <1>2 DEF SpawnTasks
<1>3. CASE GrpcBinds BY <1>3 DEF GrpcBinds
<1>4. CASE GrpcFails BY <1>4 DEF GrpcFails
<1>5. ASSUME NEW c \in Calls, Accept(c) PROVE NothingOpenWhenDrained'
  BY <1>5 DEF Accept
<1>6. ASSUME NEW c \in Calls, Answer(c) PROVE NothingOpenWhenDrained'
  BY <1>6 DEF Answer
<1>7. CASE Tick BY <1>7 DEF Tick
<1>8. CASE TimedStop BY <1>8 DEF TimedStop
<1>9. CASE Terminate BY <1>9 DEF Terminate
<1>10. CASE Interrupt BY <1>10 DEF Interrupt
<1>11. CASE Drained BY <1>11 DEF Drained
<1>12. CASE DrainTimesOut BY <1>12 DEF DrainTimesOut
<1>13. CASE HttpEndsFirst BY <1>13 DEF HttpEndsFirst, Drop
<1>14. CASE GrpcEndsFirst BY <1>14 DEF GrpcEndsFirst, Drop
<1>15. CASE UNCHANGED vars BY <1>15 DEF vars
<1> QED
  BY <1>1, <1>2, <1>3, <1>4, <1>5, <1>6, <1>7, <1>8, <1>9, <1>10, <1>11,
     <1>12, <1>13, <1>14, <1>15 DEF Next, Select, Gone

\* At the start no server has drained.
LEMMA InitDrained == Init => NothingOpenWhenDrained
BY DEF Init, NothingOpenWhenDrained

\* When the HTTP server ends by itself, no HTTP call is open.
LEMMA DrainedIsEmpty == Spec => []NothingOpenWhenDrained
<1>1. TypeOK /\ NothingOpenWhenDrained /\ [Next]_vars => NothingOpenWhenDrained'
  BY StepDrained
<1> QED BY <1>1, LifecycleTypes, InitDrained, PTL DEF Spec

\* A call is lost by a cut, or by the end of the process: with no HTTP call open
\* when the HTTP server has drained, only a gRPC server that ended before it is
\* left.
LEMMA StepGraceful ==
    TypeOK /\ NothingOpenWhenDrained /\ TimedStopIsGraceful /\ [Next]_vars
        => TimedStopIsGraceful'
<1> SUFFICES ASSUME TypeOK, NothingOpenWhenDrained, TimedStopIsGraceful, [Next]_vars
             PROVE TimedStopIsGraceful'
  OBVIOUS
<1> USE DEF TypeOK, TimedStopIsGraceful, TakenDown, Running, tasks
<1>1. CASE SetUpFails BY <1>1 DEF SetUpFails
<1>2. CASE SpawnTasks BY <1>2 DEF SpawnTasks
<1>3. CASE GrpcBinds BY <1>3 DEF GrpcBinds
<1>4. CASE GrpcFails BY <1>4 DEF GrpcFails
<1>5. ASSUME NEW c \in Calls, Accept(c) PROVE TimedStopIsGraceful'
  BY <1>5 DEF Accept
<1>6. ASSUME NEW c \in Calls, Answer(c) PROVE TimedStopIsGraceful'
  BY <1>6 DEF Answer
<1>7. CASE Tick BY <1>7 DEF Tick
<1>8. CASE TimedStop BY <1>8 DEF TimedStop
<1>9. CASE Terminate BY <1>9 DEF Terminate
<1>10. CASE Interrupt BY <1>10 DEF Interrupt
<1>11. CASE Drained BY <1>11 DEF Drained
<1>12. CASE DrainTimesOut BY <1>12 DEF DrainTimesOut
<1>13. ASSUME Select PROVE TimedStopIsGraceful'
  <2>1. Running /\ cut' = cut /\ via' = via /\ http' = http
    BY <1>13 DEF Select, HttpEndsFirst, GrpcEndsFirst
  <2>2. \A c \in Calls : call'[c] = IF c \in Open THEN "lost" ELSE call[c]
    BY <1>13 DEF Select, HttpEndsFirst, GrpcEndsFirst, Drop
  <2>3. CASE http = "ended"
    <3>1. cut \/ \A c \in Open : via[c] # "http"
      BY <2>3 DEF NothingOpenWhenDrained, OpenHttp
    <3> QED BY <2>1, <2>2, <3>1
  <2>4. CASE http # "ended"
    <3>1. main' = "exited" /\ grpc' = "failed"
      BY <1>13, <2>4 DEF Select, HttpEndsFirst, GrpcEndsFirst
    <3> QED BY <2>1, <2>4, <3>1
  <2> QED BY <2>3, <2>4
<1>14. CASE UNCHANGED vars BY <1>14 DEF vars
<1> QED
  BY <1>1, <1>2, <1>3, <1>4, <1>5, <1>6, <1>7, <1>8, <1>9, <1>10, <1>11,
     <1>12, <1>13, <1>14 DEF Next, Gone

\* At the start no call was lost.
LEMMA InitGraceful == Init => TimedStopIsGraceful
BY DEF Init, TimedStopIsGraceful

\* The timed stop by itself never loses an HTTP call, for any number of calls,
\* whatever becomes of the gRPC server and whichever handlers hang.
THEOREM TimedStopLosesNothing == Spec => []TimedStopIsGraceful
BY LifecycleTypes, DrainedIsEmpty, InitGraceful, StepGraceful, PTL DEF Spec
=============================================================================

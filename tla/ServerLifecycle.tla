--------------------------- MODULE ServerLifecycle ---------------------------
(***************************************************************************)
(* main() of the server: it binds the HTTP port, spawns the HTTP server,   *)
(* a timer that stops it after 15 minutes and the gRPC server, and returns *)
(* when the first of the two servers has ended.  Returning from main ends  *)
(* the process, and with it every call that is still open.                 *)
(*                                                                         *)
(* What actix and tonic do is modelled from how main uses them: stop(true) *)
(* lets the open HTTP calls finish, for a limited time; Ctrl+C, which      *)
(* actix handles by itself, does not; a gRPC server that cannot bind its   *)
(* port, or whose task panics, ends.  An open call need not end: a handler *)
(* may wait for the price service or the database.  The set-up of logs and *)
(* metrics is left out.  The clock counts minutes, five at a time.         *)
(***************************************************************************)
EXTENDS Integers

CONSTANTS
    Calls  \* calls that clients make

VARIABLES
    main,     \* where main() is, and how it ended
    timer,    \* the task http_stop_handle
    http,     \* the task http_join_handle
    grpc,     \* the task grpc_handle
    clock,    \* minutes since the timer was spawned
    call,     \* what became of a call
    via,      \* its transport
    cut       \* history: was the HTTP server ended with its calls still open?

tasks == <<main, timer, http, grpc>>
vars == <<tasks, clock, call, via, cut>>

StopAfter == 15

Init ==
    /\ main = "start"
    /\ timer = "none" /\ http = "none" /\ grpc = "none"
    /\ clock = 0 /\ cut = FALSE
    /\ call = [c \in Calls |-> "none"]
    /\ via \in [Calls -> {"http", "grpc"}]

Running == main = "select"

\* The handlers of the calls in `lost` are dropped.
Drop(lost) ==
    call' = [c \in Calls |-> IF c \in lost THEN "lost" ELSE call[c]]

Open == {c \in Calls : call[c] = "open"}
OpenHttp == {c \in Open : via[c] = "http"}

\* DATABASE_URL is not set, the database is down, or port 8080 is taken: main
\* panics or returns the error, before anything is spawned.
SetUpFails ==
    /\ main = "start"
    /\ main' = "failed"
    /\ UNCHANGED <<timer, http, grpc, clock, call, via, cut>>

\* bind() succeeds and the three tasks are spawned.
SpawnTasks ==
    /\ main = "start"
    /\ main' = "select"
    /\ timer' = "sleeping" /\ http' = "serving" /\ grpc' = "binding"
    /\ UNCHANGED <<clock, call, via, cut>>

\* serve() binds port 50051.
GrpcBinds ==
    /\ Running /\ grpc = "binding"
    /\ grpc' = "serving"
    /\ UNCHANGED <<main, timer, http, clock, call, via, cut>>

\* serve() returns an error, or its task panics.
GrpcFails ==
    /\ Running /\ grpc \in {"binding", "serving"}
    /\ grpc' = "failed"
    /\ UNCHANGED <<main, timer, http, clock, call, via, cut>>

\* A server takes up a call.
Accept(c) ==
    /\ Running /\ call[c] = "none"
    /\ IF via[c] = "http" THEN http = "serving" ELSE grpc = "serving"
    /\ call' = [call EXCEPT ![c] = "open"]
    /\ UNCHANGED <<tasks, clock, via, cut>>

\* The handler of a call ends.  Its server may be on its way down.
Answer(c) ==
    /\ Running /\ call[c] = "open"
    /\ call' = [call EXCEPT ![c] = "answered"]
    /\ UNCHANGED <<tasks, clock, via, cut>>

Tick ==
    /\ Running /\ clock < StopAfter
    /\ clock' = clock + 5
    /\ UNCHANGED <<tasks, call, via, cut>>

\* stop(false).
TimedStop_Fault ==
    /\ Running /\ timer = "sleeping" /\ clock = StopAfter
    /\ timer' = "done"
    /\ http' = IF http = "serving" THEN "ended" ELSE http
    /\ IF http = "serving" THEN Drop(OpenHttp) ELSE UNCHANGED call
    /\ UNCHANGED <<main, grpc, clock, via, cut>>

\* The sleep of the timer is over: http_server_handle.stop(true).
TimedStop ==
    /\ Running /\ timer = "sleeping" /\ clock = StopAfter
    /\ timer' = "done"
    /\ http' = IF http = "serving" THEN "draining" ELSE http
    /\ UNCHANGED <<main, grpc, clock, call, via, cut>>

\* SIGTERM: actix stops gracefully.
Terminate ==
    /\ Running /\ http = "serving"
    /\ http' = "draining"
    /\ UNCHANGED <<main, timer, grpc, clock, call, via, cut>>

\* SIGINT: actix stops at once.
Interrupt ==
    /\ Running /\ http \in {"serving", "draining"}
    /\ http' = "ended" /\ cut' = TRUE
    /\ Drop(OpenHttp)
    /\ UNCHANGED <<main, timer, grpc, clock, via>>

\* The last open HTTP call has ended.
Drained ==
    /\ Running /\ http = "draining" /\ OpenHttp = {}
    /\ http' = "ended"
    /\ UNCHANGED <<main, timer, grpc, clock, call, via, cut>>

\* A graceful stop without a limit.
DrainTimesOut_Fault ==
    /\ Running /\ http = "draining" /\ OpenHttp # {}
    /\ UNCHANGED vars

\* actix's shutdown timeout, 30 seconds when main does not set it.
DrainTimesOut ==
    /\ Running /\ http = "draining" /\ OpenHttp # {}
    /\ http' = "ended" /\ cut' = TRUE
    /\ Drop(OpenHttp)
    /\ UNCHANGED <<main, timer, grpc, clock, via>>

\* select!: the HTTP server has ended.  The gRPC server is aborted.
HttpEndsFirst ==
    /\ Running /\ http = "ended"
    /\ main' = "exited"
    /\ grpc' = IF grpc = "failed" THEN grpc ELSE "aborted"
    /\ Drop(Open)
    /\ UNCHANGED <<timer, http, clock, via, cut>>

\* select!: the gRPC server has ended.  The timer is aborted, the HTTP server
\* is not stopped: it goes down with the process.
GrpcEndsFirst ==
    /\ Running /\ grpc = "failed"
    /\ main' = "exited"
    /\ timer' = IF timer = "sleeping" THEN "aborted" ELSE timer
    /\ Drop(Open)
    /\ UNCHANGED <<http, grpc, clock, via, cut>>

Select == HttpEndsFirst \/ GrpcEndsFirst

Ended == main \in {"exited", "failed"}
Gone == Ended /\ UNCHANGED vars

Next ==
    \/ SetUpFails \/ SpawnTasks
    \/ GrpcBinds \/ GrpcFails
    \/ \E c \in Calls : Accept(c) \/ Answer(c)
    \/ Tick \/ TimedStop \/ Terminate \/ Interrupt
    \/ Drained \/ DrainTimesOut
    \/ Select
    \/ Gone

Spec == Init /\ [][Next]_vars

\* main runs on, time passes, the timer and the drain run on it, and select!
\* takes a branch that is ready.  Nothing is assumed of the handlers.
FairSpec ==
    /\ Spec
    /\ WF_vars(SpawnTasks \/ SetUpFails) /\ WF_vars(Select)
    /\ WF_vars(Tick) /\ WF_vars(TimedStop)
    /\ WF_vars(Drained \/ DrainTimesOut)

-----------------------------------------------------------------------------
(* Properties *)

TypeOK ==
    /\ main \in {"start", "select", "exited", "failed"}
    /\ timer \in {"none", "sleeping", "done", "aborted"}
    /\ http \in {"none", "serving", "draining", "ended"}
    /\ grpc \in {"none", "binding", "serving", "failed", "aborted"}
    /\ clock \in {0, 5, 10, 15} /\ cut \in BOOLEAN
    /\ call \in [Calls -> {"none", "open", "answered", "lost"}]
    /\ via \in [Calls -> {"http", "grpc"}]

\* The process went down with the gRPC server before the HTTP server had ended.
TakenDown == main = "exited" /\ grpc = "failed" /\ http # "ended"

\* The stop by the timer, which main asks to be graceful, loses no HTTP call
\* that was taken up: one is lost only when a signal or the limit of the drain
\* cuts the stop short, or when the end of the gRPC server takes down an HTTP
\* server that had not ended.  A gRPC server that fails earlier or later, and
\* calls over gRPC that hang, do no harm to HTTP calls.
TimedStopIsGraceful ==
    \A c \in Calls : call[c] = "lost" /\ via[c] = "http" => cut \/ TakenDown

\* The process ends, if not earlier then by the timer, even when handlers of
\* either transport never end.
ProcessEnds == <>Ended
=============================================================================

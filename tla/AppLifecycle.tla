---------------------------- MODULE AppLifecycle ----------------------------
(***************************************************************************)
(* internal/app.Run with pkg/httpserver, pkg/grpcserver and the NATS RPC   *)
(* server: start, failure notification, interrupt, and the shutdown of the *)
(* three servers one after the other, with the calls in flight.            *)
(***************************************************************************)
EXTENDS NatsRpc, Naturals

CONSTANT MaxRpcs      \* bound: gRPC requests

ASSUME AppAssumption == MaxRpcs \in Nat

VARIABLES
    main,      \* main: the main goroutine
    http,      \* http: the goroutine of httpserver.Start
    grpc,      \* grpc: the goroutine of grpcserver.Start
    stopped,   \* stopped: the servers whose Shutdown has been called
    inflight,  \* gRPC handlers running
    rpcs       \* gRPC requests accepted so far

appVars == <<main, http, grpc, stopped, inflight, rpcs>>
vars == <<natsVars, appVars>>

TypeOK ==
    /\ NatsTypeOK
    /\ main \in {"boot", "init", "start", "wait", "http", "httpWait", "grpc", "grpcWait", "nats",
                 "natsWait", "exit"}
    /\ http \in {"off", "starting", "listening", "failed", "stopped", "orphan"}
    /\ grpc \in {"off", "starting", "serving", "failed", "stopped"}
    /\ stopped \subseteq {"http", "grpc", "nats"}
    /\ rpcs \in 0 .. MaxRpcs
    /\ inflight \in 0 .. rpcs

-----------------------------------------------------------------------------

(* Run up to the servers: without tracing or Postgres the process ends in l.Fatal; Redis, MinIO *)
(* and the NATS publisher may be missing, which their users find out later.                     *)
Run ==
    /\ main = "boot"
    /\ main' \in {"init", "exit"}
    /\ UNCHANGED <<natsVars, http, grpc, stopped, inflight, rpcs>>

(* initServers: a NATS server that cannot connect is logged and left nil. *)
initServers ==
    /\ main = "init"
    /\ nats = "absent"
    /\ ~link
    /\ \E born \in BOOLEAN : NatsNew(born)
    /\ main' = "start"
    /\ UNCHANGED <<callVars, verdict, requests, bound, serving, http, grpc, stopped, inflight, rpcs>>

startServers ==
    /\ main = "start"
    /\ NatsStart
    /\ grpc' = "starting"
    /\ http' = "starting"
    /\ main' = "wait"
    /\ UNCHANGED <<callVars, verdict, requests, bound, link, serving, stopped, inflight, rpcs>>

-----------------------------------------------------------------------------
(* httpserver: notify has room for one error.                              *)

(* App.Listen.  A Shutdown that came before the listener existed did nothing (external:     *)
(* fasthttp returns at once without one), so the late Listen serves on with nobody left to  *)
(* stop it.                                                                                 *)
HttpListen ==
    /\ http = "starting"
    /\ http' = IF "http" \in stopped THEN "orphan" ELSE "listening"
    /\ UNCHANGED <<natsVars, main, grpc, stopped, inflight, rpcs>>

HttpFail ==
    /\ http \in {"starting", "listening"}
    /\ http' = "failed"
    /\ UNCHANGED <<natsVars, main, grpc, stopped, inflight, rpcs>>

(* ShutdownWithTimeout waits for open connections for a few seconds at most. *)
HttpShutdown ==
    /\ main = "http"
    /\ stopped' = stopped \cup {"http"}
    /\ http' = IF http = "listening" THEN "stopped" ELSE http
    /\ main' = "httpWait"
    /\ UNCHANGED <<natsVars, grpc, inflight, rpcs>>

(* Mutant of HttpShutdownReturn: no eg.Wait. *)
HttpShutdownReturnAtOnce ==
    /\ main = "httpWait"
    /\ main' = "grpc"
    /\ UNCHANGED <<natsVars, http, grpc, stopped, inflight, rpcs>>

(* eg.Wait *)
HttpShutdownReturn ==
    /\ main = "httpWait"
    /\ http \in {"stopped", "failed"}
    /\ main' = "grpc"
    /\ UNCHANGED <<natsVars, http, grpc, stopped, inflight, rpcs>>

-----------------------------------------------------------------------------
(* grpcserver *)

(* Listen, then Serve; Serve after GracefulStop returns an error at once (external: grpc). *)
GrpcServe ==
    /\ grpc = "starting"
    /\ grpc' = IF "grpc" \in stopped THEN "failed" ELSE "serving"
    /\ UNCHANGED <<natsVars, main, http, stopped, inflight, rpcs>>

GrpcFail ==
    /\ \/ grpc = "starting"
       \/ grpc = "serving" /\ "grpc" \notin stopped
    /\ grpc' = "failed"
    /\ UNCHANGED <<natsVars, main, http, stopped, inflight, rpcs>>

GrpcAccept ==
    /\ grpc = "serving"
    /\ "grpc" \notin stopped
    /\ rpcs < MaxRpcs
    /\ rpcs' = rpcs + 1
    /\ inflight' = inflight + 1
    /\ UNCHANGED <<natsVars, main, http, grpc, stopped>>

GrpcFinish ==
    /\ inflight > 0
    /\ main # "exit"
    /\ inflight' = inflight - 1
    /\ UNCHANGED <<natsVars, main, http, grpc, stopped, rpcs>>

(* GracefulStop refuses new requests and waits, without a deadline, for the running ones. *)
GrpcShutdown ==
    /\ main = "grpc"
    /\ "grpc" \notin stopped
    /\ stopped' = stopped \cup {"grpc"}
    /\ UNCHANGED <<natsVars, main, http, grpc, inflight, rpcs>>

(* Mutant of GrpcDrained: Stop instead of GracefulStop. *)
GrpcDrainedAtOnce ==
    /\ main = "grpc"
    /\ "grpc" \in stopped
    /\ grpc' = IF grpc = "serving" THEN "stopped" ELSE grpc
    /\ main' = "grpcWait"
    /\ UNCHANGED <<natsVars, http, stopped, inflight, rpcs>>

GrpcDrained ==
    /\ main = "grpc"
    /\ "grpc" \in stopped
    /\ inflight = 0
    /\ grpc' = IF grpc = "serving" THEN "stopped" ELSE grpc
    /\ main' = "grpcWait"
    /\ UNCHANGED <<natsVars, http, stopped, inflight, rpcs>>

GrpcShutdownReturn ==
    /\ main = "grpcWait"
    /\ grpc \in {"stopped", "failed"}
    /\ main' = IF nats = "absent" THEN "exit" ELSE "nats"
    /\ UNCHANGED <<natsVars, http, grpc, stopped, inflight, rpcs>>

-----------------------------------------------------------------------------
(* The NATS server's Shutdown, and the main goroutine.                     *)

NatsShutdown ==
    /\ main = "nats"
    /\ stopped' = stopped \cup {"nats"}
    /\ main' = "natsWait"
    /\ UNCHANGED <<natsVars, http, grpc, inflight, rpcs>>

AppNatsShutdownReturn ==
    /\ main = "natsWait"
    /\ NatsShutdownReturn
    /\ main' = "exit"
    /\ UNCHANGED <<http, grpc, stopped, inflight, rpcs>>

(* Mutant of waitForShutdown: the gRPC server's errors are not listened to. *)
waitForShutdownDeaf ==
    /\ main = "wait"
    /\ http = "failed"
    /\ main' = "http"
    /\ UNCHANGED <<natsVars, http, grpc, stopped, inflight, rpcs>>

(* The select's error cases: the HTTP or the gRPC server.  nats.Notify is not among them. *)
waitForShutdown ==
    /\ main = "wait"
    /\ http = "failed" \/ grpc = "failed"
    /\ main' = "http"
    /\ UNCHANGED <<natsVars, http, grpc, stopped, inflight, rpcs>>

(* The select's signal case. *)
Interrupt ==
    /\ main = "wait"
    /\ main' = "http"
    /\ UNCHANGED <<natsVars, http, grpc, stopped, inflight, rpcs>>

-----------------------------------------------------------------------------

Running == main # "exit"

(* The server side of NATS lives in this process; the callers and the broker do not. *)
NatsServerStep ==
    /\ Running
    /\ subscribe \/ NatsTake \/ handleMessage \/ NatsRelease("nats" \in stopped)
    /\ UNCHANGED appVars

NatsClientStep(c) == NatsCallStep(c) /\ UNCHANGED appVars

MainStep ==
    \/ Run \/ initServers \/ startServers
    \/ waitForShutdown
    \/ HttpShutdown \/ HttpShutdownReturn
    \/ GrpcShutdown \/ GrpcDrained \/ GrpcShutdownReturn
    \/ NatsShutdown \/ AppNatsShutdownReturn

ServerStep ==
    /\ Running
    /\ HttpListen \/ GrpcServe \/ GrpcFinish

Next ==
    \/ MainStep \/ Interrupt \/ ServerStep \/ NatsServerStep
    \/ Running /\ (HttpFail \/ GrpcFail \/ GrpcAccept)
    \/ \E c \in Calls : (RemoteCall(c) /\ UNCHANGED appVars) \/ NatsClientStep(c)
    \/ (ClientShutdown \/ LoseMessage) /\ UNCHANGED appVars

Init ==
    /\ NatsInit
    /\ main = "boot"
    /\ http = "off"
    /\ grpc = "off"
    /\ stopped = {}
    /\ inflight = 0
    /\ rpcs = 0

(* Goroutines run and handlers return; signals, failures and requests need not come. *)
Fairness ==
    /\ WF_vars(MainStep)
    /\ WF_vars(Running /\ HttpListen)
    /\ WF_vars(Running /\ GrpcServe)
    /\ WF_vars(Running /\ GrpcFinish)
    /\ WF_vars(NatsServerStep)
    /\ \A c \in Calls : WF_vars(NatsClientStep(c))

Spec == Init /\ [][Next]_vars /\ Fairness

-----------------------------------------------------------------------------

(* The gRPC server is drained before the application goes on to the NATS server and exits:   *)
(* no unary handler is cut off by the end of main (grpcserver.Shutdown, GracefulStop).        *)
DrainedBeforeExit == main \in {"grpcWait", "nats", "natsWait", "exit"} => inflight = 0

(* A server is told to stop only when the goroutine of the one before it is over, and main    *)
(* leaves none behind (app.go shutdownServers; each Shutdown's eg.Wait), even when Shutdown   *)
(* overtakes the start: the gRPC server's late Serve and the NATS server's late Subscribe end *)
(* before main goes on, and an HTTP server whose Listen came too late (http = "orphan") keeps *)
(* the other two from being told at all.                                                      *)
ShutdownInOrder ==
    /\ "grpc" \in stopped => http \in {"stopped", "failed"}
    /\ "nats" \in stopped => grpc \in {"stopped", "failed"}
    /\ main = "exit" => /\ http \notin {"starting", "listening", "orphan"}
                        /\ grpc \notin {"starting", "serving"}
                        /\ nats \notin {"starting", "holding"}

(* A failed HTTP or gRPC server brings the application down (app.go waitForShutdown).  A      *)
(* failed NATS server does not: nobody reads its notify channel.                              *)
FailureEndsWait == (http = "failed" \/ grpc = "failed") ~> main # "wait"

(* Once the application leaves waitForShutdown it exits, unless its HTTP server's Listen came *)
(* after its Shutdown (httpserver.go Start and Shutdown race when a start-up fails).          *)
ShutdownEnds == main = "http" ~> main = "exit" \/ http = "orphan"

(* Every RemoteCall over NATS returns, whatever becomes of the server. *)
NatsCallsReturn == \A c \in Calls : pc[c] = "request" ~> pc[c] = "returned"
=============================================================================

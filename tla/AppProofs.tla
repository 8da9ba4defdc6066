------------------------------ MODULE AppProofs ------------------------------
(***************************************************************************)
(* What holds of the application's start and shutdown, and of RPC over     *)
(* NATS under it, for any number of calls and gRPC requests.               *)
(***************************************************************************)
EXTENDS AppLifecycle, TLAPS

(* The gRPC server is off before main starts it, and accepts nothing once  *)
(* main has waited for the running handlers.                               *)
Drained ==
    /\ main \in {"boot", "init", "start"} => grpc = "off" /\ inflight = 0
    /\ main \in {"grpcWait", "nats", "natsWait"} => "grpc" \in stopped /\ inflight = 0
    /\ main = "exit" => inflight = 0

(* Before main starts the servers nothing runs; what main has waited for   *)
(* is over, and nothing revives it.                                        *)
Ordered ==
    /\ main \in {"boot", "init", "start"} => http = "off" /\ grpc = "off" /\ stopped = {}
    /\ main \in {"boot", "init"} => nats = "absent"
    /\ main \in {"grpc", "grpcWait", "nats", "natsWait"} => http \in {"stopped", "failed"}
    /\ main \in {"nats", "natsWait"} => grpc \in {"stopped", "failed"}
    /\ ShutdownInOrder

AppTypeInv == TypeOK /\ Drained /\ Ordered

(* The steps that leave the application's own variables alone.             *)
NatsStep ==
    \/ Running /\ (subscribe \/ NatsTake \/ handleMessage \/ NatsRelease("nats" \in stopped))
    \/ \E c \in Calls : RemoteCall(c) \/ NatsCallStep(c)
    \/ ClientShutdown \/ LoseMessage

(* The steps of main and of the other two servers.                         *)
AppStep ==
    \/ MainStep \/ Interrupt \/ ServerStep
    \/ Running /\ (HttpFail \/ GrpcFail \/ GrpcAccept)

LEMMA AnswersType ==
    ASSUME NEW c
    PROVE  Answers(c) \subseteq {"success", "badHandler", "internal"}
BY DEF Answers

LEMMA CallerType ==
    ASSUME TypeOK, NEW c \in Calls, RemoteCall(c) \/ NatsCallStep(c), UNCHANGED appVars
    PROVE  TypeOK'
<1> USE DEF TypeOK, NatsTypeOK, appVars
<1>1. CASE RemoteCall(c)
  BY <1>1 DEF RemoteCall, srvVars
<1>2. CASE remoteCall(c)
  <2>1. /\ pc' \in [Calls -> {"idle", "request", "wait", "returned"}]
        /\ result' \in [Calls -> {"none", "refused", "success", "badHandler", "internal",
                                  "timeout", "error"}]
    BY <1>2 DEF remoteCall
  <2>2. requests' \subseteq Calls
    BY <1>2 DEF remoteCall
  <2>3. UNCHANGED <<inbox, open, verdict, nats, bound, link, serving>>
    BY <1>2 DEF remoteCall
  <2>4. QED
    BY <2>1, <2>2, <2>3
<1>3. CASE RemoteCallReturn(c)
  <2>1. PICK r \in Outcomes(c) : result' = [result EXCEPT ![c] = r]
    BY <1>3 DEF RemoteCallReturn
  <2>2. r \in {"success", "badHandler", "internal", "timeout", "error"}
    BY <2>1 DEF Outcomes
  <2>3. QED
    BY <1>3, <2>1, <2>2 DEF RemoteCallReturn, srvVars
<1>4. QED
  BY <1>1, <1>2, <1>3 DEF NatsCallStep

LEMMA NatsStepType ==
    ASSUME AppTypeInv, NatsStep, UNCHANGED appVars
    PROVE  AppTypeInv'
<1> USE DEF AppTypeInv
<1>d. Drained'
  BY DEF Drained, appVars
<1>1. CASE Running /\ subscribe
  <2>1. TypeOK'
    BY <1>1 DEF subscribe, callVars, TypeOK, NatsTypeOK, appVars
  <2>2. Ordered'
    BY <1>1 DEF Running, subscribe, Ordered, ShutdownInOrder, appVars
  <2>3. QED
    BY <1>d, <2>1, <2>2
<1>2. CASE NatsTake
  <2>1. TypeOK'
    BY <1>2 DEF NatsTake, callVars, TypeOK, NatsTypeOK, appVars
  <2>2. Ordered'
    BY <1>2 DEF NatsTake, Ordered, ShutdownInOrder, appVars
  <2>3. QED
    BY <1>d, <2>1, <2>2
<1>3. CASE handleMessage
  <2>1. PICK a \in Answers(serving) :
          /\ verdict' = [verdict EXCEPT ![serving] = a]
          /\ inbox' = IF link THEN [inbox EXCEPT ![serving] = a] ELSE inbox
    BY <1>3 DEF handleMessage
  <2>2. a \in {"success", "badHandler", "internal"}
    BY <2>1, AnswersType
  <2>3. /\ verdict' \in [Calls -> {"none", "success", "badHandler", "internal"}]
        /\ inbox' \in [Calls -> {"none", "success", "badHandler", "internal"}]
    BY <2>1, <2>2 DEF TypeOK, NatsTypeOK
  <2>4. TypeOK'
    BY <1>3, <2>3 DEF handleMessage, TypeOK, NatsTypeOK, appVars
  <2>5. Ordered'
    BY <1>3 DEF handleMessage, Ordered, ShutdownInOrder, appVars
  <2>6. QED
    BY <1>d, <2>4, <2>5
<1>4. CASE Running /\ NatsRelease("nats" \in stopped)
  <2>1. TypeOK'
    BY <1>4 DEF NatsRelease, callVars, TypeOK, NatsTypeOK, appVars
  <2>2. Ordered'
    BY <1>4 DEF Running, NatsRelease, Ordered, ShutdownInOrder, appVars
  <2>3. QED
    BY <1>d, <2>1, <2>2
<1>5. ASSUME NEW c \in Calls, RemoteCall(c) \/ NatsCallStep(c) PROVE AppTypeInv'
  <2>1. TypeOK'
    BY <1>5, CallerType
  <2>2. UNCHANGED <<nats, bound, link>> /\ (~ bound => requests' = requests)
    BY <1>5 DEF RemoteCall, NatsCallStep, remoteCall, RemoteCallReturn, srvVars
  <2>3. Ordered'
    BY <2>2 DEF Ordered, ShutdownInOrder, appVars
  <2>4. QED
    BY <1>d, <2>1, <2>3
<1>6. CASE ClientShutdown
  <2>1. TypeOK'
    <3>1. {open', bound', link'} \subseteq BOOLEAN
      BY <1>6 DEF ClientShutdown, srvVars, TypeOK, NatsTypeOK
    <3>2. QED
      BY <1>6, <3>1 DEF ClientShutdown, srvVars, TypeOK, NatsTypeOK, appVars
  <2>2. Ordered'
    BY <1>6 DEF ClientShutdown, srvVars, Ordered, ShutdownInOrder, appVars
  <2>3. QED
    BY <1>d, <2>1, <2>2
<1>7. CASE LoseMessage
  <2>1. TypeOK'
    BY <1>7 DEF LoseMessage, callVars, srvVars, TypeOK, NatsTypeOK, appVars
  <2>2. UNCHANGED <<nats, bound, link>> /\ requests' \subseteq requests
    BY <1>7 DEF LoseMessage, srvVars
  <2>3. Ordered'
    BY <2>2 DEF Ordered, ShutdownInOrder, appVars
  <2>4. QED
    BY <1>d, <2>1, <2>3
<1>8. QED
  BY <1>1, <1>2, <1>3, <1>4, <1>5, <1>6, <1>7 DEF NatsStep

(* The NATS variables stand still.                                         *)
LEMMA NatsStill ==
    ASSUME NatsTypeOK, UNCHANGED natsVars
    PROVE  NatsTypeOK' /\ UNCHANGED <<requests, nats, bound, link>>
BY DEF natsVars, callVars, srvVars, NatsTypeOK

LEMMA MainType ==
    ASSUME AppTypeInv, MainStep \/ Interrupt
    PROVE  AppTypeInv'
<1> USE DEF AppTypeInv, TypeOK, Drained, Ordered, ShutdownInOrder
<1>1. CASE Run
  BY <1>1, NatsStill DEF Run
<1>2. CASE initServers
  BY <1>2 DEF initServers, NatsNew, callVars, NatsTypeOK
<1>3. CASE startServers
  BY <1>3 DEF startServers, NatsStart, callVars, NatsTypeOK
<1>4. CASE waitForShutdown \/ Interrupt
  <2>1. main = "wait" /\ main' = "http" /\ UNCHANGED <<natsVars, http, grpc, stopped, inflight, rpcs>>
    BY <1>4 DEF waitForShutdown, Interrupt
  <2>2. QED
    BY <2>1, NatsStill
<1>5. CASE HttpShutdown \/ HttpShutdownReturn
  <2>1. CASE HttpShutdown
    BY <2>1, NatsStill DEF HttpShutdown
  <2>2. CASE HttpShutdownReturn
    BY <2>2, NatsStill DEF HttpShutdownReturn
  <2>3. QED
    BY <1>5, <2>1, <2>2
<1>6. CASE GrpcShutdown
  BY <1>6, NatsStill DEF GrpcShutdown
<1>7. CASE GrpcDrained
  BY <1>7, NatsStill DEF GrpcDrained
<1>8. CASE GrpcShutdownReturn
  BY <1>8, NatsStill DEF GrpcShutdownReturn
<1>9. CASE NatsShutdown
  BY <1>9, NatsStill DEF NatsShutdown
<1>10. CASE AppNatsShutdownReturn
  BY <1>10 DEF AppNatsShutdownReturn, NatsShutdownReturn, callVars, NatsTypeOK
<1>11. QED
  BY <1>1, <1>2, <1>3, <1>4, <1>5, <1>6, <1>7, <1>8, <1>9, <1>10 DEF MainStep

LEMMA ServersType ==
    ASSUME AppTypeInv, ServerStep \/ (Running /\ (HttpFail \/ GrpcFail \/ GrpcAccept))
    PROVE  AppTypeInv'
<1>0. main # "exit"
  BY DEF ServerStep, Running
<1> USE <1>0, NatsStill DEF AppTypeInv, TypeOK, Drained, Ordered, ShutdownInOrder
<1>1. CASE HttpListen
  BY <1>1 DEF HttpListen
<1>2. CASE HttpFail
  BY <1>2 DEF HttpFail
<1>3. CASE GrpcServe
  BY <1>3 DEF GrpcServe
<1>4. CASE GrpcFail
  BY <1>4 DEF GrpcFail
<1>5. CASE GrpcFinish
  BY <1>5 DEF GrpcFinish
<1>6. CASE GrpcAccept
  BY <1>6, AppAssumption DEF GrpcAccept
<1>7. QED
  BY <1>1, <1>2, <1>3, <1>4, <1>5, <1>6 DEF ServerStep

LEMMA NextSplits ==
    ASSUME [Next]_vars
    PROVE  AppStep \/ (NatsStep /\ UNCHANGED appVars) \/ UNCHANGED vars
BY DEF Next, AppStep, NatsStep, NatsServerStep, NatsClientStep

LEMMA InitAppType == Init => AppTypeInv
<1> SUFFICES ASSUME Init PROVE AppTypeInv
  OBVIOUS
<1>1. NatsTypeOK
  BY NatsAssumption DEF Init, NatsInit, NatsTypeOK
<1>2. Drained /\ Ordered
  BY DEF Init, NatsInit, Drained, Ordered, ShutdownInOrder
<1>3. QED
  BY <1>1, <1>2, AppAssumption DEF Init, AppTypeInv, TypeOK

LEMMA NextAppType == AppTypeInv /\ [Next]_vars => AppTypeInv'
<1> SUFFICES ASSUME AppTypeInv, [Next]_vars PROVE AppTypeInv'
  OBVIOUS
<1>1. CASE AppStep
  BY <1>1, MainType, ServersType DEF AppStep
<1>2. CASE NatsStep /\ UNCHANGED appVars
  BY <1>2, NatsStepType
<1>3. CASE UNCHANGED vars
  BY <1>3 DEF vars, natsVars, callVars, srvVars, appVars,
     AppTypeInv, TypeOK, NatsTypeOK, Drained, Ordered, ShutdownInOrder
<1>4. QED
  BY <1>1, <1>2, <1>3, NextSplits

(* Main, the three servers, their goroutines and every call over NATS keep *)
(* to their states; no handler count goes below zero or above its bound.   *)
THEOREM AppTypeCorrect == Spec => []TypeOK
<1>1. AppTypeInv => TypeOK
  BY DEF AppTypeInv
<1>2. QED
  BY <1>1, InitAppType, NextAppType, PTL DEF Spec

(* However many gRPC handlers run when the signal comes, none is running   *)
(* once main goes on from GracefulStop (app.go shutdownServers).           *)
THEOREM DrainedSafe == Spec => []DrainedBeforeExit
<1>1. AppTypeInv => DrainedBeforeExit
  BY DEF AppTypeInv, Drained, DrainedBeforeExit
<1>2. QED
  BY <1>1, InitAppType, NextAppType, PTL DEF Spec

(* Whatever fails and however early the signal comes, each server is told  *)
(* to stop only when the goroutine of the one before it is over, and the   *)
(* goroutines of all three are over when main exits; so an HTTP server     *)
(* that listens after its own Shutdown stops the whole sequence there      *)
(* (app.go shutdownServers, httpserver, grpcserver and nats_rpc Shutdown). *)
THEOREM OrderSafe == Spec => []ShutdownInOrder
<1>1. AppTypeInv => ShutdownInOrder
  BY DEF AppTypeInv, Ordered
<1>2. QED
  BY <1>1, InitAppType, NextAppType, PTL DEF Spec

-----------------------------------------------------------------------------
(* RPC over NATS.                                                          *)

(* The request of c has left the client.                                   *)
Sent(c) == pc[c] \in {"wait", "returned"} /\ result[c] # "refused"

(* Until its verdict a request is on the subject or with the handler, not  *)
(* both; a reply waiting for c is the verdict on c.                        *)
ServedOnce(c) ==
    /\ pc[c] # "returned" => result[c] = "none"
    /\ c \in requests => Sent(c) /\ verdict[c] = "none" /\ serving # c
    /\ serving = c => Sent(c) /\ verdict[c] = "none"
    /\ verdict[c] # "none" => Sent(c)
    /\ inbox[c] # "none" => inbox[c] = verdict[c]

NatsInv == AppTypeInv /\ \A c \in Calls : ServedOnce(c)

(* Requests and replies may go, nothing comes and nobody decides.          *)
LEMMA LosingKeeps ==
    ASSUME NatsInv, AppTypeInv', UNCHANGED <<pc, result, verdict>>,
           requests' \subseteq requests, serving' = serving,
           \A c \in Calls : inbox'[c] \in {inbox[c], "none"}
    PROVE  NatsInv'
BY DEF NatsInv, ServedOnce, Sent

LEMMA AppStepLoses ==
    ASSUME AppStep
    PROVE  UNCHANGED <<pc, result, verdict, serving, inbox>> /\ requests' \in {requests, {}}
<1>1. CASE AppNatsShutdownReturn
  BY <1>1 DEF AppNatsShutdownReturn, NatsShutdownReturn, callVars
<1>2. CASE initServers \/ startServers
  BY <1>2 DEF initServers, startServers, callVars
<1>3. CASE UNCHANGED natsVars
  BY <1>3 DEF natsVars, callVars, srvVars
<1>4. QED
  BY <1>1, <1>2, <1>3
     DEF AppStep, MainStep, ServerStep, Interrupt, Run, waitForShutdown, HttpShutdown,
         HttpShutdownReturn, GrpcShutdown, GrpcDrained, GrpcShutdownReturn, NatsShutdown,
         HttpListen, GrpcServe, GrpcFinish, HttpFail, GrpcFail, GrpcAccept

LEMMA CallerKeeps ==
    ASSUME NatsInv, AppTypeInv', NEW c \in Calls, RemoteCall(c) \/ NatsCallStep(c)
    PROVE  NatsInv'
<1>0. /\ pc \in [Calls -> {"idle", "request", "wait", "returned"}]
      /\ DOMAIN result = Calls
      /\ requests \subseteq Calls
      /\ \A d \in Calls : ServedOnce(d)
  BY DEF NatsInv, AppTypeInv, TypeOK, NatsTypeOK
<1> SUFFICES ASSUME NEW d \in Calls PROVE ServedOnce(d)'
  BY DEF NatsInv
<1>1. CASE RemoteCall(c)
  BY <1>0, <1>1 DEF RemoteCall, srvVars, ServedOnce, Sent
<1>2. CASE remoteCall(c)
  <2>1. CASE open /\ pc' = [pc EXCEPT ![c] = "wait"]
    <3>1. /\ requests' \subseteq requests \cup {c} /\ result' = result
          /\ UNCHANGED <<inbox, verdict, serving>> /\ pc[c] = "request"
      BY <1>2, <1>0, <2>1 DEF remoteCall
    <3>2. QED
      BY <1>0, <2>1, <3>1 DEF ServedOnce, Sent
  <2>2. CASE pc' = [pc EXCEPT ![c] = "returned"]
    <3>1. /\ requests' = requests /\ result' = [result EXCEPT ![c] = "refused"]
          /\ UNCHANGED <<inbox, verdict, serving>> /\ pc[c] = "request"
      BY <1>2, <1>0, <2>2 DEF remoteCall
    <3>2. QED
      BY <1>0, <2>2, <3>1 DEF ServedOnce, Sent
  <2>3. QED
    BY <1>2, <2>1, <2>2 DEF remoteCall
<1>3. CASE RemoteCallReturn(c)
  <2>1. PICK r \in Outcomes(c) : result' = [result EXCEPT ![c] = r]
    BY <1>3 DEF RemoteCallReturn
  <2>2. r # "refused"
    BY <2>1 DEF Outcomes, NatsInv, AppTypeInv, TypeOK, NatsTypeOK
  <2>3. QED
    BY <1>0, <1>3, <2>1, <2>2 DEF RemoteCallReturn, srvVars, ServedOnce, Sent
<1>4. QED
  BY <1>1, <1>2, <1>3 DEF NatsCallStep

LEMMA ServerKeeps ==
    ASSUME NatsInv, AppTypeInv', NatsTake \/ handleMessage
    PROVE  NatsInv'
<1> SUFFICES ASSUME NEW d \in Calls PROVE ServedOnce(d)'
  BY DEF NatsInv
<1>0. ServedOnce(d) /\ d # NoCall /\ requests \subseteq Calls /\ serving \in Calls \cup {NoCall}
  BY NatsAssumption DEF NatsInv, AppTypeInv, TypeOK, NatsTypeOK
<1>1. CASE NatsTake
  <2>1. PICK c \in requests : serving' = c /\ requests' = requests \ {c}
    BY <1>1 DEF NatsTake
  <2>2. QED
    BY <1>0, <1>1, <2>1 DEF NatsTake, callVars, ServedOnce, Sent
<1>2. CASE handleMessage
  <2>1. PICK a \in Answers(serving) :
          /\ verdict' = [verdict EXCEPT ![serving] = a]
          /\ inbox' = IF link THEN [inbox EXCEPT ![serving] = a] ELSE inbox
    BY <1>2 DEF handleMessage
  <2>2. /\ serving \in Calls /\ serving' = NoCall /\ a # "none"
        /\ UNCHANGED <<pc, result, requests>>
        /\ DOMAIN verdict = Calls /\ DOMAIN inbox = Calls
        /\ ServedOnce(serving)
    BY <1>0, <1>2, <2>1, AnswersType
       DEF handleMessage, NatsInv, AppTypeInv, TypeOK, NatsTypeOK
  <2>3. CASE d = serving
    <3>1. verdict'[d] = a /\ (inbox'[d] = a \/ inbox'[d] = inbox[d])
      BY <2>1, <2>2, <2>3
    <3>2. QED
      BY <1>0, <2>2, <2>3, <3>1 DEF ServedOnce, Sent
  <2>4. CASE d # serving
    <3>1. verdict'[d] = verdict[d] /\ inbox'[d] = inbox[d]
      BY <2>1, <2>2, <2>4
    <3>2. QED
      BY <1>0, <2>2, <2>4, <3>1 DEF ServedOnce, Sent
  <2>5. QED
    BY <2>3, <2>4
<1>3. QED
  BY <1>1, <1>2

LEMMA NextNatsInv == NatsInv /\ [Next]_vars => NatsInv'
<1> SUFFICES ASSUME NatsInv, [Next]_vars PROVE NatsInv'
  OBVIOUS
<1>0. AppTypeInv'
  BY NextAppType DEF NatsInv
<1>1. CASE AppStep
  BY <1>0, <1>1, AppStepLoses, LosingKeeps
<1>2. CASE NatsStep
  <2>1. CASE subscribe \/ NatsRelease("nats" \in stopped) \/ ClientShutdown
    BY <1>0, <2>1, LosingKeeps
       DEF subscribe, NatsRelease, ClientShutdown, callVars, srvVars
  <2>2. CASE NatsTake \/ handleMessage
    BY <1>0, <2>2, ServerKeeps
  <2>3. CASE LoseMessage
    <3>1. /\ UNCHANGED <<pc, result, verdict, serving>> /\ requests' \subseteq requests
          /\ \A c \in Calls : inbox'[c] \in {inbox[c], "none"}
      BY <2>3 DEF LoseMessage, callVars, srvVars, NatsInv, AppTypeInv, TypeOK, NatsTypeOK
    <3>2. QED
      BY <1>0, <3>1, LosingKeeps
  <2>4. CASE \E c \in Calls : RemoteCall(c) \/ NatsCallStep(c)
    BY <1>0, <2>4, CallerKeeps
  <2>5. QED
    BY <1>2, <2>1, <2>2, <2>3, <2>4 DEF NatsStep
<1>3. CASE UNCHANGED vars
  BY <1>0, <1>3, LosingKeeps DEF vars, natsVars, callVars, srvVars
<1>4. QED
  BY <1>1, <1>2, <1>3, NextSplits

LEMMA InitNatsInv == Init => NatsInv
<1> SUFFICES ASSUME Init PROVE NatsInv
  OBVIOUS
<1>1. \A c \in Calls : ServedOnce(c)
  BY NatsAssumption DEF Init, NatsInit, ServedOnce
<1>2. QED
  BY <1>1, InitAppType DEF NatsInv

phaseBar == [c \in Calls |-> CASE pc[c] = "idle" -> "idle"
                               [] pc[c] = "returned" -> "returned"
                               [] OTHER -> "called"]

LEMMA SameAbstract ==
    ASSUME UNCHANGED <<pc, verdict, result>>
    PROVE  UNCHANGED Abstract!rcVars
BY DEF Abstract!rcVars

LEMMA CallerImplements ==
    ASSUME NatsInv, NEW c \in Calls, RemoteCall(c) \/ NatsCallStep(c)
    PROVE  Abstract!RCNext \/ UNCHANGED Abstract!rcVars
<1>0. /\ pc \in [Calls -> {"idle", "request", "wait", "returned"}]
      /\ DOMAIN result = Calls
      /\ ServedOnce(c)
  BY DEF NatsInv, AppTypeInv, TypeOK, NatsTypeOK
<1>r. ASSUME NEW r \in Abstract!Verdicts \cup Abstract!Failures \cup {"refused"},
             pc[c] \in {"request", "wait"}, pc' = [pc EXCEPT ![c] = "returned"],
             result' = [result EXCEPT ![c] = r], verdict' = verdict,
             r = "refused" => verdict[c] = "none",
             r \in Abstract!Verdicts => r = verdict[c]
      PROVE  Abstract!RCNext
  <2>1. phaseBar[c] = "called" /\ phaseBar' = [phaseBar EXCEPT ![c] = "returned"]
    BY <1>0, <1>r DEF phaseBar
  <2>2. Abstract!Return(c, r)
    BY <1>r, <2>1 DEF Abstract!Return, Abstract!Verdicts, phaseBar
  <2>3. QED
    BY <2>2 DEF Abstract!RCNext
<1>1. CASE RemoteCall(c)
  <2>1. phaseBar[c] = "idle" /\ phaseBar' = [phaseBar EXCEPT ![c] = "called"]
    BY <1>0, <1>1 DEF RemoteCall, phaseBar
  <2>2. Abstract!Call(c)
    BY <1>1, <2>1 DEF RemoteCall, Abstract!Call, phaseBar
  <2>3. QED
    BY <2>2 DEF Abstract!RCNext
<1>2. CASE remoteCall(c)
  <2>1. CASE pc' = [pc EXCEPT ![c] = "wait"] /\ UNCHANGED result
    <3>1. phaseBar' = phaseBar
      <4>1. \A d \in Calls : phaseBar'[d] = phaseBar[d]
        BY <1>0, <1>2, <2>1 DEF remoteCall, phaseBar
      <4>2. QED
        BY <4>1 DEF phaseBar
    <3>2. QED
      BY <1>2, <2>1, <3>1 DEF remoteCall, Abstract!rcVars, phaseBar
  <2>2. CASE pc' = [pc EXCEPT ![c] = "returned"] /\ result' = [result EXCEPT ![c] = "refused"]
    <3>1. verdict[c] = "none" /\ pc[c] = "request" /\ verdict' = verdict
      BY <1>0, <1>2 DEF remoteCall, ServedOnce, Sent
    <3>2. QED
      BY <1>r, <2>2, <3>1 DEF Abstract!Verdicts
  <2>3. QED
    BY <1>2, <2>1, <2>2 DEF remoteCall
<1>3. CASE RemoteCallReturn(c)
  <2>1. PICK r \in Outcomes(c) : result' = [result EXCEPT ![c] = r]
    BY <1>3 DEF RemoteCallReturn
  <2>2. r \in {"timeout", "error"} \/ (r = verdict[c] /\ r # "none")
    BY <1>0, <2>1 DEF Outcomes, ServedOnce
  <2>3. /\ r \in Abstract!Verdicts \cup Abstract!Failures \cup {"refused"}
        /\ r \in Abstract!Verdicts => r = verdict[c]
        /\ r # "refused"
    BY <2>2 DEF Abstract!Verdicts, Abstract!Failures, NatsInv, AppTypeInv, TypeOK, NatsTypeOK
  <2>4. QED
    BY <1>3, <1>r, <2>1, <2>3 DEF RemoteCallReturn
<1>4. QED
  BY <1>1, <1>2, <1>3 DEF NatsCallStep

LEMMA HandleImplements ==
    ASSUME NatsInv, handleMessage
    PROVE  Abstract!RCNext
<1>1. PICK v \in Abstract!Verdicts : verdict' = [verdict EXCEPT ![serving] = v]
  BY AnswersType DEF handleMessage, Abstract!Verdicts
<1>2. serving \in Calls /\ Sent(serving) /\ verdict[serving] = "none"
  BY DEF handleMessage, NatsInv, AppTypeInv, TypeOK, NatsTypeOK, ServedOnce
<1>3. phaseBar[serving] # "idle" /\ result[serving] # "refused"
  BY <1>2 DEF Sent, phaseBar
<1>4. phaseBar' = phaseBar /\ result' = result
  BY DEF handleMessage, phaseBar
<1>5. Abstract!Serve(serving, v)
  BY <1>1, <1>2, <1>3, <1>4 DEF Abstract!Serve, phaseBar
<1>6. QED
  BY <1>1, <1>2, <1>5 DEF Abstract!RCNext

LEMMA NextImplements == NatsInv /\ [Next]_vars => [Abstract!RCNext]_(Abstract!rcVars)
<1> SUFFICES ASSUME NatsInv, [Next]_vars
             PROVE  Abstract!RCNext \/ UNCHANGED Abstract!rcVars
  OBVIOUS
<1>1. CASE AppStep
  BY <1>1, AppStepLoses, SameAbstract
<1>2. CASE NatsStep
  <2>1. CASE handleMessage
    BY <2>1, HandleImplements
  <2>2. CASE \E c \in Calls : RemoteCall(c) \/ NatsCallStep(c)
    BY <2>2, CallerImplements
  <2>3. CASE subscribe \/ NatsRelease("nats" \in stopped) \/ ClientShutdown \/ NatsTake \/ LoseMessage
    BY <2>3, SameAbstract
       DEF subscribe, NatsRelease, ClientShutdown, NatsTake, LoseMessage, callVars, srvVars
  <2>4. QED
    BY <1>2, <2>1, <2>2, <2>3 DEF NatsStep
<1>3. CASE UNCHANGED vars
  BY <1>3, SameAbstract DEF vars, natsVars, callVars
<1>4. QED
  BY <1>1, <1>2, <1>3, NextSplits

(* A RemoteCall over NATS is the same abstract call as one over RabbitMQ,  *)
(* whatever the broker loses and wherever the application's start or       *)
(* shutdown is: served at most once, returned once, with its own verdict   *)
(* (nats_rpc client.go remoteCall, server.go handleMessage).               *)
THEOREM NatsRefines == Spec => NatsImplementsRemoteCall
<1>1. Init => Abstract!RCInit
  BY DEF Init, NatsInit, Abstract!RCInit
<1>2. QED
  BY <1>1, InitNatsInv, NextNatsInv, NextImplements, PTL
     DEF Spec, NatsImplementsRemoteCall, Abstract!RCSpec
=============================================================================

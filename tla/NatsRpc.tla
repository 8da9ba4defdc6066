------------------------------ MODULE NatsRpc -------------------------------
(***************************************************************************)
(* pkg/nats/nats_rpc: the second carrier of RemoteCall.  Correlation,      *)
(* reconnecting and the timeout live in nats.Conn (external): RequestMsg   *)
(* returns the first reply, a timeout or an error.  The subscription runs  *)
(* handleMessage in a goroutine of its own, one message at a time; the     *)
(* server's errgroup only holds the subscription until stop.               *)
(***************************************************************************)
CONSTANTS Calls, BadCalls, NoCall

ASSUME NatsAssumption == BadCalls \subseteq Calls /\ NoCall \notin Calls

VARIABLES
    pc,        \* pc[c]: where RemoteCall of c is
    result,    \* result[c]: what it returned
    verdict,   \* verdict[c]: the status the server has answered c with (history)
    requests,  \* requests on the server's subject
    inbox,     \* inbox[c]: the reply waiting for c, or "none"
    open,      \* open: the client's connection has not been shut down
    nats,      \* nats: the server's goroutine
    bound,     \* bound: the server is subscribed to the subject
    link,      \* link: the server's connection is not closed
    serving    \* serving: the request handleMessage is working on

callVars == <<pc, result, inbox, open>>
srvVars  == <<requests, nats, bound, link, serving>>
natsVars == <<callVars, verdict, srvVars>>

NatsTypeOK ==
    /\ pc \in [Calls -> {"idle", "request", "wait", "returned"}]
    /\ result \in [Calls -> {"none", "refused", "success", "badHandler", "internal",
                             "timeout", "error"}]
    /\ verdict \in [Calls -> {"none", "success", "badHandler", "internal"}]
    /\ requests \subseteq Calls
    /\ inbox \in [Calls -> {"none", "success", "badHandler", "internal"}]
    /\ nats \in {"absent", "new", "starting", "holding", "failed", "done"}
    /\ {open, bound, link} \subseteq BOOLEAN
    /\ serving \in Calls \cup {NoCall}

-----------------------------------------------------------------------------
(* The client.                                                             *)

RemoteCall(c) ==
    /\ pc[c] = "idle"
    /\ pc' = [pc EXCEPT ![c] = "request"]
    /\ UNCHANGED <<result, inbox, open, verdict, srvVars>>

(* RequestMsg sends; on a closed connection, or with a request that cannot be marshalled, *)
(* nothing is sent.                                                                       *)
remoteCall(c) ==
    /\ pc[c] = "request"
    /\ \/ /\ open
          /\ pc' = [pc EXCEPT ![c] = "wait"]
          /\ requests' = IF bound THEN requests \cup {c} ELSE requests
          /\ UNCHANGED result
       \/ /\ pc' = [pc EXCEPT ![c] = "returned"]
          /\ result' = [result EXCEPT ![c] = "refused"]
          /\ UNCHANGED requests
    /\ UNCHANGED <<inbox, open, verdict, nats, bound, link, serving>>

(* Mutant of Outcomes: any answer counts as a success. *)
OutcomesIgnoreStatus(c) ==
    {"timeout", "error"} \cup (IF inbox[c] # "none" THEN {"success"} ELSE {})

(* What RequestMsg gives the waiting caller: the reply's status; ErrTimeout or another error *)
(* (no responders, closed connection, undecodable body) at any moment.                        *)
Outcomes(c) == {"timeout", "error"} \cup ({inbox[c]} \ {"none"})

(* Mutant of RemoteCallReturn: the request has no timeout. *)
RemoteCallReturnOnReply(c) ==
    /\ pc[c] = "wait"
    /\ inbox[c] # "none"
    /\ result' = [result EXCEPT ![c] = inbox[c]]
    /\ pc' = [pc EXCEPT ![c] = "returned"]
    /\ UNCHANGED <<inbox, open, verdict, srvVars>>

RemoteCallReturn(c) ==
    /\ pc[c] = "wait"
    /\ \E r \in Outcomes(c) : result' = [result EXCEPT ![c] = r]
    /\ pc' = [pc EXCEPT ![c] = "returned"]
    /\ UNCHANGED <<inbox, open, verdict, srvVars>>

ClientShutdown ==
    /\ open
    /\ open' = FALSE
    /\ UNCHANGED <<pc, result, inbox, verdict, srvVars>>

-----------------------------------------------------------------------------
(* The server.                                                             *)

(* New connects or fails; whether it is called at all is the application's choice. *)
NatsNew(born) ==
    /\ nats' = IF born THEN "new" ELSE "absent"
    /\ link' = born

NatsStart == nats' = IF nats = "new" THEN "starting" ELSE nats

(* The goroutine subscribes, or puts its error in notify (room for one) and is over. *)
subscribe ==
    /\ nats = "starting"
    /\ \/ nats' = "holding" /\ bound' = TRUE
       \/ nats' = "failed" /\ UNCHANGED bound
    /\ UNCHANGED <<callVars, verdict, requests, link, serving>>

(* Answers of the router's handler, an unmarshallable response counted as internal. *)
Answers(c) == IF c \in BadCalls THEN {"badHandler"} ELSE {"success", "internal"}

NatsTake ==
    /\ bound
    /\ serving = NoCall
    /\ \E c \in requests : serving' = c /\ requests' = requests \ {c}
    /\ UNCHANGED <<callVars, verdict, nats, bound, link>>

(* publish on a closed connection only logs. *)
handleMessage ==
    /\ serving # NoCall
    /\ \E a \in Answers(serving) :
        /\ verdict' = [verdict EXCEPT ![serving] = a]
        /\ inbox' = IF link THEN [inbox EXCEPT ![serving] = a] ELSE inbox
    /\ serving' = NoCall
    /\ UNCHANGED <<pc, result, open, requests, nats, bound, link>>

(* The broker loses a request or a reply. *)
LoseMessage ==
    \/ /\ \E c \in requests : requests' = requests \ {c}
       /\ UNCHANGED <<callVars, verdict, nats, bound, link, serving>>
    \/ /\ \E c \in Calls : inbox[c] # "none" /\ inbox' = [inbox EXCEPT ![c] = "none"]
       /\ UNCHANGED <<pc, result, open, verdict, srvVars>>

(* Mutant of NatsRelease: the goroutine holds on. *)
NatsReleaseNever(stop) == FALSE /\ stop /\ UNCHANGED natsVars

(* stop is closed: the goroutine lets go. *)
NatsRelease(stop) ==
    /\ nats = "holding"
    /\ stop
    /\ nats' = "done"
    /\ UNCHANGED <<callVars, verdict, requests, bound, link, serving>>

(* The rest of Shutdown, once eg.Wait has returned: unsubscribe and close. *)
NatsShutdownReturn ==
    /\ nats \in {"done", "failed"}
    /\ bound' = FALSE
    /\ link' = FALSE
    /\ requests' = {}
    /\ UNCHANGED <<callVars, verdict, nats, serving>>

NatsInit ==
    /\ pc = [c \in Calls |-> "idle"]
    /\ result = [c \in Calls |-> "none"]
    /\ verdict = [c \in Calls |-> "none"]
    /\ requests = {}
    /\ inbox = [c \in Calls |-> "none"]
    /\ open = TRUE
    /\ nats = "absent"
    /\ bound = FALSE
    /\ link = FALSE
    /\ serving = NoCall

NatsCallStep(c) == remoteCall(c) \/ RemoteCallReturn(c)

-----------------------------------------------------------------------------

Abstract == INSTANCE RemoteCall WITH
    phase <- [c \in Calls |-> CASE pc[c] = "idle" -> "idle"
                                [] pc[c] = "returned" -> "returned"
                                [] OTHER -> "called"]

(* A RemoteCall over NATS (client.go remoteCall, server.go handleMessage) behaves as the same *)
(* abstract call as one over RabbitMQ, however the server comes and goes under it.            *)
NatsImplementsRemoteCall == Abstract!RCSpec
=============================================================================

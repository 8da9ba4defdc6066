------------------------------- MODULE RmqRpc -------------------------------
(***************************************************************************)
(* pkg/rabbitmq/rmq_rpc: one client process with concurrent RemoteCalls,   *)
(* its delivery goroutine, the servers, and the broker between them.       *)
(*                                                                         *)
(* Both exchanges are fanout and every connection consumes from a queue of *)
(* its own, exclusive and not durable (connect): a request reaches every   *)
(* connected server, and a queue dies with its connection, so a message is *)
(* never redelivered and ack has no effect here.  Message bodies are       *)
(* reduced to the call they belong to and whether they can be decoded.     *)
(***************************************************************************)
EXTENDS Naturals, Sequences

CONSTANTS Calls,      \* one correlation id per RemoteCall
          BadCalls,   \* the calls whose handler is not in the server's router
          Client,     \* the client process
          Servers,    \* the server processes bound to the server exchange
          Attempts,   \* Config.Attempts
          MaxLosses,  \* bound: broken broker connections
          NoCall      \* "nothing"

ASSUME RmqAssumption ==
    /\ BadCalls \subseteq Calls
    /\ Client \notin Servers
    /\ Attempts \in Nat \ {0}
    /\ MaxLosses \in Nat
    /\ NoCall \notin Calls

VARIABLES
    pc,        \* pc[c]: where RemoteCall of c is
    result,    \* result[c]: what it returned
    verdict,   \* verdict[c]: the status a server has answered c with (history)
    answered,  \* answered[c]: the servers that have answered c (history)
    calls,     \* Client.calls: the registered calls
    reply,     \* reply[c]: pendingCall's status and body; "none" while done is open
    conn,      \* conn[p]: the Connection of process p
    left,      \* left[p]: attempts left in AttemptConnect
    loop,      \* loop[p]: the errgroup's goroutine of p
    queue,     \* queue[p]: messages waiting in p's queue
    serving,   \* serving[s]: the request serveCall is working on
    shut,      \* shut[p]: Shutdown of p
    crash,     \* crash[p]: why process p panicked
    losses     \* connections broken so far

vars == <<pc, result, verdict, answered, calls, reply, conn, left, loop, queue, serving,
          shut, crash, losses>>

callVars == <<pc, result, calls, reply>>
netVars  == <<conn, left, loop, queue, losses>>

Parties == Servers \cup {Client}

(* The three fields connect() assigns; each keeps its old value until it is reached. *)
Connection == [connection : {"nil", "up", "closed"},
               channel    : {"nil", "up", "closed"},
               delivery   : {"closed", "open"}]

(* A request, or the status of a reply; "badBody": success with a body that cannot be decoded. *)
Message == [id : Calls, status : {"request", "success", "badHandler", "internal", "badBody"}]

TypeOK ==
    /\ pc \in [Calls -> {"idle", "pre", "publish", "register", "wait", "returned"}]
    /\ result \in [Calls -> {"none", "refused", "success", "badHandler", "internal",
                             "timeout", "closed", "notified", "badBody"}]
    /\ verdict \in [Calls -> {"none", "success", "badHandler", "internal"}]
    /\ answered \in [Calls -> SUBSET Servers]
    /\ calls \subseteq Calls
    /\ reply \in [Calls -> {"none", "success", "badHandler", "internal", "badBody"}]
    /\ conn \in [Parties -> Connection]
    /\ left \in [Parties -> 0 .. Attempts]
    /\ loop \in [Parties -> {"connecting", "unborn", "ready", "select", "busy",
                             "reconnect", "notify", "failed", "done"}]
    /\ queue \in [Parties -> Seq(Message)]
    /\ serving \in [Servers -> Calls \cup {NoCall}]
    /\ shut \in [Parties -> {"no", "waiting", "done"}]
    /\ crash \in [Parties -> {"none", "closedTwice", "nilChannel", "nilConnection"}]
    /\ losses \in 0 .. MaxLosses

Alive(p) == crash[p] = "none"

-----------------------------------------------------------------------------
(* The broker and connection.go, used alike by client and server.          *)

(* A fanout exchange: the message is put on the queue of every connected member. *)
Fanout(members, msg) ==
    [p \in Parties |-> IF p \in members /\ conn[p].delivery = "open"
                       THEN Append(queue[p], msg) ELSE queue[p]]

(* connect() dials, opens a channel, declares, binds and consumes. *)
connect(p) ==
    {[conn[p] EXCEPT !.connection = "nil"],                       \* Dial reaches nobody
     [conn[p] EXCEPT !.connection = "closed"],                    \* Dial's handshake fails
     [conn[p] EXCEPT !.connection = "up", !.channel = "nil"],     \* Channel fails
     [conn[p] EXCEPT !.connection = "up", !.channel = "up"],      \* a later step fails
     [connection |-> "up", channel |-> "up", delivery |-> "open"]}

Connected == [connection |-> "up", channel |-> "up", delivery |-> "open"]

(* Mutant of AttemptConnect: it goes on for one attempt too many. *)
AttemptConnectOnceMore(p, won, lost) ==
    /\ \E new \in connect(p) :
        /\ conn' = [conn EXCEPT ![p] = new]
        /\ left' = [left EXCEPT ![p] = IF new = Connected THEN Attempts ELSE @ - 1]
        /\ loop' = [loop EXCEPT ![p] = IF new = Connected THEN won
                                       ELSE IF left[p] = 0 THEN lost ELSE @]
    /\ UNCHANGED <<queue, losses>>

(* Mutant of AttemptConnect: the error of the last attempt is forgotten. *)
AttemptConnectCarriesOn(p, won, lost) ==
    /\ left[p] > 0
    /\ \E new \in connect(p) :
        /\ conn' = [conn EXCEPT ![p] = new]
        /\ left' = [left EXCEPT ![p] = IF new = Connected THEN Attempts ELSE @ - 1]
        /\ loop' = [loop EXCEPT ![p] = IF new = Connected \/ left[p] = 1 THEN won ELSE @]
    /\ UNCHANGED <<queue, losses>>

(* One turn of AttemptConnect; the goroutine goes to `won' or, out of attempts, to `lost'. *)
AttemptConnect(p, won, lost) ==
    /\ left[p] > 0
    /\ \E new \in connect(p) :
        /\ conn' = [conn EXCEPT ![p] = new]
        /\ left' = [left EXCEPT ![p] = IF new = Connected THEN Attempts ELSE @ - 1]
        /\ loop' = [loop EXCEPT ![p] = IF new = Connected THEN won
                                       ELSE IF left[p] = 1 THEN lost ELSE @]
    /\ UNCHANGED <<queue, losses>>

(* AttemptConnect inside New: nobody can see the connection before New returns it. *)
NewConnection(p, born) ==
    /\ loop[p] = "connecting"
    /\ \/ conn' = [conn EXCEPT ![p] = Connected] /\ loop' = [loop EXCEPT ![p] = born]
       \/ loop' = [loop EXCEPT ![p] = "unborn"] /\ UNCHANGED conn
    /\ UNCHANGED <<callVars, verdict, answered, left, queue, losses, serving, shut, crash>>

(* The broker drops p's connection: its queue goes, its deliveries are closed. *)
LoseConnection(p) ==
    /\ losses < MaxLosses
    /\ conn[p].channel = "up"
    /\ losses' = losses + 1
    /\ conn' = [conn EXCEPT ![p] = [connection |-> IF @.connection = "up" THEN "closed" ELSE @.connection,
                                    channel |-> "closed", delivery |-> "closed"]]
    /\ queue' = [queue EXCEPT ![p] = <<>>]
    /\ UNCHANGED <<callVars, verdict, answered, left, loop, serving, shut, crash>>

(* The delivery channel is closed: the goroutine reconnects. *)
BeginReconnect(p) ==
    /\ Alive(p)
    /\ loop[p] = "select"
    /\ conn[p].delivery = "closed"
    /\ loop' = [loop EXCEPT ![p] = "reconnect"]
    /\ UNCHANGED <<callVars, verdict, answered, conn, left, queue, serving, shut, crash, losses>>

-----------------------------------------------------------------------------
(* The client: its goroutine.                                              *)

(* New: without a connection there is no client. *)
ClientNew == NewConnection(Client, "select")

ClientReconnect ==
    /\ Alive(Client)
    /\ loop[Client] = "reconnect"
    /\ AttemptConnect(Client, "select", "notify")
    /\ UNCHANGED <<callVars, verdict, answered, serving, shut, crash>>

(* Mutant of serveCall: any reply is handed to some registered call. *)
serveCallAnyCall(msg) ==
    /\ reply' = [c \in Calls |-> IF c \in calls THEN msg.status ELSE reply[c]]
    /\ UNCHANGED crash

(* serveCall: a reply for an unknown call is dropped; one for a registered  *)
(* call fills it in and closes done.  Closing a closed channel panics.       *)
serveCall(msg) ==
    IF msg.id \in calls /\ reply[msg.id] # "none"
    THEN /\ crash' = [crash EXCEPT ![Client] = "closedTwice"]
         /\ UNCHANGED reply
    ELSE /\ reply' = IF msg.id \in calls THEN [reply EXCEPT ![msg.id] = msg.status] ELSE reply
         /\ UNCHANGED crash

ClientDeliver ==
    /\ Alive(Client)
    /\ loop[Client] = "select"
    /\ conn[Client].delivery = "open"
    /\ queue[Client] # <<>>
    /\ serveCall(Head(queue[Client]))
    /\ queue' = [queue EXCEPT ![Client] = Tail(@)]
    /\ UNCHANGED <<pc, result, calls, verdict, answered, conn, left, loop, serving, shut, losses>>

(* handleMessages takes its stop case; while it reconnects it does not look at stop. *)
ClientStop ==
    /\ Alive(Client)
    /\ loop[Client] = "select"
    /\ shut[Client] # "no"
    /\ loop' = [loop EXCEPT ![Client] = "done"]
    /\ UNCHANGED <<callVars, verdict, answered, conn, left, queue, serving, shut, crash, losses>>

(* Shutdown closes stop, then waits for the goroutine. *)
ClientShutdown ==
    /\ Alive(Client)
    /\ loop[Client] \notin {"connecting", "unborn"}
    /\ shut[Client] = "no"
    /\ shut' = [shut EXCEPT ![Client] = "waiting"]
    /\ UNCHANGED <<callVars, verdict, answered, netVars, serving, crash>>

(* Connection.Close: on the nil connection of a failed Dial it panics.  An open one is closed, *)
(* and so is everything that lives on it.                                                     *)
CloseConnection(p) ==
    /\ Alive(p)
    /\ shut[p] = "waiting"
    /\ loop[p] \in {"done", "failed"}
    /\ IF conn[p].connection = "nil"
       THEN /\ crash' = [crash EXCEPT ![p] = "nilConnection"]
            /\ UNCHANGED <<shut, conn, queue>>
       ELSE /\ shut' = [shut EXCEPT ![p] = "done"]
            /\ conn' = [conn EXCEPT ![p] = [connection |-> "closed", delivery |-> "closed",
                            channel |-> IF @.channel = "nil" THEN "nil" ELSE "closed"]]
            /\ queue' = [queue EXCEPT ![p] = <<>>]
            /\ UNCHANGED crash
    /\ UNCHANGED <<callVars, verdict, answered, left, loop, serving, losses>>

ClientShutdownReturn == CloseConnection(Client)

-----------------------------------------------------------------------------
(* The client: RemoteCall.                                                 *)

return(c, r) ==
    /\ pc' = [pc EXCEPT ![c] = "returned"]
    /\ result' = [result EXCEPT ![c] = r]

(* The select cases a caller shares with the goroutine.  "ctx" is done once the goroutine has *)
(* returned an error or Shutdown has waited for it; notify can be received from while the     *)
(* goroutine is blocked on sending its error and, closed, for ever after.                     *)
Interrupts ==
    {i \in {"closed", "notified"} :
        \/ i = "closed" /\ (shut[Client] # "no" \/ loop[Client] = "failed")
        \/ i = "notified" /\ loop[Client] \in {"notify", "failed"}}

(* c.notify <- err meets its receiver: the goroutine closes notify and returns the error. *)
TakeNotify(i) ==
    loop' = IF i = "notified" THEN [loop EXCEPT ![Client] = "failed"] ELSE loop

RemoteCall(c) ==
    /\ Alive(Client)
    /\ loop[Client] \notin {"connecting", "unborn"}
    /\ pc[c] = "idle"
    /\ pc' = [pc EXCEPT ![c] = "pre"]
    /\ UNCHANGED <<result, verdict, answered, calls, reply, netVars, serving, shut, crash>>

(* The select has a default case, taken only when no other case is ready. *)
preRemoteCallWait(c) ==
    /\ Alive(Client)
    /\ pc[c] = "pre"
    /\ \/ /\ Interrupts = {}
          /\ pc' = [pc EXCEPT ![c] = "publish"]
          /\ UNCHANGED <<result, loop>>
       \/ \E i \in Interrupts : return(c, "refused") /\ TakeNotify(i)
    /\ UNCHANGED <<verdict, answered, calls, reply, conn, left, queue, losses, serving, shut, crash>>

(* publish uses whatever channel the goroutine has put there meanwhile. *)
publish(c) ==
    /\ Alive(Client)
    /\ pc[c] = "publish"
    /\ CASE conn[Client].channel = "up" ->
                /\ pc' = [pc EXCEPT ![c] = "register"]
                /\ queue' = Fanout(Servers, [id |-> c, status |-> "request"])
                /\ UNCHANGED <<result, crash>>
         [] conn[Client].channel = "closed" -> return(c, "refused") /\ UNCHANGED <<queue, crash>>
         [] OTHER -> /\ crash' = [crash EXCEPT ![Client] = "nilChannel"]
                     /\ UNCHANGED <<pc, result, queue>>
    /\ UNCHANGED <<verdict, answered, calls, reply, conn, left, loop, losses, serving, shut>>

(* Only now, with the request already out, can a reply find the call. *)
addCall(c) ==
    /\ Alive(Client)
    /\ pc[c] = "register"
    /\ pc' = [pc EXCEPT ![c] = "wait"]
    /\ calls' = calls \cup {c}
    /\ UNCHANGED <<result, reply, verdict, answered, netVars, serving, shut, crash>>

(* Mutant of remoteCallWait: no timer. *)
remoteCallWaitForever(c) == Interrupts \cup (IF reply[c] # "none" THEN {"done"} ELSE {})

(* What a waiting caller may wake up to. *)
remoteCallWait(c) ==
    {"timeout"} \cup Interrupts \cup (IF reply[c] # "none" THEN {"done"} ELSE {})

(* Mutant of RemoteCallReturn: the deferred deleteCall is missing. *)
RemoteCallReturnKeepsCall(c) ==
    /\ Alive(Client)
    /\ pc[c] = "wait"
    /\ \E w \in remoteCallWait(c) : return(c, IF w = "done" THEN reply[c] ELSE w) /\ TakeNotify(w)
    /\ UNCHANGED <<calls, reply, verdict, answered, conn, left, queue, losses, serving, shut, crash>>

(* Every return from here runs the deferred deleteCall. *)
RemoteCallReturn(c) ==
    /\ Alive(Client)
    /\ pc[c] = "wait"
    /\ \E w \in remoteCallWait(c) : return(c, IF w = "done" THEN reply[c] ELSE w) /\ TakeNotify(w)
    /\ calls' = calls \ {c}
    /\ UNCHANGED <<reply, verdict, answered, conn, left, queue, losses, serving, shut, crash>>

-----------------------------------------------------------------------------
(* The servers.                                                            *)

ServerNew(s) == NewConnection(s, "ready")

ServerStart(s) ==
    /\ loop[s] = "ready"
    /\ loop' = [loop EXCEPT ![s] = "select"]
    /\ UNCHANGED <<callVars, verdict, answered, conn, left, queue, losses, serving, shut, crash>>

(* Server.notify has room for one error: sending it never blocks. *)
ServerReconnect(s) ==
    /\ Alive(s)
    /\ loop[s] = "reconnect"
    /\ AttemptConnect(s, "select", "failed")
    /\ UNCHANGED <<callVars, verdict, answered, serving, shut, crash>>

ServerTake(s) ==
    /\ Alive(s)
    /\ loop[s] = "select"
    /\ conn[s].delivery = "open"
    /\ queue[s] # <<>>
    /\ serving' = [serving EXCEPT ![s] = Head(queue[s]).id]
    /\ queue' = [queue EXCEPT ![s] = Tail(@)]
    /\ loop' = [loop EXCEPT ![s] = "busy"]
    /\ UNCHANGED <<callVars, verdict, answered, conn, left, losses, shut, crash>>

(* The statuses serveCall may publish.  When the response cannot be marshalled the error is  *)
(* only logged: the client gets "success" with an empty body.                                 *)
Answers(c) == IF c \in BadCalls THEN {"badHandler"} ELSE {"success", "internal", "badBody"}

(* Mutant of serverPublish: the reply is published twice. *)
serverPublishTwice(s, c, a) ==
    queue' = IF conn[s].channel = "up" /\ conn[Client].delivery = "open"
             THEN [queue EXCEPT ![Client] = @ \o <<[id |-> c, status |-> a], [id |-> c, status |-> a]>>]
             ELSE queue

(* The reply goes to the client's exchange; on a lost connection publishing only logs. *)
serverPublish(s, c, a) ==
    queue' = IF conn[s].channel = "up" THEN Fanout({Client}, [id |-> c, status |-> a]) ELSE queue

ServerAnswer(s) ==
    /\ Alive(s)
    /\ loop[s] = "busy"
    /\ \E a \in Answers(serving[s]) :
        /\ serverPublish(s, serving[s], a)
        /\ verdict' = [verdict EXCEPT ![serving[s]] = IF a = "badBody" THEN "success" ELSE a]
    /\ answered' = [answered EXCEPT ![serving[s]] = @ \cup {s}]
    /\ serving' = [serving EXCEPT ![s] = NoCall]
    /\ loop' = [loop EXCEPT ![s] = "select"]
    /\ UNCHANGED <<callVars, conn, left, losses, shut, crash>>

(* Mutant of ServerStop: the loop does not look at stop. *)
ServerStopMissing(s) ==
    /\ FALSE
    /\ UNCHANGED vars

ServerStop(s) ==
    /\ Alive(s)
    /\ loop[s] = "select"
    /\ shut[s] # "no"
    /\ loop' = [loop EXCEPT ![s] = "done"]
    /\ UNCHANGED <<callVars, verdict, answered, conn, left, queue, serving, shut, crash, losses>>

ServerShutdown(s) ==
    /\ Alive(s)
    /\ loop[s] \notin {"connecting", "unborn", "ready"}
    /\ shut[s] = "no"
    /\ shut' = [shut EXCEPT ![s] = "waiting"]
    /\ UNCHANGED <<callVars, verdict, answered, netVars, serving, crash>>

ServerShutdownReturn(s) == CloseConnection(s)

-----------------------------------------------------------------------------

Init ==
    /\ pc = [c \in Calls |-> "idle"]
    /\ result = [c \in Calls |-> "none"]
    /\ verdict = [c \in Calls |-> "none"]
    /\ answered = [c \in Calls |-> {}]
    /\ calls = {}
    /\ reply = [c \in Calls |-> "none"]
    /\ conn = [p \in Parties |-> [connection |-> "nil", channel |-> "nil", delivery |-> "closed"]]
    /\ left = [p \in Parties |-> Attempts]
    /\ loop = [p \in Parties |-> "connecting"]
    /\ queue = [p \in Parties |-> <<>>]
    /\ serving = [s \in Servers |-> NoCall]
    /\ shut = [p \in Parties |-> "no"]
    /\ crash = [p \in Parties |-> "none"]
    /\ losses = 0

CallStep(c) == preRemoteCallWait(c) \/ publish(c) \/ addCall(c) \/ RemoteCallReturn(c)

ClientStep ==
    \/ ClientNew \/ BeginReconnect(Client) \/ ClientReconnect
    \/ ClientDeliver \/ ClientStop \/ ClientShutdownReturn

ServerStep(s) ==
    \/ ServerNew(s) \/ ServerStart(s) \/ BeginReconnect(s) \/ ServerReconnect(s)
    \/ ServerTake(s) \/ ServerAnswer(s) \/ ServerStop(s) \/ ServerShutdownReturn(s)

Next ==
    \/ \E c \in Calls : RemoteCall(c) \/ CallStep(c)
    \/ ClientStep \/ ClientShutdown
    \/ \E s \in Servers : ServerStep(s) \/ ServerShutdown(s)
    \/ \E p \in Parties : LoseConnection(p)

(* Goroutines that can run do run, timers fire, handlers return; nobody has to call RemoteCall *)
(* or Shutdown, and the network need not break.                                                *)
Fairness ==
    /\ \A c \in Calls : WF_vars(CallStep(c))
    /\ WF_vars(ClientStep)
    /\ \A s \in Servers : WF_vars(ServerStep(s))

Spec == Init /\ [][Next]_vars /\ Fairness

-----------------------------------------------------------------------------

(* The abstract call this package implements, when one server is bound to the server exchange. *)
Abstract == INSTANCE RemoteCall WITH
    phase <- [c \in Calls |-> CASE pc[c] = "idle" -> "idle"
                                [] pc[c] = "returned" -> "returned"
                                [] OTHER -> "called"]

(* A RemoteCall over RabbitMQ (client.go remoteCall, server.go serveCall) behaves as the      *)
(* abstract call: one return, no verdict but the server's own for this call, no service for a *)
(* call that was refused.                                                                     *)
ImplementsRemoteCall == Abstract!RCSpec

(* The server exchange fans a request out to every server, and the client closes the done     *)
(* channel of a registered call for each reply to it (client.go serveCall): a second close    *)
(* panics.  That takes the answers of two different servers to one call whose caller has not  *)
(* left yet; a single server, whatever is lost, reconnected or late, never causes it.         *)
DoubleCloseTakesTwoServers ==
    crash[Client] = "closedTwice" => \E c \in calls : \E s, t \in answered[c] : s # t

(* The nil fields a failed connect() leaves behind (connection.go) are met in two ways only:  *)
(* a caller that passed preRemoteCallWait in time publishes while its goroutine reconnects or *)
(* has given up, and Shutdown follows a reconnect that was given up.  While the goroutine     *)
(* serves, and in a Shutdown that stops a serving one, nothing is nil.                        *)
NilPanicsAfterReconnect ==
    \A p \in Parties :
        /\ crash[p] = "nilChannel" => loop[p] \in {"reconnect", "notify", "failed"}
        /\ crash[p] = "nilConnection" => loop[p] = "failed"

(* The calls map holds exactly the calls whose caller is waiting: no entry outlives its call  *)
(* and a dropped reply was dropped because its caller had not registered or had given up.     *)
RegisteredWhileWaiting == calls = {c \in Calls : pc[c] = "wait"}

(* Every RemoteCall returns, even when its reply came too early, was lost with a connection,  *)
(* or the goroutine that would deliver it has died (client.go remoteCallWait).                *)
CallsReturn == \A c \in Calls : pc[c] = "pre" ~> pc[c] = "returned" \/ ~Alive(Client)

(* Shutdown returns, unless the client's goroutine is stuck on sending its error to a caller  *)
(* that does not come (client.go start: the send does not look at stop).                      *)
ShutdownReturns ==
    \A p \in Parties :
        shut[p] = "waiting" ~> shut[p] = "done" \/ loop[p] = "notify" \/ ~Alive(p)
=============================================================================

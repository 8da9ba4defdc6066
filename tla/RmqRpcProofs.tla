---------------------------- MODULE RmqRpcProofs ----------------------------
(***************************************************************************)
(* What holds of RPC over RabbitMQ for any number of concurrent calls,     *)
(* reconnects and lost connections.                                        *)
(***************************************************************************)
EXTENDS RmqRpc, TLAPS

(* A server that is busy works on a call, and the client's queue holds     *)
(* nothing but replies.                                                    *)
IsReply(msg) == msg.status # "request"
OnlyReplies(q) == \A i \in 1 .. Len(q) : IsReply(q[i])

RpcTypeInv ==
    /\ TypeOK
    /\ \A s \in Servers : loop[s] = "busy" => serving[s] \in Calls
    /\ OnlyReplies(queue[Client])

LEMMA ClientIsParty == Client \in Parties /\ Servers \subseteq Parties
BY DEF Parties

LEMMA OnlyRepliesStays ==
    /\ OnlyReplies(<< >>)
    /\ \A q \in Seq(Message) : OnlyReplies(q) /\ q # << >> => IsReply(Head(q)) /\ OnlyReplies(Tail(q))
    /\ \A q \in Seq(Message), msg \in Message :
          OnlyReplies(q) /\ IsReply(msg) => OnlyReplies(Append(q, msg))
BY DEF OnlyReplies

(* Only the client and the servers' queues that are open get the message.  *)
LEMMA FanoutType ==
    ASSUME TypeOK, NEW members, NEW msg \in Message
    PROVE  Fanout(members, msg) \in [Parties -> Seq(Message)]
<1>1. \A p \in Parties : queue[p] \in Seq(Message)
  BY DEF TypeOK
<1>2. \A q \in Seq(Message) : Append(q, msg) \in Seq(Message)
  OBVIOUS
<1>3. QED
  BY <1>1, <1>2 DEF Fanout

LEMMA NewConnectionType ==
    ASSUME RpcTypeInv, NEW p \in Parties, NEW born \in {"select", "ready"}, NewConnection(p, born)
    PROVE  RpcTypeInv'
<1>0. Connected \in Connection
  BY DEF Connected, Connection
<1>1. conn' \in [Parties -> Connection]
  BY <1>0 DEF NewConnection, RpcTypeInv, TypeOK
<1>2. loop' \in [Parties -> {"connecting", "unborn", "ready", "select", "busy",
                             "reconnect", "notify", "failed", "done"}]
  BY DEF NewConnection, RpcTypeInv, TypeOK
<1>3. \A s \in Servers : loop'[s] = "busy" => loop[s] = "busy"
  BY ClientIsParty DEF NewConnection, RpcTypeInv, TypeOK
<1>4. QED
  BY <1>1, <1>2, <1>3 DEF NewConnection, RpcTypeInv, TypeOK, callVars

(* Every way an attempt may end leaves a connection.                       *)
LEMMA ConnectType ==
    ASSUME TypeOK, NEW p \in Parties
    PROVE  connect(p) \subseteq Connection
<1>1. conn[p] \in Connection
  BY DEF TypeOK
<1>2. [conn[p] EXCEPT !.connection = "nil"] \in Connection
  BY <1>1 DEF Connection
<1>a. [conn[p] EXCEPT !.connection = "closed"] \in Connection
  BY <1>1 DEF Connection
<1>3. [conn[p] EXCEPT !.connection = "up", !.channel = "nil"] \in Connection
  BY <1>1 DEF Connection
<1>4. [conn[p] EXCEPT !.connection = "up", !.channel = "up"] \in Connection
  BY <1>1 DEF Connection
<1>5. [connection |-> "up", channel |-> "up", delivery |-> "open"] \in Connection
  BY DEF Connection
<1>6. QED
  BY <1>2, <1>3, <1>4, <1>5, <1>a DEF connect

LEMMA AttemptConnectType ==
    ASSUME RpcTypeInv, NEW p \in Parties, NEW won \in {"select"}, NEW lost \in {"notify", "failed"},
           loop[p] = "reconnect", AttemptConnect(p, won, lost),
           UNCHANGED <<callVars, verdict, answered, serving, shut, crash>>
    PROVE  RpcTypeInv'
<1>1. PICK new \in connect(p) :
        /\ conn' = [conn EXCEPT ![p] = new]
        /\ left' = [left EXCEPT ![p] = IF new = Connected THEN Attempts ELSE @ - 1]
        /\ loop' = [loop EXCEPT ![p] = IF new = Connected THEN won
                                       ELSE IF left[p] = 1 THEN lost ELSE @]
  BY DEF AttemptConnect
<1>2. conn[p] \in Connection /\ left[p] \in 0 .. Attempts /\ left[p] > 0
  BY DEF AttemptConnect, RpcTypeInv, TypeOK
<1>3. new \in Connection
  BY <1>1, <1>2, ConnectType DEF RpcTypeInv
<1>4. conn' \in [Parties -> Connection]
  BY <1>1, <1>3 DEF RpcTypeInv, TypeOK
<1>5. left' \in [Parties -> 0 .. Attempts]
  <2>1. left[p] - 1 \in 0 .. Attempts /\ Attempts \in 0 .. Attempts
    BY <1>2, RmqAssumption
  <2>2. QED
    BY <1>1, <2>1 DEF RpcTypeInv, TypeOK
<1>6. loop' \in [Parties -> {"connecting", "unborn", "ready", "select", "busy",
                             "reconnect", "notify", "failed", "done"}]
  BY <1>1 DEF RpcTypeInv, TypeOK
<1>7. \A s \in Servers : loop'[s] = "busy" => loop[s] = "busy"
  BY <1>1, ClientIsParty DEF RpcTypeInv, TypeOK
<1>8. QED
  BY <1>4, <1>5, <1>6, <1>7 DEF AttemptConnect, RpcTypeInv, TypeOK, callVars

LEMMA CloseConnectionType ==
    ASSUME RpcTypeInv, NEW p \in Parties, CloseConnection(p)
    PROVE  RpcTypeInv'
<1>1. conn' \in [Parties -> Connection]
  <2>1. [connection |-> "closed", delivery |-> "closed",
         channel |-> IF conn[p].channel = "nil" THEN "nil" ELSE "closed"] \in Connection
    BY DEF Connection
  <2>2. QED
    BY <2>1 DEF CloseConnection, RpcTypeInv, TypeOK
<1>2. queue' \in [Parties -> Seq(Message)]
  <2>1. << >> \in Seq(Message)
    OBVIOUS
  <2>2. QED
    BY <2>1 DEF CloseConnection, RpcTypeInv, TypeOK
<1>3. /\ shut' \in [Parties -> {"no", "waiting", "done"}]
      /\ crash' \in [Parties -> {"none", "closedTwice", "nilChannel", "nilConnection"}]
  <2>1. CASE conn[p].connection = "nil"
    BY <2>1 DEF CloseConnection, RpcTypeInv, TypeOK
  <2>2. CASE conn[p].connection # "nil"
    BY <2>2 DEF CloseConnection, RpcTypeInv, TypeOK
  <2>3. QED
    BY <2>1, <2>2
<1>4. OnlyReplies(queue'[Client])
  BY ClientIsParty, OnlyRepliesStays DEF CloseConnection, RpcTypeInv, TypeOK
<1>5. QED
  BY <1>1, <1>2, <1>3, <1>4 DEF CloseConnection, RpcTypeInv, TypeOK, callVars

LEMMA LoseConnectionType ==
    ASSUME RpcTypeInv, NEW p \in Parties, LoseConnection(p)
    PROVE  RpcTypeInv'
<1>1. conn' \in [Parties -> Connection]
  <2>1. [connection |-> IF conn[p].connection = "up" THEN "closed" ELSE conn[p].connection,
         channel |-> "closed", delivery |-> "closed"] \in Connection
    BY DEF Connection, RpcTypeInv, TypeOK
  <2>2. QED
    BY <2>1 DEF LoseConnection, RpcTypeInv, TypeOK
<1>2. queue' \in [Parties -> Seq(Message)]
  <2>1. << >> \in Seq(Message)
    OBVIOUS
  <2>2. QED
    BY <2>1 DEF LoseConnection, RpcTypeInv, TypeOK
<1>3. losses' \in 0 .. MaxLosses
  BY RmqAssumption DEF LoseConnection, RpcTypeInv, TypeOK
<1>4. OnlyReplies(queue'[Client])
  BY ClientIsParty, OnlyRepliesStays DEF LoseConnection, RpcTypeInv, TypeOK
<1>5. QED
  BY <1>1, <1>2, <1>3, <1>4 DEF LoseConnection, RpcTypeInv, TypeOK, callVars

(* A step that only moves the goroutine of p, to a place other than busy.  *)
LEMMA LoopType ==
    ASSUME RpcTypeInv, NEW p \in Parties,
           NEW at \in {"ready", "select", "reconnect", "notify", "failed", "done"},
           loop' = [loop EXCEPT ![p] = at],
           UNCHANGED <<callVars, verdict, answered, conn, left, queue, serving, shut, crash, losses>>
    PROVE  RpcTypeInv'
<1>1. \A s \in Servers : loop'[s] = "busy" => loop[s] = "busy"
  BY ClientIsParty DEF RpcTypeInv, TypeOK
<1>2. QED
  BY <1>1 DEF RpcTypeInv, TypeOK, callVars

LEMMA ShutdownType ==
    ASSUME RpcTypeInv, NEW p \in Parties, shut' = [shut EXCEPT ![p] = "waiting"],
           UNCHANGED <<callVars, verdict, answered, netVars, serving, crash>>
    PROVE  RpcTypeInv'
BY DEF RpcTypeInv, TypeOK, callVars, netVars

(* The caller's steps.                                                     *)
LEMMA CallType ==
    ASSUME RpcTypeInv, NEW c \in Calls, RemoteCall(c) \/ CallStep(c)
    PROVE  RpcTypeInv'
<1> USE ClientIsParty DEF RpcTypeInv
<1>t. ASSUME NEW i, TakeNotify(i)
      PROVE  /\ loop' \in [Parties -> {"connecting", "unborn", "ready", "select", "busy",
                                       "reconnect", "notify", "failed", "done"}]
             /\ \A s \in Servers : loop'[s] = "busy" => loop[s] = "busy"
  BY <1>t DEF TakeNotify, TypeOK
<1>1. CASE RemoteCall(c)
  BY <1>1 DEF RemoteCall, TypeOK, netVars
<1>2. CASE preRemoteCallWait(c)
  <2>1. CASE pc' = [pc EXCEPT ![c] = "publish"] /\ UNCHANGED <<result, loop>>
    BY <1>2, <2>1 DEF preRemoteCallWait, TypeOK
  <2>2. CASE \E i \in Interrupts : return(c, "refused") /\ TakeNotify(i)
    BY <1>2, <1>t, <2>2 DEF preRemoteCallWait, return, TypeOK
  <2>3. QED
    BY <1>2, <2>1, <2>2 DEF preRemoteCallWait
<1>3. CASE publish(c)
  <2>1. [id |-> c, status |-> "request"] \in Message
    BY DEF Message
  <2>2. CASE conn[Client].channel = "up"
    <3>1. queue' \in [Parties -> Seq(Message)]
      BY <1>3, <2>1, <2>2, FanoutType DEF publish
    <3>2. queue'[Client] = queue[Client]
      BY <1>3, <2>2, RmqAssumption DEF publish, Fanout
    <3>3. QED
      BY <1>3, <2>2, <3>1, <3>2 DEF publish, TypeOK
  <2>3. CASE conn[Client].channel = "closed"
    BY <1>3, <2>3 DEF publish, return, TypeOK
  <2>4. CASE conn[Client].channel \notin {"up", "closed"}
    BY <1>3, <2>4 DEF publish, TypeOK
  <2>5. QED
    BY <2>2, <2>3, <2>4
<1>4. CASE addCall(c)
  BY <1>4 DEF addCall, TypeOK, netVars
<1>5. CASE RemoteCallReturn(c)
  <2>1. PICK w \in remoteCallWait(c) :
          return(c, IF w = "done" THEN reply[c] ELSE w) /\ TakeNotify(w)
    BY <1>5 DEF RemoteCallReturn
  <2>2. (IF w = "done" THEN reply[c] ELSE w) \in
          {"none", "success", "badHandler", "internal", "timeout", "closed", "notified", "badBody"}
    BY <2>1 DEF remoteCallWait, Interrupts, TypeOK
  <2>3. QED
    BY <1>5, <1>t, <2>1, <2>2 DEF RemoteCallReturn, return, TypeOK
<1>6. QED
  BY <1>1, <1>2, <1>3, <1>4, <1>5 DEF CallStep

LEMMA ServeCallType ==
    ASSUME TypeOK, NEW msg \in Message, serveCall(msg), IsReply(msg)
    PROVE  /\ reply' \in [Calls -> {"none", "success", "badHandler", "internal", "badBody"}]
           /\ crash' \in [Parties -> {"none", "closedTwice", "nilChannel", "nilConnection"}]
<1>1. msg.id \in Calls /\ msg.status \in {"success", "badHandler", "internal", "badBody"}
  BY DEF Message, IsReply
<1>2. CASE msg.id \in calls /\ reply[msg.id] # "none"
  BY <1>2, ClientIsParty DEF serveCall, TypeOK
<1>3. CASE msg.id \in calls /\ reply[msg.id] = "none"
  <2>1. reply' = [reply EXCEPT ![msg.id] = msg.status] /\ crash' = crash
    BY <1>3 DEF serveCall
  <2>2. QED
    BY <1>1, <2>1 DEF TypeOK
<1>4. CASE msg.id \notin calls
  BY <1>4 DEF serveCall, TypeOK
<1>5. QED
  BY <1>2, <1>3, <1>4

(* Taking the first message of a queue.                                    *)
LEMMA TakeType ==
    ASSUME TypeOK, NEW p \in Parties, queue[p] # << >>
    PROVE  /\ Head(queue[p]) \in Message
           /\ [queue EXCEPT ![p] = Tail(@)] \in [Parties -> Seq(Message)]
<1>1. queue[p] \in Seq(Message)
  BY DEF TypeOK
<1>2. Head(queue[p]) \in Message /\ Tail(queue[p]) \in Seq(Message)
  BY <1>1
<1>3. QED
  BY <1>2 DEF TypeOK

LEMMA ServerAnswerType ==
    ASSUME RpcTypeInv, NEW s \in Servers, ServerAnswer(s)
    PROVE  RpcTypeInv'
<1> USE ClientIsParty DEF RpcTypeInv
<1>1. PICK a \in Answers(serving[s]) :
        /\ serverPublish(s, serving[s], a)
        /\ verdict' = [verdict EXCEPT ![serving[s]] = IF a = "badBody" THEN "success" ELSE a]
  BY DEF ServerAnswer
<1>2. serving[s] \in Calls
  BY DEF ServerAnswer
<1>3. a \in {"success", "badHandler", "internal", "badBody"}
  BY <1>1 DEF Answers
<1>4. [id |-> serving[s], status |-> a] \in Message
  BY <1>2, <1>3 DEF Message
<1>5. queue' \in [Parties -> Seq(Message)]
  <2>1. queue \in [Parties -> Seq(Message)]
    BY DEF TypeOK
  <2>2. QED
    BY <1>1, <1>4, <2>1, FanoutType DEF serverPublish
<1>a. OnlyReplies(queue'[Client])
  <2>1. queue[Client] \in Seq(Message) /\ IsReply([id |-> serving[s], status |-> a])
    BY <1>3 DEF TypeOK, IsReply
  <2>2. queue'[Client] \in {queue[Client], Append(queue[Client], [id |-> serving[s], status |-> a])}
    BY <1>1 DEF serverPublish, Fanout
  <2>3. QED
    BY <1>4, <2>1, <2>2, OnlyRepliesStays
<1>6. verdict' \in [Calls -> {"none", "success", "badHandler", "internal"}]
  BY <1>1, <1>3 DEF TypeOK
<1>b. answered' \in [Calls -> SUBSET Servers]
  BY <1>2 DEF ServerAnswer, TypeOK
<1>7. /\ loop' \in [Parties -> {"connecting", "unborn", "ready", "select", "busy",
                                "reconnect", "notify", "failed", "done"}]
      /\ serving' \in [Servers -> Calls \cup {NoCall}]
  BY DEF ServerAnswer, TypeOK
<1>8. \A t \in Servers : loop'[t] = "busy" => loop[t] = "busy" /\ serving'[t] = serving[t]
  BY DEF ServerAnswer, TypeOK
<1>9. QED
  BY <1>5, <1>6, <1>7, <1>8, <1>a, <1>b DEF ServerAnswer, TypeOK, callVars

(* A request in a server's queue names a call.                             *)
LEMMA ServerTakeType ==
    ASSUME RpcTypeInv, NEW s \in Servers, ServerTake(s)
    PROVE  RpcTypeInv'
<1> USE ClientIsParty DEF RpcTypeInv
<1>1. /\ Head(queue[s]) \in Message
      /\ [queue EXCEPT ![s] = Tail(@)] \in [Parties -> Seq(Message)]
  BY TakeType DEF ServerTake
<1>2. Head(queue[s]).id \in Calls
  BY <1>1 DEF Message
<1>3. serving' \in [Servers -> Calls \cup {NoCall}] /\ serving'[s] \in Calls
  BY <1>2 DEF ServerTake, TypeOK
<1>4. /\ loop' \in [Parties -> {"connecting", "unborn", "ready", "select", "busy",
                                "reconnect", "notify", "failed", "done"}]
      /\ \A t \in Servers : t # s => loop'[t] = loop[t] /\ serving'[t] = serving[t]
  BY DEF ServerTake, TypeOK
<1>5. queue'[Client] = queue[Client]
  BY RmqAssumption DEF ServerTake, TypeOK
<1>6. QED
  BY <1>1, <1>3, <1>4, <1>5 DEF ServerTake, TypeOK, callVars

LEMMA ClientDeliverType ==
    ASSUME RpcTypeInv, ClientDeliver
    PROVE  RpcTypeInv'
<1> USE ClientIsParty DEF RpcTypeInv
<1>0. queue[Client] \in Seq(Message) /\ queue[Client] # << >>
  BY DEF ClientDeliver, TypeOK
<1>1. /\ Head(queue[Client]) \in Message
      /\ queue' \in [Parties -> Seq(Message)]
  BY TakeType DEF ClientDeliver
<1>2. IsReply(Head(queue[Client])) /\ OnlyReplies(queue'[Client])
  BY <1>0, OnlyRepliesStays DEF ClientDeliver, TypeOK
<1>3. /\ reply' \in [Calls -> {"none", "success", "badHandler", "internal", "badBody"}]
      /\ crash' \in [Parties -> {"none", "closedTwice", "nilChannel", "nilConnection"}]
  BY <1>1, <1>2, ServeCallType DEF ClientDeliver
<1>4. QED
  BY <1>1, <1>2, <1>3 DEF ClientDeliver, TypeOK

LEMMA ClientStepType ==
    ASSUME RpcTypeInv, ClientStep \/ ClientShutdown
    PROVE  RpcTypeInv'
<1> USE ClientIsParty
<1>1. CASE ClientNew
  BY <1>1, NewConnectionType DEF ClientNew
<1>2. CASE BeginReconnect(Client)
  BY <1>2, LoopType DEF BeginReconnect
<1>3. CASE ClientReconnect
  BY <1>3, AttemptConnectType DEF ClientReconnect
<1>4. CASE ClientDeliver
  BY <1>4, ClientDeliverType
<1>5. CASE ClientStop
  BY <1>5, LoopType DEF ClientStop
<1>6. CASE ClientShutdownReturn
  BY <1>6, CloseConnectionType DEF ClientShutdownReturn
<1>7. CASE ClientShutdown
  BY <1>7, ShutdownType DEF ClientShutdown
<1>8. QED
  BY <1>1, <1>2, <1>3, <1>4, <1>5, <1>6, <1>7 DEF ClientStep

LEMMA ServerStepType ==
    ASSUME RpcTypeInv, NEW s \in Servers, ServerStep(s) \/ ServerShutdown(s)
    PROVE  RpcTypeInv'
<1>0. s \in Parties
  BY ClientIsParty
<1>1. CASE ServerNew(s)
  BY <1>0, <1>1, NewConnectionType DEF ServerNew
<1>2. CASE ServerStart(s) \/ BeginReconnect(s) \/ ServerStop(s)
  BY <1>0, <1>2, LoopType DEF ServerStart, BeginReconnect, ServerStop
<1>3. CASE ServerReconnect(s)
  BY <1>0, <1>3, AttemptConnectType DEF ServerReconnect
<1>4. CASE ServerTake(s) \/ ServerAnswer(s)
  BY <1>4, ServerTakeType, ServerAnswerType
<1>5. CASE ServerShutdownReturn(s)
  BY <1>0, <1>5, CloseConnectionType DEF ServerShutdownReturn
<1>6. CASE ServerShutdown(s)
  BY <1>0, <1>6, ShutdownType DEF ServerShutdown
<1>7. QED
  BY <1>1, <1>2, <1>3, <1>4, <1>5, <1>6 DEF ServerStep

LEMMA InitRpcType == Init => RpcTypeInv
<1> SUFFICES ASSUME Init PROVE RpcTypeInv
  OBVIOUS
<1>1. [connection |-> "nil", channel |-> "nil", delivery |-> "closed"] \in Connection
  BY DEF Connection
<1>2. queue \in [Parties -> Seq(Message)]
  <2>1. << >> \in Seq(Message)
    OBVIOUS
  <2>2. QED
    BY <2>1 DEF Init
<1>3. OnlyReplies(queue[Client])
  BY ClientIsParty, OnlyRepliesStays DEF Init
<1>4. QED
  BY <1>1, <1>2, <1>3, ClientIsParty, RmqAssumption DEF Init, RpcTypeInv, TypeOK

LEMMA NextRpcType == RpcTypeInv /\ [Next]_vars => RpcTypeInv'
<1> SUFFICES ASSUME RpcTypeInv, [Next]_vars PROVE RpcTypeInv'
  OBVIOUS
<1>1. CASE UNCHANGED vars
  BY <1>1 DEF vars, RpcTypeInv, TypeOK
<1>2. CASE \E c \in Calls : RemoteCall(c) \/ CallStep(c)
  BY <1>2, CallType
<1>3. CASE ClientStep \/ ClientShutdown
  BY <1>3, ClientStepType
<1>4. CASE \E s \in Servers : ServerStep(s) \/ ServerShutdown(s)
  BY <1>4, ServerStepType
<1>5. CASE \E p \in Parties : LoseConnection(p)
  BY <1>5, LoseConnectionType
<1>6. QED
  BY <1>1, <1>2, <1>3, <1>4, <1>5 DEF Next

(* Every variable of client, servers and broker keeps its type; the server *)
(* loop never works on nothing, and a client never receives a request.     *)
THEOREM RpcTypeCorrect == Spec => []TypeOK
<1>1. Spec => []RpcTypeInv
  BY InitRpcType, NextRpcType, PTL DEF Spec
<1>2. RpcTypeInv => TypeOK
  BY DEF RpcTypeInv
<1>3. QED
  BY <1>1, <1>2, PTL

-----------------------------------------------------------------------------
(* The registered calls.                                                   *)

RegisteredInv == RpcTypeInv /\ RegisteredWhileWaiting

LEMMA NextRegistered == RegisteredInv /\ [Next]_vars => RegisteredInv'
<1> SUFFICES ASSUME RegisteredInv, [Next]_vars PROVE RegisteredWhileWaiting'
  BY NextRpcType DEF RegisteredInv
<1> USE DEF RegisteredInv, RpcTypeInv, RegisteredWhileWaiting
<1>0. ASSUME pc' = pc, calls' = calls PROVE RegisteredWhileWaiting'
  BY <1>0
<1>1. CASE UNCHANGED vars
  BY <1>1 DEF vars
<1>2. ASSUME NEW c \in Calls, RemoteCall(c) \/ CallStep(c) PROVE RegisteredWhileWaiting'
  <2>1. CASE RemoteCall(c)
    BY <2>1 DEF RemoteCall, TypeOK
  <2>2. CASE preRemoteCallWait(c)
    BY <2>2 DEF preRemoteCallWait, return, TypeOK
  <2>3. CASE publish(c)
    <3>1. calls' = calls /\ pc[c] = "publish" /\ pc' \in {pc, [pc EXCEPT ![c] = "register"],
                                                         [pc EXCEPT ![c] = "returned"]}
      BY <2>3 DEF publish, return
    <3>2. QED
      BY <3>1 DEF TypeOK
  <2>4. CASE addCall(c)
    BY <2>4 DEF addCall, TypeOK
  <2>5. CASE RemoteCallReturn(c)
    BY <2>5 DEF RemoteCallReturn, return, TypeOK
  <2>6. QED
    BY <1>2, <2>1, <2>2, <2>3, <2>4, <2>5 DEF CallStep
<1>3. CASE ClientStep \/ ClientShutdown
  BY <1>0, <1>3 DEF ClientStep, ClientNew, NewConnection, BeginReconnect, ClientReconnect,
     ClientDeliver, ClientStop, ClientShutdownReturn, CloseConnection, ClientShutdown, callVars
<1>4. CASE \E s \in Servers : ServerStep(s) \/ ServerShutdown(s)
  BY <1>0, <1>4 DEF ServerStep, ServerNew, NewConnection, ServerStart, BeginReconnect,
     ServerReconnect, ServerTake, ServerAnswer, ServerStop, ServerShutdownReturn,
     CloseConnection, ServerShutdown, callVars
<1>5. CASE \E p \in Parties : LoseConnection(p)
  BY <1>0, <1>5 DEF LoseConnection, callVars
<1>6. QED
  BY <1>1, <1>2, <1>3, <1>4, <1>5 DEF Next

(* Client.calls holds exactly the waiting calls, however many callers run  *)
(* beside the delivery goroutine: addCall and the deferred deleteCall of   *)
(* one call never touch the entry of another.                              *)
THEOREM RegisteredSafe == Spec => []RegisteredWhileWaiting
<1>1. Init => RegisteredInv
  BY InitRpcType DEF RegisteredInv, RegisteredWhileWaiting, Init
<1>2. RegisteredInv => RegisteredWhileWaiting
  BY DEF RegisteredInv
<1>3. QED
  BY <1>1, <1>2, NextRegistered, PTL DEF Spec

-----------------------------------------------------------------------------
(* What is in the queues.                                                  *)

Holds(q, msg) == \E i \in 1 .. Len(q) : q[i] = msg
Waiting(q, c) == \E i \in 1 .. Len(q) : q[i].id = c
Distinct(q) == \A i, j \in 1 .. Len(q) : q[i].id = q[j].id => i = j

(* The request of c has left the client.                                   *)
Sent(c) == pc[c] \in {"register", "wait", "returned"} /\ result[c] # "refused"

(* A reply a is what the server decided for the call, or cannot be read.   *)
Fits(a, v) == v # "none" /\ a \in {v, "badBody"}

(* A request is in one place at most until its verdict, and was sent.      *)
RequestOnce(s) ==
    /\ Distinct(queue[s])
    /\ \A c \in Calls : Waiting(queue[s], c) =>
          Sent(c) /\ verdict[c] = "none" /\ (loop[s] = "busy" => serving[s] # c)
    /\ loop[s] = "busy" => Sent(serving[s]) /\ verdict[serving[s]] = "none"

RequestsOnce == \A s \in Servers : RequestOnce(s)

(* A reply is in one place at most: the client's queue or its call.        *)
RepliesOnce ==
    /\ Distinct(queue[Client])
    /\ \A msg \in Message : Holds(queue[Client], msg) =>
          reply[msg.id] = "none" /\ Fits(msg.status, verdict[msg.id])

CallsAnswered ==
    \A c \in Calls :
        /\ pc[c] # "returned" => result[c] = "none"
        /\ verdict[c] # "none" => Sent(c)
        /\ reply[c] # "none" => Fits(reply[c], verdict[c])

RpcInv == RpcTypeInv /\ RequestsOnce /\ RepliesOnce /\ CallsAnswered

LEMMA QueueEmpty ==
    /\ Distinct(<< >>)
    /\ \A c : ~ Waiting(<< >>, c)
    /\ \A msg : ~ Holds(<< >>, msg)
BY DEF Distinct, Waiting, Holds

(* The first message leaves: what is left was there, and is of other calls. *)
LEMMA QueueTail ==
    ASSUME NEW q \in Seq(Message), q # << >>, Distinct(q)
    PROVE  /\ Distinct(Tail(q))
           /\ \A c : Waiting(Tail(q), c) => Waiting(q, c) /\ c # Head(q).id
           /\ \A msg : Holds(Tail(q), msg) => Holds(q, msg) /\ msg.id # Head(q).id
           /\ Holds(q, Head(q)) /\ Waiting(q, Head(q).id)
<1>1. /\ Len(q) \in Nat /\ Len(q) # 0 /\ Head(q) = q[1] /\ Len(Tail(q)) = Len(q) - 1
      /\ \A i \in 1 .. Len(Tail(q)) : Tail(q)[i] = q[i + 1]
  OBVIOUS
<1>2. QED
  BY <1>1 DEF Distinct, Waiting, Holds

LEMMA QueueAppend ==
    ASSUME NEW q \in Seq(Message), NEW msg \in Message, Distinct(q), ~ Waiting(q, msg.id)
    PROVE  /\ Distinct(Append(q, msg))
           /\ \A c : Waiting(Append(q, msg), c) => Waiting(q, c) \/ c = msg.id
           /\ \A m : Holds(Append(q, msg), m) => Holds(q, m) \/ m = msg
<1>1. /\ Len(q) \in Nat /\ Len(Append(q, msg)) = Len(q) + 1
      /\ \A i \in 1 .. Len(q) : Append(q, msg)[i] = q[i]
      /\ Append(q, msg)[Len(q) + 1] = msg
  OBVIOUS
<1>2. QED
  BY <1>1 DEF Distinct, Waiting, Holds

LEMMA WaitingHolds ==
    ASSUME NEW q \in Seq(Message), NEW c, Waiting(q, c)
    PROVE  \E msg \in Message : Holds(q, msg) /\ msg.id = c
<1>1. \A i \in 1 .. Len(q) : q[i] \in Message
  OBVIOUS
<1>2. QED
  BY <1>1 DEF Waiting, Holds

(* A step of the goroutines or the network that touches no call: queues    *)
(* may be lost and loops move, but no server begins or ends a request.     *)
Quiet ==
    /\ UNCHANGED <<pc, result, verdict, answered, calls, reply>>
    /\ crash'[Client] = "closedTwice" => crash[Client] = "closedTwice"
    /\ \A p \in Parties : queue'[p] \in {queue[p], << >>}
    /\ \A s \in Servers : loop'[s] = "busy" => loop[s] = "busy" /\ serving'[s] = serving[s]

LEMMA QuietKeeps ==
    ASSUME RpcInv, RpcTypeInv', Quiet
    PROVE  RpcInv'
<1>1. RequestsOnce'
  <2> SUFFICES ASSUME NEW s \in Servers PROVE RequestOnce(s)'
    BY DEF RequestsOnce
  <2>1. queue'[s] \in {queue[s], << >>}
    BY ClientIsParty DEF Quiet
  <2>2. QED
    BY <2>1, QueueEmpty DEF Quiet, RpcInv, RequestsOnce, RequestOnce, Sent
<1>2. RepliesOnce'
  <2>1. queue'[Client] \in {queue[Client], << >>}
    BY ClientIsParty DEF Quiet
  <2>2. QED
    BY <2>1, QueueEmpty DEF Quiet, RpcInv, RepliesOnce
<1>3. CallsAnswered'
  BY DEF Quiet, RpcInv, CallsAnswered, Sent
<1>4. QED
  BY <1>1, <1>2, <1>3 DEF RpcInv

LEMMA NewConnectionQuiet ==
    ASSUME RpcTypeInv, NEW p \in Parties, NEW born \in {"select", "ready"}, NewConnection(p, born)
    PROVE  Quiet
BY ClientIsParty DEF NewConnection, RpcTypeInv, TypeOK, Quiet, callVars

LEMMA AttemptConnectQuiet ==
    ASSUME RpcTypeInv, NEW p \in Parties, NEW lost \in {"notify", "failed"},
           loop[p] = "reconnect", AttemptConnect(p, "select", lost),
           UNCHANGED <<callVars, verdict, answered, serving, shut, crash>>
    PROVE  Quiet
<1>1. PICK at \in {"select", "notify", "failed", "reconnect"} : loop' = [loop EXCEPT ![p] = at]
  <2>1. PICK new \in connect(p) :
          loop' = [loop EXCEPT ![p] = IF new = Connected THEN "select"
                                      ELSE IF left[p] = 1 THEN lost ELSE @]
    BY DEF AttemptConnect
  <2>2. QED
    BY <2>1
<1>2. \A s \in Servers : loop'[s] = "busy" => loop[s] = "busy"
  BY <1>1, ClientIsParty DEF RpcTypeInv, TypeOK
<1>3. QED
  BY <1>2 DEF AttemptConnect, Quiet, callVars

LEMMA CloseConnectionQuiet ==
    ASSUME RpcTypeInv, NEW p \in Parties, CloseConnection(p)
    PROVE  Quiet
BY ClientIsParty DEF CloseConnection, RpcTypeInv, TypeOK, Quiet, callVars

LEMMA LoseConnectionQuiet ==
    ASSUME RpcTypeInv, NEW p \in Parties, LoseConnection(p)
    PROVE  Quiet
BY DEF LoseConnection, RpcTypeInv, TypeOK, Quiet, callVars

LEMMA LoopQuiet ==
    ASSUME RpcTypeInv, NEW p \in Parties,
           NEW at \in {"ready", "select", "reconnect", "notify", "failed", "done"},
           loop' = [loop EXCEPT ![p] = at],
           UNCHANGED <<callVars, verdict, answered, queue, serving, crash>>
    PROVE  Quiet
BY ClientIsParty DEF RpcTypeInv, TypeOK, Quiet, callVars

LEMMA ShutdownQuiet ==
    ASSUME UNCHANGED <<callVars, verdict, answered, netVars, serving, crash>>
    PROVE  Quiet
BY DEF Quiet, callVars, netVars

(* A caller moves on: what it has sent, it has sent.                       *)
LEMMA CallerMoves ==
    ASSUME RpcInv, RpcTypeInv', NEW c \in Calls,
           \A d \in Calls : d # c => pc'[d] = pc[d] /\ result'[d] = result[d],
           Sent(c) => Sent(c)',
           pc'[c] # "returned" => result'[c] = "none",
           UNCHANGED <<verdict, answered, reply, queue, serving>>,
           \A s \in Servers : loop'[s] = "busy" => loop[s] = "busy"
    PROVE  RpcInv'
<1>1. \A d \in Calls : Sent(d) => Sent(d)'
  BY DEF Sent
<1>2. RequestsOnce'
  <2> SUFFICES ASSUME NEW s \in Servers PROVE RequestOnce(s)'
    BY DEF RequestsOnce
  <2>1. loop'[s] = "busy" => serving[s] \in Calls /\ serving'[s] = serving[s]
    BY DEF RpcInv, RpcTypeInv
  <2>2. loop'[s] = "busy" => Sent(serving[s])'
    BY <1>1, <2>1 DEF RpcInv, RequestsOnce, RequestOnce, Sent
  <2>3. QED
    BY <1>1, <2>1, <2>2 DEF RpcInv, RequestsOnce, RequestOnce
<1>3. RepliesOnce'
  BY DEF RpcInv, RepliesOnce
<1>4. CallsAnswered'
  BY <1>1 DEF RpcInv, CallsAnswered
<1>5. QED
  BY <1>2, <1>3, <1>4 DEF RpcInv

(* The goroutine that hands over its error is the client's.                *)
LEMMA NotifyLeavesServers ==
    ASSUME RpcTypeInv, NEW i, TakeNotify(i)
    PROVE  \A s \in Servers : loop'[s] = loop[s]
BY RmqAssumption, ClientIsParty DEF TakeNotify, RpcTypeInv, TypeOK

(* The request of c goes out: nothing of c was anywhere before.            *)
LEMMA PublishOnce ==
    ASSUME RpcInv, RpcTypeInv', NEW c \in Calls, publish(c), conn[Client].channel = "up"
    PROVE  RpcInv'
<1> DEFINE msg == [id |-> c, status |-> "request"]
<1>1. /\ pc[c] = "publish" /\ pc' = [pc EXCEPT ![c] = "register"]
      /\ queue' = Fanout(Servers, msg)
      /\ UNCHANGED <<result, verdict, answered, reply, loop, serving>>
  BY DEF publish
<1>2. msg \in Message /\ msg.id = c
  BY DEF Message
<1>3. /\ ~ Sent(c) /\ verdict[c] = "none" /\ result[c] = "none"
      /\ \A s \in Servers : ~ Waiting(queue[s], c) /\ (loop[s] = "busy" => serving[s] # c)
  BY <1>1 DEF RpcInv, CallsAnswered, RequestsOnce, RequestOnce, Sent
<1>4. /\ Sent(c)'
      /\ \A d \in Calls : Sent(d) => Sent(d)'
      /\ \A d \in Calls : d # c => pc'[d] = pc[d]
  BY <1>1, <1>3 DEF Sent, RpcInv, RpcTypeInv, TypeOK
<1>5. RequestsOnce'
  <2> SUFFICES ASSUME NEW s \in Servers PROVE RequestOnce(s)'
    BY DEF RequestsOnce
  <2>1. queue[s] \in Seq(Message) /\ Distinct(queue[s]) /\ RequestOnce(s)
    BY ClientIsParty DEF RpcInv, RpcTypeInv, TypeOK, RequestsOnce, RequestOnce
  <2>2. queue'[s] \in {queue[s], Append(queue[s], msg)}
    BY <1>1, ClientIsParty DEF Fanout
  <2>3. /\ Distinct(queue'[s])
        /\ \A d \in Calls : Waiting(queue'[s], d) => Waiting(queue[s], d) \/ d = c
    <3>1. CASE queue'[s] = queue[s]
      BY <2>1, <3>1
    <3>2. CASE queue'[s] = Append(queue[s], msg)
      BY <1>2, <1>3, <2>1, <3>2, QueueAppend
    <3>3. QED
      BY <2>2, <3>1, <3>2
  <2>4. loop'[s] = "busy" => Sent(serving[s])'
    <3>1. loop'[s] = "busy" => serving[s] \in Calls /\ Sent(serving[s]) /\ serving' = serving
      BY <1>1, <2>1 DEF RpcInv, RpcTypeInv, RequestOnce
    <3>2. QED
      BY <1>4, <3>1 DEF Sent
  <2>5. QED
    BY <1>1, <1>3, <1>4, <2>1, <2>3, <2>4 DEF RequestOnce
<1>6. queue'[Client] = queue[Client]
  BY <1>1, RmqAssumption, ClientIsParty DEF Fanout
<1>7. RepliesOnce'
  BY <1>1, <1>6 DEF RpcInv, RepliesOnce
<1>8. CallsAnswered'
  BY <1>1, <1>3, <1>4 DEF RpcInv, CallsAnswered
<1>9. QED
  BY <1>5, <1>7, <1>8 DEF RpcInv

LEMMA CallKeeps ==
    ASSUME RpcInv, RpcTypeInv', NEW c \in Calls, RemoteCall(c) \/ CallStep(c)
    PROVE  RpcInv'
<1>0. /\ pc \in [Calls -> {"idle", "pre", "publish", "register", "wait", "returned"}]
      /\ DOMAIN result = Calls /\ c \in Calls
      /\ pc[c] # "returned" => result[c] = "none"
  BY DEF RpcInv, RpcTypeInv, TypeOK, CallsAnswered
<1>1. CASE RemoteCall(c)
  BY <1>0, <1>1, CallerMoves DEF RemoteCall, Sent, netVars
<1>2. CASE preRemoteCallWait(c)
  <2>1. CASE pc' = [pc EXCEPT ![c] = "publish"] /\ UNCHANGED <<result, loop>>
    BY <1>0, <1>2, <2>1, CallerMoves DEF preRemoteCallWait, Sent
  <2>2. CASE \E i \in Interrupts : return(c, "refused") /\ TakeNotify(i)
    <3>1. \A s \in Servers : loop'[s] = loop[s]
      BY <2>2, NotifyLeavesServers DEF RpcInv
    <3>2. QED
      BY <1>0, <1>2, <2>2, <3>1, CallerMoves DEF preRemoteCallWait, return, Sent
  <2>3. QED
    BY <1>2, <2>1, <2>2 DEF preRemoteCallWait
<1>3. CASE publish(c)
  <2>1. CASE conn[Client].channel = "up"
    BY <1>3, <2>1, PublishOnce
  <2>2. CASE conn[Client].channel = "closed"
    BY <1>0, <1>3, <2>2, CallerMoves DEF publish, return, Sent
  <2>3. CASE conn[Client].channel \notin {"up", "closed"}
    BY <1>0, <1>3, <2>3, CallerMoves DEF publish, Sent
  <2>4. QED
    BY <2>1, <2>2, <2>3
<1>4. CASE addCall(c)
  BY <1>0, <1>4, CallerMoves DEF addCall, Sent, netVars
<1>5. CASE RemoteCallReturn(c)
  <2>1. PICK w \in remoteCallWait(c) :
          return(c, IF w = "done" THEN reply[c] ELSE w) /\ TakeNotify(w)
    BY <1>5 DEF RemoteCallReturn
  <2>2. (IF w = "done" THEN reply[c] ELSE w) # "refused"
    BY <2>1 DEF remoteCallWait, Interrupts, RpcInv, RpcTypeInv, TypeOK
  <2>3. \A s \in Servers : loop'[s] = loop[s]
    BY <2>1, NotifyLeavesServers DEF RpcInv
  <2>4. QED
    BY <1>0, <1>5, <2>1, <2>2, <2>3, CallerMoves DEF RemoteCallReturn, return, Sent
<1>6. QED
  BY <1>1, <1>2, <1>3, <1>4, <1>5 DEF CallStep

(* A reply leaves the client's queue and is, at most, put into its call.   *)
LEMMA DeliverKeeps ==
    ASSUME RpcInv, RpcTypeInv', ClientDeliver
    PROVE  RpcInv' /\ crash' = crash
<1> DEFINE q == queue[Client]
           msg == Head(q)
<1>1. q \in Seq(Message) /\ q # << >> /\ Distinct(q) /\ msg \in Message
  <2>1. q \in Seq(Message) /\ q # << >> /\ Distinct(q)
    BY ClientIsParty DEF ClientDeliver, RpcInv, RpcTypeInv, TypeOK, RepliesOnce
  <2>2. QED
    BY <2>1
<1>2. msg.id \in Calls
  BY <1>1 DEF Message
<1>3. Holds(q, msg) /\ reply[msg.id] = "none" /\ Fits(msg.status, verdict[msg.id])
  BY <1>1, QueueTail DEF RpcInv, RepliesOnce
<1>4. /\ crash' = crash
      /\ reply' \in {reply, [reply EXCEPT ![msg.id] = msg.status]}
      /\ UNCHANGED <<pc, result, verdict, answered, loop, serving>>
      /\ queue' = [queue EXCEPT ![Client] = Tail(q)]
  BY <1>3 DEF ClientDeliver, serveCall
<1>5. \A d \in Calls : d # msg.id => reply'[d] = reply[d]
  BY <1>4 DEF RpcInv, RpcTypeInv, TypeOK
<1>6. reply'[msg.id] # "none" => Fits(reply'[msg.id], verdict[msg.id])
  BY <1>2, <1>3, <1>4 DEF RpcInv, RpcTypeInv, TypeOK
<1>7. /\ queue'[Client] = Tail(q)
      /\ \A s \in Servers : queue'[s] = queue[s]
  BY <1>4, RmqAssumption, ClientIsParty DEF RpcInv, RpcTypeInv, TypeOK
<1>8. RepliesOnce'
  <2>1. Distinct(queue'[Client])
    BY <1>1, <1>7, QueueTail
  <2>2. ASSUME NEW m \in Message, Holds(queue'[Client], m)
        PROVE  reply'[m.id] = "none" /\ Fits(m.status, verdict'[m.id])
    <3>1. Holds(q, m) /\ m.id # msg.id /\ m.id \in Calls
      BY <1>1, <1>7, <2>2, QueueTail DEF Message
    <3>2. QED
      BY <1>4, <1>5, <3>1 DEF RpcInv, RepliesOnce
  <2>3. QED
    BY <2>1, <2>2 DEF RepliesOnce
<1>9. RequestsOnce'
  BY <1>4, <1>7 DEF RpcInv, RequestsOnce, RequestOnce, Sent
<1>10. CallsAnswered'
  BY <1>4, <1>5, <1>6 DEF RpcInv, CallsAnswered, Sent
<1>11. QED
  BY <1>4, <1>8, <1>9, <1>10 DEF RpcInv

LEMMA TakeKeeps ==
    ASSUME RpcInv, RpcTypeInv', NEW s \in Servers, ServerTake(s)
    PROVE  RpcInv'
<1> DEFINE q == queue[s]
<1>1. /\ q \in Seq(Message) /\ q # << >> /\ Distinct(q) /\ Head(q) \in Message
      /\ RequestOnce(s) /\ s \in Parties
  <2>1. /\ q \in Seq(Message) /\ q # << >> /\ Distinct(q)
        /\ RequestOnce(s) /\ s \in Parties
    BY ClientIsParty DEF ServerTake, RpcInv, RpcTypeInv, TypeOK, RequestsOnce, RequestOnce
  <2>2. QED
    BY <2>1
<1>2. Head(q).id \in Calls /\ Waiting(q, Head(q).id)
  BY <1>1, QueueTail DEF Message
<1>3. /\ serving'[s] = Head(q).id /\ queue'[s] = Tail(q)
      /\ \A t \in Servers : t # s => /\ loop'[t] = loop[t] /\ serving'[t] = serving[t]
                                     /\ queue'[t] = queue[t]
      /\ queue'[Client] = queue[Client]
      /\ UNCHANGED <<pc, result, verdict, answered, reply>>
  BY <1>1, RmqAssumption, ClientIsParty
     DEF ServerTake, RpcInv, RpcTypeInv, TypeOK, callVars
<1>4. RequestsOnce'
  <2> SUFFICES ASSUME NEW t \in Servers PROVE RequestOnce(t)'
    BY DEF RequestsOnce
  <2>1. CASE t = s
    <3>1. /\ Distinct(queue'[s])
          /\ \A c \in Calls : Waiting(queue'[s], c) => Waiting(q, c) /\ c # Head(q).id
      BY <1>1, <1>3, QueueTail
    <3>2. QED
      BY <1>1, <1>2, <1>3, <2>1, <3>1 DEF RequestOnce, Sent
  <2>2. CASE t # s
    BY <1>3, <2>2 DEF RpcInv, RequestsOnce, RequestOnce, Sent
  <2>3. QED
    BY <2>1, <2>2
<1>5. RepliesOnce' /\ CallsAnswered'
  BY <1>3 DEF RpcInv, RepliesOnce, CallsAnswered, Sent
<1>6. QED
  BY <1>4, <1>5 DEF RpcInv

(* With a second server the request would still be in its queue.           *)
AtMostOneServer == \A s, t \in Servers : s = t

LEMMA AnswerKeeps ==
    ASSUME RpcInv, RpcTypeInv', AtMostOneServer, NEW s \in Servers, ServerAnswer(s)
    PROVE  RpcInv'
<1> DEFINE c == serving[s]
<1>1. PICK a \in Answers(c) :
        /\ serverPublish(s, c, a)
        /\ verdict' = [verdict EXCEPT ![c] = IF a = "badBody" THEN "success" ELSE a]
  BY DEF ServerAnswer
<1> DEFINE msg == [id |-> c, status |-> a]
<1>2. /\ c \in Calls /\ Sent(c) /\ verdict[c] = "none" /\ RequestOnce(s)
      /\ a \in {"success", "badHandler", "internal", "badBody"}
  BY <1>1 DEF ServerAnswer, Answers, RpcInv, RpcTypeInv, RequestsOnce, RequestOnce
<1>3. msg \in Message /\ msg.id = c /\ msg.status = a
  BY <1>2 DEF Message
<1>4. /\ Fits(a, verdict'[c])
      /\ \A d \in Calls : d # c => verdict'[d] = verdict[d]
  BY <1>1, <1>2 DEF Fits, RpcInv, RpcTypeInv, TypeOK
<1>5. /\ loop'[s] = "select" /\ UNCHANGED <<pc, result, reply>>
      /\ queue'[s] = queue[s]
      /\ queue'[Client] \in {queue[Client], Append(queue[Client], msg)}
  <2>1. loop'[s] = "select" /\ UNCHANGED <<pc, result, reply>>
    BY ClientIsParty DEF ServerAnswer, RpcInv, RpcTypeInv, TypeOK, callVars
  <2>2. CASE conn[s].channel = "up"
    <3>1. queue' = Fanout({Client}, msg)
      BY <1>1, <2>2 DEF serverPublish
    <3>2. QED
      BY <2>1, <3>1, RmqAssumption, ClientIsParty DEF Fanout
  <2>3. CASE conn[s].channel # "up"
    BY <1>1, <2>1, <2>3 DEF serverPublish
  <2>4. QED
    BY <2>2, <2>3
<1>6. RequestsOnce'
  <2>1. RequestOnce(s)'
    <3>1. \A d \in Calls : Waiting(queue[s], d) => d # c
      BY <1>2 DEF ServerAnswer, RequestOnce
    <3>2. QED
      BY <1>2, <1>4, <1>5, <3>1 DEF RequestOnce, Sent
  <2>2. QED
    BY <2>1 DEF RequestsOnce, AtMostOneServer
<1>7. reply[c] = "none" /\ ~ Waiting(queue[Client], c)
  <2>1. queue[Client] \in Seq(Message)
    BY ClientIsParty DEF RpcInv, RpcTypeInv, TypeOK
  <2>2. QED
    BY <1>2, <2>1, WaitingHolds DEF RpcInv, RepliesOnce, CallsAnswered, Fits
<1>8. RepliesOnce'
  <2>1. queue[Client] \in Seq(Message) /\ Distinct(queue[Client])
    BY ClientIsParty DEF RpcInv, RpcTypeInv, TypeOK, RepliesOnce
  <2>2. /\ Distinct(queue'[Client])
        /\ \A m : Holds(queue'[Client], m) => Holds(queue[Client], m) \/ m = msg
    <3>1. CASE queue'[Client] = queue[Client]
      BY <2>1, <3>1
    <3>2. CASE queue'[Client] = Append(queue[Client], msg)
      BY <1>3, <1>7, <2>1, <3>2, QueueAppend
    <3>3. QED
      BY <1>5, <3>1, <3>2
  <2>3. ASSUME NEW m \in Message, Holds(queue'[Client], m)
        PROVE  reply'[m.id] = "none" /\ Fits(m.status, verdict'[m.id])
    <3>1. CASE m = msg
      BY <1>3, <1>4, <1>5, <1>7, <3>1
    <3>2. CASE Holds(queue[Client], m)
      <4>1. reply[m.id] = "none" /\ Fits(m.status, verdict[m.id]) /\ m.id \in Calls
        BY <3>2 DEF RpcInv, RepliesOnce, Message
      <4>2. m.id # c
        BY <1>2, <4>1 DEF Fits
      <4>3. QED
        BY <1>4, <1>5, <4>1, <4>2
    <3>3. QED
      BY <2>2, <2>3, <3>1, <3>2
  <2>4. QED
    BY <2>2, <2>3 DEF RepliesOnce
<1>9. CallsAnswered'
  BY <1>2, <1>4, <1>5, <1>7 DEF RpcInv, CallsAnswered, Sent
<1>10. QED
  BY <1>6, <1>8, <1>9 DEF RpcInv

(* Every step is quiet, a caller's, a delivery, or a server's on a request. *)
LEMMA StepKinds ==
    ASSUME RpcTypeInv, [Next]_vars
    PROVE  \/ Quiet
           \/ \E c \in Calls : RemoteCall(c) \/ CallStep(c)
           \/ ClientDeliver
           \/ \E s \in Servers : ServerTake(s) \/ ServerAnswer(s)
<1>1. CASE UNCHANGED vars
  BY <1>1 DEF vars, Quiet
<1>2. CASE \E c \in Calls : RemoteCall(c) \/ CallStep(c)
  BY <1>2
<1>3. CASE ClientStep \/ ClientShutdown
  <2> USE ClientIsParty
  <2>1. CASE ClientNew
    BY <2>1, NewConnectionQuiet DEF ClientNew
  <2>2. CASE BeginReconnect(Client)
    BY <2>2, LoopQuiet DEF BeginReconnect
  <2>3. CASE ClientReconnect
    BY <2>3, AttemptConnectQuiet DEF ClientReconnect
  <2>4. CASE ClientDeliver
    BY <2>4
  <2>5. CASE ClientStop
    BY <2>5, LoopQuiet DEF ClientStop
  <2>6. CASE ClientShutdownReturn
    BY <2>6, CloseConnectionQuiet DEF ClientShutdownReturn
  <2>7. CASE ClientShutdown
    BY <2>7, ShutdownQuiet DEF ClientShutdown
  <2>8. QED
    BY <1>3, <2>1, <2>2, <2>3, <2>4, <2>5, <2>6, <2>7 DEF ClientStep
<1>4. ASSUME NEW s \in Servers, ServerStep(s) \/ ServerShutdown(s)
      PROVE  Quiet \/ ServerTake(s) \/ ServerAnswer(s)
  <2>0. s \in Parties
    BY ClientIsParty
  <2>1. CASE ServerNew(s)
    BY <2>0, <2>1, NewConnectionQuiet DEF ServerNew
  <2>2. CASE ServerStart(s) \/ BeginReconnect(s) \/ ServerStop(s)
    BY <2>0, <2>2, LoopQuiet DEF ServerStart, BeginReconnect, ServerStop
  <2>3. CASE ServerReconnect(s)
    BY <2>0, <2>3, AttemptConnectQuiet DEF ServerReconnect
  <2>4. CASE ServerShutdownReturn(s)
    BY <2>0, <2>4, CloseConnectionQuiet DEF ServerShutdownReturn
  <2>5. CASE ServerShutdown(s)
    BY <2>5, ShutdownQuiet DEF ServerShutdown
  <2>6. QED
    BY <1>4, <2>1, <2>2, <2>3, <2>4, <2>5 DEF ServerStep
<1>5. CASE \E p \in Parties : LoseConnection(p)
  BY <1>5, LoseConnectionQuiet
<1>6. QED
  BY <1>1, <1>2, <1>3, <1>4, <1>5 DEF Next

LEMMA InitRpcInv == Init => RpcInv
<1> SUFFICES ASSUME Init PROVE RpcInv
  OBVIOUS
<1>1. RequestsOnce
  BY QueueEmpty, ClientIsParty DEF Init, RequestsOnce, RequestOnce
<1>2. RepliesOnce
  BY QueueEmpty, ClientIsParty DEF Init, RepliesOnce
<1>3. CallsAnswered
  BY DEF Init, CallsAnswered
<1>4. QED
  BY <1>1, <1>2, <1>3, InitRpcType DEF RpcInv

LEMMA NextRpcInv == AtMostOneServer /\ RpcInv /\ [Next]_vars => RpcInv'
<1> SUFFICES ASSUME AtMostOneServer, RpcInv, [Next]_vars PROVE RpcInv'
  OBVIOUS
<1>1. RpcTypeInv /\ RpcTypeInv'
  BY NextRpcType DEF RpcInv
<1>2. QED
  BY <1>1, StepKinds, QuietKeeps, CallKeeps, DeliverKeeps, TakeKeeps, AnswerKeeps

-----------------------------------------------------------------------------
(* The refinement.                                                         *)

phaseBar == [c \in Calls |-> CASE pc[c] = "idle" -> "idle"
                               [] pc[c] = "returned" -> "returned"
                               [] OTHER -> "called"]

LEMMA SameAbstract ==
    ASSUME UNCHANGED <<pc, verdict, answered, result>>
    PROVE  UNCHANGED Abstract!rcVars
BY DEF Abstract!rcVars

(* A call that is on its way and stays so is none of the caller's business. *)
LEMMA StillCalled ==
    ASSUME TypeOK, NEW c \in Calls, NEW at \in {"pre", "publish", "register", "wait"},
           pc[c] \in {"pre", "publish", "register", "wait"},
           pc' = [pc EXCEPT ![c] = at], UNCHANGED <<verdict, answered, result>>
    PROVE  UNCHANGED Abstract!rcVars
<1>1. phaseBar' = phaseBar
  <2>1. \A d \in Calls : phaseBar'[d] = phaseBar[d]
    BY DEF phaseBar, TypeOK
  <2>2. QED
    BY <2>1 DEF phaseBar
<1>2. QED
  BY <1>1 DEF Abstract!rcVars, phaseBar

LEMMA ReturnBar ==
    ASSUME TypeOK, NEW c \in Calls, NEW r, pc[c] \in {"pre", "publish", "register", "wait"},
           return(c, r)
    PROVE  /\ phaseBar[c] = "called"
           /\ phaseBar' = [phaseBar EXCEPT ![c] = "returned"]
           /\ result' = [result EXCEPT ![c] = r]
BY DEF return, TypeOK, phaseBar

LEMMA CallImplements ==
    ASSUME RpcInv, NEW c \in Calls, RemoteCall(c) \/ CallStep(c)
    PROVE  Abstract!RCNext \/ UNCHANGED Abstract!rcVars
<1>0. TypeOK /\ (~ Sent(c) => verdict[c] = "none")
  BY DEF RpcInv, RpcTypeInv, CallsAnswered
<1>r. ASSUME NEW r \in Abstract!Verdicts \cup Abstract!Failures \cup {"refused"},
             pc[c] \in {"pre", "publish", "register", "wait"}, return(c, r), verdict' = verdict,
             r = "refused" => verdict[c] = "none",
             r \in Abstract!Verdicts => r = verdict[c]
      PROVE  Abstract!RCNext
  <2>1. Abstract!Return(c, r)
    BY <1>0, <1>r, ReturnBar DEF Abstract!Return, Abstract!Verdicts, phaseBar
  <2>2. QED
    BY <2>1 DEF Abstract!RCNext
<1>1. CASE RemoteCall(c)
  <2>1. phaseBar[c] = "idle" /\ phaseBar' = [phaseBar EXCEPT ![c] = "called"]
    BY <1>0, <1>1 DEF RemoteCall, TypeOK, phaseBar
  <2>2. Abstract!Call(c)
    BY <1>1, <2>1 DEF RemoteCall, Abstract!Call, phaseBar
  <2>3. QED
    BY <2>2 DEF Abstract!RCNext
<1>2. CASE preRemoteCallWait(c)
  <2>1. CASE pc' = [pc EXCEPT ![c] = "publish"] /\ UNCHANGED <<result, loop>>
    BY <1>0, <1>2, <2>1, StillCalled DEF preRemoteCallWait
  <2>2. CASE return(c, "refused")
    BY <1>0, <1>2, <1>r, <2>2 DEF preRemoteCallWait, Sent, Abstract!Verdicts
  <2>3. QED
    BY <1>2, <2>1, <2>2 DEF preRemoteCallWait
<1>3. CASE publish(c)
  <2>1. CASE conn[Client].channel = "up"
    BY <1>0, <1>3, <2>1, StillCalled DEF publish
  <2>2. CASE conn[Client].channel = "closed"
    BY <1>0, <1>3, <1>r, <2>2 DEF publish, Sent, Abstract!Verdicts
  <2>3. CASE conn[Client].channel \notin {"up", "closed"}
    BY <1>3, <2>3, SameAbstract DEF publish
  <2>4. QED
    BY <2>1, <2>2, <2>3
<1>4. CASE addCall(c)
  BY <1>0, <1>4, StillCalled DEF addCall
<1>5. CASE RemoteCallReturn(c)
  <2>1. PICK w \in remoteCallWait(c) :
          return(c, IF w = "done" THEN reply[c] ELSE w) /\ TakeNotify(w)
    BY <1>5 DEF RemoteCallReturn
  <2> DEFINE r == IF w = "done" THEN reply[c] ELSE w
  <2>2. r \in {"timeout", "closed", "notified", "badBody"} \/ (r = verdict[c] /\ r # "none")
    BY <2>1 DEF remoteCallWait, Interrupts, RpcInv, CallsAnswered, Fits
  <2>3. /\ r \in Abstract!Verdicts \cup Abstract!Failures \cup {"refused"}
        /\ r \in Abstract!Verdicts => r = verdict[c]
        /\ r # "refused"
    BY <1>0, <2>2 DEF Abstract!Verdicts, Abstract!Failures, TypeOK
  <2>4. return(c, r)
    BY <2>1
  <2> HIDE DEF r
  <2>5. QED
    BY <1>5, <1>r, <2>3, <2>4 DEF RemoteCallReturn
<1>6. QED
  BY <1>1, <1>2, <1>3, <1>4, <1>5 DEF CallStep

LEMMA AnswerImplements ==
    ASSUME RpcInv, NEW s \in Servers, ServerAnswer(s)
    PROVE  Abstract!RCNext
<1> DEFINE c == serving[s]
<1>1. PICK v \in Abstract!Verdicts : verdict' = [verdict EXCEPT ![c] = v]
  <2>1. PICK a \in Answers(c) :
          verdict' = [verdict EXCEPT ![c] = IF a = "badBody" THEN "success" ELSE a]
    BY DEF ServerAnswer
  <2>2. (IF a = "badBody" THEN "success" ELSE a) \in Abstract!Verdicts
    BY <2>1 DEF Answers, Abstract!Verdicts
  <2>3. QED
    BY <2>1, <2>2
<1>2. c \in Calls /\ Sent(c) /\ verdict[c] = "none"
  BY DEF ServerAnswer, RpcInv, RpcTypeInv, RequestsOnce, RequestOnce
<1>3. phaseBar[c] # "idle" /\ result[c] # "refused"
  BY <1>2 DEF Sent, phaseBar
<1>4. phaseBar' = phaseBar /\ result' = result
  BY DEF ServerAnswer, callVars, phaseBar
<1>5. Abstract!Serve(c, v)
  BY <1>1, <1>2, <1>3, <1>4 DEF Abstract!Serve, phaseBar
<1>6. QED
  BY <1>1, <1>2, <1>5 DEF Abstract!RCNext

LEMMA NextImplements == RpcInv /\ [Next]_vars => [Abstract!RCNext]_(Abstract!rcVars)
<1> SUFFICES ASSUME RpcInv, [Next]_vars
             PROVE  Abstract!RCNext \/ UNCHANGED Abstract!rcVars
  OBVIOUS
<1>1. CASE Quiet
  BY <1>1, SameAbstract DEF Quiet
<1>2. CASE \E c \in Calls : RemoteCall(c) \/ CallStep(c)
  BY <1>2, CallImplements
<1>3. CASE ClientDeliver
  BY <1>3, SameAbstract DEF ClientDeliver
<1>4. CASE \E s \in Servers : ServerTake(s) \/ ServerAnswer(s)
  BY <1>4, AnswerImplements, SameAbstract DEF ServerTake, callVars
<1>5. QED
  BY <1>1, <1>2, <1>3, <1>4, StepKinds DEF RpcInv

(* With at most one server bound to the exchange, a RemoteCall over        *)
(* RabbitMQ is the abstract call: whatever is lost, late or reconnected,   *)
(* each call is served at most once, returns once, and gets no verdict but *)
(* its own (client.go remoteCall and serveCall, server.go serveCall).      *)
THEOREM RmqRefines == AtMostOneServer /\ Spec => ImplementsRemoteCall
<1>1. Init => Abstract!RCInit
  BY DEF Init, Abstract!RCInit
<1>2. CASE AtMostOneServer
  <2>1. RpcInv /\ [Next]_vars => RpcInv'
    BY <1>2, NextRpcInv
  <2>2. QED
    BY <1>1, <2>1, InitRpcInv, NextImplements, PTL
       DEF Spec, ImplementsRemoteCall, Abstract!RCSpec
<1>3. QED
  BY <1>2

-----------------------------------------------------------------------------
(* Double closes, with any number of servers on the fanout exchange.       *)

TwoAnswers(c) == \E s, t \in answered[c] : s # t

Repeated(q, c) == \E i, j \in 1 .. Len(q) : i # j /\ q[i].id = c /\ q[j].id = c

(* A server has a request in one place at most, until it has answered it.  *)
ServerOnce(s) ==
    /\ Distinct(queue[s])
    /\ \A c \in Calls : Waiting(queue[s], c) =>
          Sent(c) /\ s \notin answered[c] /\ (loop[s] = "busy" => serving[s] # c)
    /\ loop[s] = "busy" => Sent(serving[s]) /\ s \notin answered[serving[s]]

(* A reply comes from a server, and a second one from another server.      *)
Accounted(c) ==
    /\ pc[c] # "returned" => result[c] = "none"
    /\ answered[c] # {} => Sent(c)
    /\ Waiting(queue[Client], c) \/ reply[c] # "none" => answered[c] # {}
    /\ Waiting(queue[Client], c) /\ reply[c] # "none" => TwoAnswers(c)
    /\ Repeated(queue[Client], c) => TwoAnswers(c)

FanoutInv ==
    /\ RpcTypeInv
    /\ \A s \in Servers : ServerOnce(s)
    /\ \A c \in Calls : Accounted(c)
    /\ DoubleCloseTakesTwoServers

LEMMA RepeatedQueue ==
    /\ \A c : ~ Repeated(<< >>, c)
    /\ \A q \in Seq(Message) : q # << >> =>
          /\ Waiting(q, Head(q).id)
          /\ \A c : Waiting(Tail(q), c) => Waiting(q, c)
          /\ \A c : Repeated(Tail(q), c) => Repeated(q, c)
          /\ Waiting(Tail(q), Head(q).id) => Repeated(q, Head(q).id)
    /\ \A q \in Seq(Message), msg \in Message :
          /\ \A c : Waiting(Append(q, msg), c) => Waiting(q, c) \/ c = msg.id
          /\ \A c : Repeated(Append(q, msg), c) => Repeated(q, c) \/ (c = msg.id /\ Waiting(q, c))
<1>1. \A c : ~ Repeated(<< >>, c)
  BY DEF Repeated
<1>2. ASSUME NEW q \in Seq(Message), q # << >>
      PROVE  /\ Waiting(q, Head(q).id)
             /\ \A c : Waiting(Tail(q), c) => Waiting(q, c)
             /\ \A c : Repeated(Tail(q), c) => Repeated(q, c)
             /\ Waiting(Tail(q), Head(q).id) => Repeated(q, Head(q).id)
  <2>1. /\ Len(q) \in Nat /\ Len(q) # 0 /\ Head(q) = q[1] /\ Len(Tail(q)) = Len(q) - 1
        /\ \A i \in 1 .. Len(Tail(q)) : Tail(q)[i] = q[i + 1]
    BY <1>2
  <2>2. \A i \in 1 .. Len(Tail(q)) : i + 1 \in 1 .. Len(q) /\ i + 1 # 1
    BY <2>1
  <2>3. Waiting(q, Head(q).id)
    BY <2>1 DEF Waiting
  <2>4. ASSUME NEW c, Waiting(Tail(q), c) PROVE Waiting(q, c)
    BY <2>1, <2>2, <2>4 DEF Waiting
  <2>5. ASSUME NEW c, Repeated(Tail(q), c) PROVE Repeated(q, c)
    <3>1. PICK i, j \in 1 .. Len(Tail(q)) : i # j /\ Tail(q)[i].id = c /\ Tail(q)[j].id = c
      BY <2>5 DEF Repeated
    <3>2. q[i + 1].id = c /\ q[j + 1].id = c /\ i + 1 # j + 1
      BY <2>1, <3>1
    <3>3. QED
      BY <2>2, <3>2 DEF Repeated
  <2>6. ASSUME Waiting(Tail(q), Head(q).id) PROVE Repeated(q, Head(q).id)
    <3>1. PICK i \in 1 .. Len(Tail(q)) : Tail(q)[i].id = Head(q).id
      BY <2>6 DEF Waiting
    <3>2. q[i + 1].id = Head(q).id /\ q[1].id = Head(q).id /\ 1 \in 1 .. Len(q)
      BY <2>1, <3>1
    <3>3. QED
      BY <2>2, <3>2 DEF Repeated
  <2>7. QED
    BY <2>3, <2>4, <2>5, <2>6
<1>3. ASSUME NEW q \in Seq(Message), NEW msg \in Message
      PROVE  /\ \A c : Waiting(Append(q, msg), c) => Waiting(q, c) \/ c = msg.id
             /\ \A c : Repeated(Append(q, msg), c) => Repeated(q, c) \/ (c = msg.id /\ Waiting(q, c))
  <2>1. /\ Len(q) \in Nat /\ Len(Append(q, msg)) = Len(q) + 1
        /\ \A i \in 1 .. Len(q) : Append(q, msg)[i] = q[i]
        /\ Append(q, msg)[Len(q) + 1] = msg
    OBVIOUS
  <2>2. \A i \in 1 .. Len(Append(q, msg)) : i \in 1 .. Len(q) \/ i = Len(q) + 1
    BY <2>1
  <2>3. QED
    BY <2>1, <2>2 DEF Waiting, Repeated
<1>4. QED
  BY <1>1, <1>2, <1>3

LEMMA QuietAccounts ==
    ASSUME FanoutInv, RpcTypeInv', Quiet
    PROVE  FanoutInv'
<1>1. ASSUME NEW s \in Servers PROVE ServerOnce(s)'
  <2>1. queue'[s] \in {queue[s], << >>} /\ ServerOnce(s)
    BY ClientIsParty DEF Quiet, FanoutInv
  <2>2. QED
    BY <2>1, QueueEmpty DEF Quiet, ServerOnce, Sent
<1>2. ASSUME NEW c \in Calls PROVE Accounted(c)'
  <2>1. queue'[Client] \in {queue[Client], << >>} /\ Accounted(c)
    BY ClientIsParty DEF Quiet, FanoutInv
  <2>2. QED
    BY <2>1, QueueEmpty, RepeatedQueue DEF Quiet, Accounted, Sent, TwoAnswers
<1>3. DoubleCloseTakesTwoServers'
  BY DEF Quiet, FanoutInv, DoubleCloseTakesTwoServers
<1>4. QED
  BY <1>1, <1>2, <1>3 DEF FanoutInv

(* A caller moves on; only a live client has callers that do.              *)
LEMMA CallerAccounts ==
    ASSUME FanoutInv, RpcTypeInv', NEW c \in Calls,
           \A d \in Calls : d # c => pc'[d] = pc[d] /\ result'[d] = result[d],
           Sent(c) => Sent(c)',
           pc'[c] # "returned" => result'[c] = "none",
           UNCHANGED <<answered, reply, queue, serving>>,
           crash'[Client] # "closedTwice",
           \A s \in Servers : loop'[s] = "busy" => loop[s] = "busy"
    PROVE  FanoutInv'
<1>1. \A d \in Calls : Sent(d) => Sent(d)'
  BY DEF Sent
<1>2. ASSUME NEW s \in Servers PROVE ServerOnce(s)'
  <2>0. ServerOnce(s)
    BY DEF FanoutInv
  <2>1. loop'[s] = "busy" => serving[s] \in Calls /\ serving'[s] = serving[s]
    BY DEF FanoutInv, RpcTypeInv
  <2>2. loop'[s] = "busy" => Sent(serving[s])'
    BY <1>1, <2>0, <2>1 DEF ServerOnce, Sent
  <2>3. QED
    BY <1>1, <2>0, <2>1, <2>2 DEF ServerOnce
<1>3. ASSUME NEW d \in Calls PROVE Accounted(d)'
  <2>1. Accounted(d) /\ (pc'[d] # "returned" => result'[d] = "none")
    BY DEF FanoutInv, Accounted
  <2>2. QED
    BY <1>1, <2>1 DEF Accounted, TwoAnswers
<1>4. DoubleCloseTakesTwoServers'
  BY DEF DoubleCloseTakesTwoServers
<1>5. QED
  BY <1>2, <1>3, <1>4 DEF FanoutInv

(* The request of c goes out to every server, none of which knew it.       *)
LEMMA PublishAccounts ==
    ASSUME FanoutInv, RpcTypeInv', NEW c \in Calls, publish(c), conn[Client].channel = "up"
    PROVE  FanoutInv'
<1> DEFINE msg == [id |-> c, status |-> "request"]
<1>1. /\ pc[c] = "publish" /\ pc' = [pc EXCEPT ![c] = "register"]
      /\ queue' = Fanout(Servers, msg) /\ Alive(Client)
      /\ UNCHANGED <<result, answered, reply, loop, serving, crash>>
  BY DEF publish
<1>2. msg \in Message /\ msg.id = c
  BY DEF Message
<1>3. /\ ~ Sent(c) /\ answered[c] = {} /\ result[c] = "none"
      /\ \A s \in Servers : ~ Waiting(queue[s], c) /\ (loop[s] = "busy" => serving[s] # c)
  <2>1. Accounted(c) /\ ~ Sent(c)
    BY <1>1 DEF FanoutInv, Sent
  <2>2. ASSUME NEW s \in Servers PROVE ~ Waiting(queue[s], c) /\ (loop[s] = "busy" => serving[s] # c)
    BY <2>1 DEF FanoutInv, ServerOnce
  <2>3. QED
    BY <1>1, <2>1, <2>2 DEF Accounted
<1>4. /\ Sent(c)'
      /\ \A d \in Calls : Sent(d) => Sent(d)'
      /\ \A d \in Calls : d # c => pc'[d] = pc[d]
      /\ pc'[c] = "register"
  BY <1>1, <1>3 DEF Sent, FanoutInv, RpcTypeInv, TypeOK
<1>5. ASSUME NEW s \in Servers PROVE ServerOnce(s)'
  <2>1. queue[s] \in Seq(Message) /\ Distinct(queue[s]) /\ ServerOnce(s)
    BY ClientIsParty DEF FanoutInv, RpcTypeInv, TypeOK, ServerOnce
  <2>2. queue'[s] \in {queue[s], Append(queue[s], msg)}
    BY <1>1, ClientIsParty DEF Fanout
  <2>3. /\ Distinct(queue'[s])
        /\ \A d \in Calls : Waiting(queue'[s], d) => Waiting(queue[s], d) \/ d = c
    <3>1. CASE queue'[s] = queue[s]
      BY <2>1, <3>1
    <3>2. CASE queue'[s] = Append(queue[s], msg)
      BY <1>2, <1>3, <2>1, <3>2, QueueAppend
    <3>3. QED
      BY <2>2, <3>1, <3>2
  <2>4. loop'[s] = "busy" => Sent(serving[s])'
    <3>1. loop'[s] = "busy" => serving[s] \in Calls /\ Sent(serving[s]) /\ serving' = serving
      BY <1>1, <2>1 DEF FanoutInv, RpcTypeInv, ServerOnce
    <3>2. QED
      BY <1>4, <3>1 DEF Sent
  <2>5. QED
    BY <1>1, <1>3, <1>4, <2>1, <2>3, <2>4 DEF ServerOnce
<1>6. queue'[Client] = queue[Client]
  BY <1>1, RmqAssumption, ClientIsParty DEF Fanout
<1>7. ASSUME NEW d \in Calls PROVE Accounted(d)'
  <2>1. Accounted(d)
    BY DEF FanoutInv
  <2>2. QED
    BY <1>1, <1>3, <1>4, <1>6, <2>1 DEF Accounted, TwoAnswers
<1>8. DoubleCloseTakesTwoServers'
  BY <1>1 DEF Alive, DoubleCloseTakesTwoServers
<1>9. QED
  BY <1>5, <1>7, <1>8 DEF FanoutInv

LEMMA CallAccounts ==
    ASSUME FanoutInv, RpcTypeInv', NEW c \in Calls, RemoteCall(c) \/ CallStep(c)
    PROVE  FanoutInv'
<1>0. /\ pc \in [Calls -> {"idle", "pre", "publish", "register", "wait", "returned"}]
      /\ DOMAIN result = Calls
      /\ pc[c] # "returned" => result[c] = "none"
      /\ crash[Client] = "none"
  BY DEF FanoutInv, RpcTypeInv, TypeOK, Accounted, Alive,
     RemoteCall, CallStep, preRemoteCallWait, publish, addCall, RemoteCallReturn
<1>1. CASE RemoteCall(c)
  BY <1>0, <1>1, CallerAccounts DEF RemoteCall, Sent, netVars
<1>2. CASE preRemoteCallWait(c)
  <2>1. CASE pc' = [pc EXCEPT ![c] = "publish"] /\ UNCHANGED <<result, loop>>
    BY <1>0, <1>2, <2>1, CallerAccounts DEF preRemoteCallWait, Sent
  <2>2. CASE \E i \in Interrupts : return(c, "refused") /\ TakeNotify(i)
    <3>1. \A s \in Servers : loop'[s] = loop[s]
      BY <2>2, NotifyLeavesServers DEF FanoutInv
    <3>2. QED
      BY <1>0, <1>2, <2>2, <3>1, CallerAccounts DEF preRemoteCallWait, return, Sent
  <2>3. QED
    BY <1>2, <2>1, <2>2 DEF preRemoteCallWait
<1>3. CASE publish(c)
  <2>1. CASE conn[Client].channel = "up"
    BY <1>3, <2>1, PublishAccounts
  <2>2. CASE conn[Client].channel = "closed"
    BY <1>0, <1>3, <2>2, CallerAccounts DEF publish, return, Sent
  <2>3. CASE conn[Client].channel \notin {"up", "closed"}
    <3>1. crash'[Client] = "nilChannel" /\ UNCHANGED <<pc, result, answered, reply, queue, serving, loop>>
      BY <1>3, <2>3, ClientIsParty DEF publish, FanoutInv, RpcTypeInv, TypeOK
    <3>2. QED
      BY <1>0, <3>1, CallerAccounts DEF Sent
  <2>4. QED
    BY <2>1, <2>2, <2>3
<1>4. CASE addCall(c)
  BY <1>0, <1>4, CallerAccounts DEF addCall, Sent, netVars
<1>5. CASE RemoteCallReturn(c)
  <2>1. PICK w \in remoteCallWait(c) :
          return(c, IF w = "done" THEN reply[c] ELSE w) /\ TakeNotify(w)
    BY <1>5 DEF RemoteCallReturn
  <2>2. (IF w = "done" THEN reply[c] ELSE w) # "refused"
    BY <2>1 DEF remoteCallWait, Interrupts, FanoutInv, RpcTypeInv, TypeOK
  <2>3. \A s \in Servers : loop'[s] = loop[s]
    BY <2>1, NotifyLeavesServers DEF FanoutInv
  <2>4. QED
    BY <1>0, <1>5, <2>1, <2>2, <2>3, CallerAccounts DEF RemoteCallReturn, return, Sent
<1>6. QED
  BY <1>1, <1>2, <1>3, <1>4, <1>5 DEF CallStep

(* The reply that closes done again is the second one for its call.        *)
LEMMA DeliverAccounts ==
    ASSUME FanoutInv, RpcTypeInv', ClientDeliver
    PROVE  FanoutInv'
<1> DEFINE q == queue[Client]
           msg == Head(q)
<1>1. q \in Seq(Message) /\ q # << >> /\ msg \in Message
  <2>1. q \in Seq(Message) /\ q # << >>
    BY ClientIsParty DEF ClientDeliver, FanoutInv, RpcTypeInv, TypeOK
  <2>2. QED
    BY <2>1
<1>2. msg.id \in Calls /\ Accounted(msg.id) /\ Waiting(q, msg.id)
  BY <1>1, RepeatedQueue DEF Message, FanoutInv
<1>3. /\ serveCall(msg) /\ Alive(Client)
      /\ UNCHANGED <<pc, result, calls, answered, loop, serving>>
      /\ queue' = [queue EXCEPT ![Client] = Tail(q)]
  BY DEF ClientDeliver
<1>4. /\ queue'[Client] = Tail(q)
      /\ \A s \in Servers : queue'[s] = queue[s]
  BY <1>3, RmqAssumption, ClientIsParty DEF FanoutInv, RpcTypeInv, TypeOK
<1>5. \A d \in Calls : d # msg.id => reply'[d] = reply[d]
  BY <1>3 DEF serveCall, FanoutInv, RpcTypeInv, TypeOK
<1>6. ASSUME NEW s \in Servers PROVE ServerOnce(s)'
  <2>1. ServerOnce(s)
    BY DEF FanoutInv
  <2>2. QED
    BY <1>3, <1>4, <2>1 DEF ServerOnce, Sent
<1>7. ASSUME NEW d \in Calls PROVE Accounted(d)'
  <2>1. Accounted(d) /\ Sent(d)' = Sent(d) /\ TwoAnswers(d)' = TwoAnswers(d)
    BY <1>3 DEF FanoutInv, Sent, TwoAnswers
  <2>2. /\ Waiting(queue'[Client], d) => Waiting(q, d)
        /\ Repeated(queue'[Client], d) => Repeated(q, d)
    BY <1>1, <1>4, RepeatedQueue
  <2>3. CASE d = msg.id
    <3>1. Waiting(queue'[Client], d) => Repeated(q, d)
      BY <1>1, <1>4, <2>3, RepeatedQueue
    <3>2. QED
      BY <1>2, <1>3, <2>1, <2>2, <2>3, <3>1 DEF Accounted
  <2>4. CASE d # msg.id
    BY <1>3, <1>5, <2>1, <2>2, <2>4 DEF Accounted
  <2>5. QED
    BY <2>3, <2>4
<1>8. DoubleCloseTakesTwoServers'
  <2>1. CASE msg.id \in calls /\ reply[msg.id] # "none"
    BY <1>2, <1>3, <2>1 DEF Accounted, TwoAnswers, DoubleCloseTakesTwoServers
  <2>2. CASE ~ (msg.id \in calls /\ reply[msg.id] # "none")
    BY <1>3, <2>2 DEF serveCall, Alive, DoubleCloseTakesTwoServers
  <2>3. QED
    BY <2>1, <2>2
<1>9. QED
  BY <1>6, <1>7, <1>8 DEF FanoutInv

LEMMA TakeAccounts ==
    ASSUME FanoutInv, RpcTypeInv', NEW s \in Servers, ServerTake(s)
    PROVE  FanoutInv'
<1> DEFINE q == queue[s]
<1>1. /\ q \in Seq(Message) /\ q # << >> /\ Distinct(q) /\ Head(q) \in Message
      /\ ServerOnce(s) /\ s \in Parties
  <2>1. /\ q \in Seq(Message) /\ q # << >> /\ Distinct(q)
        /\ ServerOnce(s) /\ s \in Parties
    BY ClientIsParty DEF ServerTake, FanoutInv, RpcTypeInv, TypeOK, ServerOnce
  <2>2. QED
    BY <2>1
<1>2. Head(q).id \in Calls /\ Waiting(q, Head(q).id)
  BY <1>1, QueueTail DEF Message
<1>3. /\ serving'[s] = Head(q).id /\ queue'[s] = Tail(q)
      /\ \A t \in Servers : t # s => /\ loop'[t] = loop[t] /\ serving'[t] = serving[t]
                                     /\ queue'[t] = queue[t]
      /\ queue'[Client] = queue[Client]
      /\ UNCHANGED <<pc, result, answered, calls, reply, crash>>
  BY <1>1, RmqAssumption, ClientIsParty
     DEF ServerTake, FanoutInv, RpcTypeInv, TypeOK, callVars
<1>4. ASSUME NEW t \in Servers PROVE ServerOnce(t)'
  <2>1. CASE t = s
    <3>1. /\ Distinct(queue'[s])
          /\ \A c \in Calls : Waiting(queue'[s], c) => Waiting(q, c) /\ c # Head(q).id
      BY <1>1, <1>3, QueueTail
    <3>2. QED
      BY <1>1, <1>2, <1>3, <2>1, <3>1 DEF ServerOnce, Sent
  <2>2. CASE t # s
    <3>1. ServerOnce(t)
      BY DEF FanoutInv
    <3>2. QED
      BY <1>3, <2>2, <3>1 DEF ServerOnce, Sent
  <2>3. QED
    BY <2>1, <2>2
<1>5. ASSUME NEW c \in Calls PROVE Accounted(c)'
  <2>1. Accounted(c)
    BY DEF FanoutInv
  <2>2. QED
    BY <1>3, <2>1 DEF Accounted, Sent, TwoAnswers
<1>6. DoubleCloseTakesTwoServers'
  BY <1>3 DEF FanoutInv, DoubleCloseTakesTwoServers
<1>7. QED
  BY <1>4, <1>5, <1>6 DEF FanoutInv

(* A reply that joins another one for its call comes from another server.  *)
LEMMA AnswerAccounts ==
    ASSUME FanoutInv, RpcTypeInv', NEW s \in Servers, ServerAnswer(s)
    PROVE  FanoutInv'
<1> DEFINE c == serving[s]
<1>1. PICK a \in Answers(c) : serverPublish(s, c, a)
  BY DEF ServerAnswer
<1> DEFINE msg == [id |-> c, status |-> a]
<1>2. /\ c \in Calls /\ Sent(c) /\ s \notin answered[c] /\ ServerOnce(s) /\ Accounted(c)
      /\ a \in {"success", "badHandler", "internal", "badBody"}
      /\ s \in Parties
  BY <1>1, ClientIsParty DEF ServerAnswer, Answers, FanoutInv, RpcTypeInv, ServerOnce
<1>3. msg \in Message /\ msg.id = c
  BY <1>2 DEF Message
<1>4. /\ answered'[c] = answered[c] \cup {s}
      /\ \A d \in Calls : d # c => answered'[d] = answered[d]
  BY <1>2 DEF ServerAnswer, FanoutInv, RpcTypeInv, TypeOK
<1>5. /\ loop'[s] = "select"
      /\ \A t \in Servers : t # s => loop'[t] = loop[t] /\ serving'[t] = serving[t]
      /\ UNCHANGED <<pc, result, calls, reply, crash>>
  BY <1>2, ClientIsParty DEF ServerAnswer, FanoutInv, RpcTypeInv, TypeOK, callVars
<1>6. /\ queue'[Client] \in {queue[Client], Append(queue[Client], msg)}
      /\ \A t \in Servers : queue'[t] = queue[t]
  <2>1. CASE conn[s].channel = "up"
    <3>1. queue' = Fanout({Client}, msg)
      BY <1>1, <2>1 DEF serverPublish
    <3>2. QED
      BY <3>1, RmqAssumption, ClientIsParty DEF Fanout
  <2>2. CASE conn[s].channel # "up"
    BY <1>1, <2>2 DEF serverPublish
  <2>3. QED
    BY <2>1, <2>2
<1>7. queue[Client] \in Seq(Message)
  BY ClientIsParty DEF FanoutInv, RpcTypeInv, TypeOK
<1>8. ASSUME NEW t \in Servers PROVE ServerOnce(t)'
  <2>1. CASE t = s
    <3>1. \A d \in Calls : Waiting(queue[s], d) => d # c
      BY <1>2 DEF ServerAnswer, ServerOnce
    <3>2. QED
      BY <1>2, <1>4, <1>5, <1>6, <2>1, <3>1 DEF ServerOnce, Sent
  <2>2. CASE t # s
    <3>1. ServerOnce(t) /\ (loop[t] = "busy" => serving[t] \in Calls)
      BY DEF FanoutInv, RpcTypeInv
    <3>2. \A d \in Calls : t \notin answered[d] => t \notin answered'[d]
      BY <1>4, <2>2
    <3>3. QED
      BY <1>5, <1>6, <2>2, <3>1, <3>2 DEF ServerOnce, Sent
  <2>3. QED
    BY <2>1, <2>2
<1>9. ASSUME NEW d \in Calls PROVE Accounted(d)'
  <2>1. Accounted(d) /\ Sent(d)' = Sent(d)
    BY <1>5 DEF FanoutInv, Sent
  <2>2. /\ Waiting(queue'[Client], d) => Waiting(queue[Client], d) \/ d = c
        /\ Repeated(queue'[Client], d) =>
              Repeated(queue[Client], d) \/ (d = c /\ Waiting(queue[Client], d))
    <3>1. CASE queue'[Client] = queue[Client]
      BY <3>1
    <3>2. CASE queue'[Client] = Append(queue[Client], msg)
      BY <1>3, <1>7, <3>2, RepeatedQueue
    <3>3. QED
      BY <1>6, <3>1, <3>2
  <2>3. CASE d = c
    <3>1. /\ Sent(d) /\ answered'[d] # {}
          /\ answered[d] # {} => TwoAnswers(d)'
      BY <1>2, <1>4, <2>3 DEF TwoAnswers
    <3>2. TwoAnswers(d) => answered[d] # {}
      BY DEF TwoAnswers
    <3>3. QED
      BY <1>5, <2>1, <2>2, <2>3, <3>1, <3>2 DEF Accounted
  <2>4. CASE d # c
    <3>1. answered'[d] = answered[d] /\ TwoAnswers(d)' = TwoAnswers(d)
      BY <1>4, <2>4 DEF TwoAnswers
    <3>2. QED
      BY <1>5, <2>1, <2>2, <2>4, <3>1 DEF Accounted
  <2>5. QED
    BY <2>3, <2>4
<1>10. DoubleCloseTakesTwoServers'
  <2>1. \A d \in Calls : answered[d] \subseteq answered'[d]
    BY <1>4
  <2>2. calls \subseteq Calls
    BY DEF FanoutInv, RpcTypeInv, TypeOK
  <2>3. QED
    BY <1>5, <2>1, <2>2 DEF FanoutInv, DoubleCloseTakesTwoServers
<1>11. QED
  BY <1>8, <1>9, <1>10 DEF FanoutInv

LEMMA NextFanout == FanoutInv /\ [Next]_vars => FanoutInv'
<1> SUFFICES ASSUME FanoutInv, [Next]_vars PROVE FanoutInv'
  OBVIOUS
<1>1. RpcTypeInv /\ RpcTypeInv'
  BY NextRpcType DEF FanoutInv
<1>2. QED
  BY <1>1, StepKinds, QuietAccounts, CallAccounts, DeliverAccounts, TakeAccounts, AnswerAccounts

(* With any number of servers on the fanout exchange, callers, timeouts    *)
(* and reconnects, the client's goroutine closes a done channel twice only *)
(* when two different servers have answered one call whose caller is still *)
(* registered: no server's answer reaches a call twice (client.go          *)
(* serveCall, server.go serveCall and publish).                            *)
THEOREM DoubleCloseSafe == Spec => []DoubleCloseTakesTwoServers
<1>1. Init => FanoutInv
  <2> SUFFICES ASSUME Init PROVE FanoutInv
    OBVIOUS
  <2>1. \A s \in Servers : ServerOnce(s)
    BY QueueEmpty, ClientIsParty DEF Init, ServerOnce
  <2>2. \A c \in Calls : Accounted(c)
    BY QueueEmpty, RepeatedQueue, ClientIsParty DEF Init, Accounted
  <2>3. DoubleCloseTakesTwoServers
    BY ClientIsParty DEF Init, DoubleCloseTakesTwoServers
  <2>4. QED
    BY <2>1, <2>2, <2>3, InitRpcType DEF FanoutInv
<1>2. FanoutInv => DoubleCloseTakesTwoServers
  BY DEF FanoutInv
<1>3. QED
  BY <1>1, <1>2, NextFanout, PTL DEF Spec

-----------------------------------------------------------------------------
(* Nil panics, with any number of servers.                                 *)

NilCrash == {"nilChannel", "nilConnection"}

Whole(cn) == cn.connection # "nil" /\ cn.channel # "nil"

(* A goroutine that serves, or has stopped serving, left connect() whole.  *)
NilInv ==
    /\ RpcTypeInv
    /\ \A c \in Calls : pc[c] # "idle" => loop[Client] \notin {"connecting", "unborn"}
    /\ \A p \in Parties : loop[p] \in {"ready", "select", "busy", "done"} => Whole(conn[p])
    /\ NilPanicsAfterReconnect

(* A step that makes nobody panic, moves no goroutine of a process that    *)
(* panicked on a nil, and lets nobody serve with half a connection.        *)
LEMMA NilStays ==
    ASSUME NilInv, RpcTypeInv', crash' = crash,
           \A p \in Parties : loop'[p] = loop[p] \/ crash[p] \notin NilCrash,
           \A p \in Parties : loop'[p] \in {"ready", "select", "busy", "done"} => Whole(conn'[p]),
           loop'[Client] \in {"connecting", "unborn"} => loop[Client] \in {"connecting", "unborn"},
           \A c \in Calls : pc'[c] # "idle" =>
               pc[c] # "idle" \/ loop[Client] \notin {"connecting", "unborn"}
    PROVE  NilInv'
<1>1. NilPanicsAfterReconnect'
  BY DEF NilInv, NilPanicsAfterReconnect, NilCrash
<1>2. \A c \in Calls : pc'[c] # "idle" => loop'[Client] \notin {"connecting", "unborn"}
  BY DEF NilInv
<1>3. QED
  BY <1>1, <1>2 DEF NilInv

LEMMA NewConnectionNil ==
    ASSUME NilInv, RpcTypeInv', NEW p \in Parties, NEW born \in {"select", "ready"},
           NewConnection(p, born)
    PROVE  NilInv'
<1>1. /\ \A q \in Parties : q # p => conn'[q] = conn[q] /\ loop'[q] = loop[q]
      /\ loop[p] = "connecting" /\ loop'[p] \in {"select", "ready", "unborn"}
      /\ loop'[p] # "unborn" => conn'[p] = Connected
      /\ pc' = pc /\ crash' = crash
  BY DEF NewConnection, callVars, NilInv, RpcTypeInv, TypeOK
<1>2. Whole(Connected)
  BY DEF Whole, Connected
<1>3. crash[p] \notin NilCrash
  BY <1>1 DEF NilInv, NilPanicsAfterReconnect, NilCrash
<1>4. \A q \in Parties : loop'[q] \in {"ready", "select", "busy", "done"} => Whole(conn'[q])
  BY <1>1, <1>2 DEF NilInv
<1>5. QED
  BY <1>1, <1>3, <1>4, ClientIsParty, NilStays

LEMMA AttemptConnectNil ==
    ASSUME NilInv, RpcTypeInv', NEW p \in Parties, NEW lost \in {"notify", "failed"}, Alive(p),
           loop[p] = "reconnect", AttemptConnect(p, "select", lost),
           UNCHANGED <<callVars, verdict, answered, serving, shut, crash>>
    PROVE  NilInv'
<1>1. PICK new \in connect(p), at \in {"select", "notify", "failed", "reconnect"} :
        /\ conn' = [conn EXCEPT ![p] = new] /\ loop' = [loop EXCEPT ![p] = at]
        /\ at = "select" => new = Connected
  <2>1. PICK new \in connect(p) :
          /\ conn' = [conn EXCEPT ![p] = new]
          /\ loop' = [loop EXCEPT ![p] = IF new = Connected THEN "select"
                                         ELSE IF left[p] = 1 THEN lost ELSE @]
    BY DEF AttemptConnect
  <2>2. CASE new = Connected
    BY <2>1, <2>2
  <2>3. CASE new # Connected
    BY <2>1, <2>3
  <2>4. QED
    BY <2>2, <2>3
<1>2. /\ \A q \in Parties : q # p => conn'[q] = conn[q] /\ loop'[q] = loop[q]
      /\ loop'[p] = at /\ conn'[p] = new
  BY <1>1 DEF NilInv, RpcTypeInv, TypeOK
<1>3. Whole(Connected)
  BY DEF Whole, Connected
<1>4. \A q \in Parties : loop'[q] \in {"ready", "select", "busy", "done"} => Whole(conn'[q])
  BY <1>1, <1>2, <1>3 DEF NilInv
<1>5. QED
  BY <1>1, <1>2, <1>4, ClientIsParty, NilStays DEF callVars, Alive, NilCrash

LEMMA LoseConnectionNil ==
    ASSUME NilInv, RpcTypeInv', NEW p \in Parties, LoseConnection(p)
    PROVE  NilInv'
<1>1. /\ \A q \in Parties : q # p => conn'[q] = conn[q]
      /\ conn'[p].channel = "closed"
      /\ conn[p].connection # "nil" => conn'[p].connection # "nil"
      /\ UNCHANGED <<crash, loop, pc>>
  BY DEF LoseConnection, callVars, NilInv, RpcTypeInv, TypeOK
<1>2. \A q \in Parties : loop'[q] \in {"ready", "select", "busy", "done"} => Whole(conn'[q])
  BY <1>1 DEF NilInv, Whole
<1>3. QED
  BY <1>1, <1>2, NilStays

(* The goroutine of a live process goes on, with a whole connection or     *)
(* away from serving.                                                      *)
LEMMA LoopNil ==
    ASSUME NilInv, RpcTypeInv', NEW p \in Parties,
           NEW at \in {"select", "busy", "reconnect", "failed", "done"},
           loop[p] \in {"ready", "select", "busy"},
           loop' = [loop EXCEPT ![p] = at], UNCHANGED <<pc, conn, crash>>
    PROVE  NilInv'
<1>1. /\ \A q \in Parties : q # p => loop'[q] = loop[q]
      /\ loop'[p] = at
  BY DEF NilInv, RpcTypeInv, TypeOK
<1>2. crash[p] \notin NilCrash
  BY DEF NilInv, NilPanicsAfterReconnect, NilCrash
<1>3. \A q \in Parties : loop'[q] \in {"ready", "select", "busy", "done"} => Whole(conn'[q])
  BY <1>1 DEF NilInv
<1>4. QED
  BY <1>1, <1>2, <1>3, ClientIsParty, NilStays

(* Nothing but the queues and the calls changes.                           *)
LEMMA StillNil ==
    ASSUME NilInv, RpcTypeInv', UNCHANGED <<pc, conn, loop, crash>>
    PROVE  NilInv'
BY NilStays DEF NilInv

LEMMA CloseConnectionNil ==
    ASSUME NilInv, RpcTypeInv', NEW p \in Parties, CloseConnection(p)
    PROVE  NilInv'
<1>1. CASE conn[p].connection = "nil"
  <2>1. /\ \A q \in Parties : q # p => crash'[q] = crash[q]
        /\ crash'[p] = "nilConnection" /\ loop[p] \in {"done", "failed"}
        /\ UNCHANGED <<conn, loop, pc>>
    BY <1>1 DEF CloseConnection, callVars, NilInv, RpcTypeInv, TypeOK
  <2>2. loop[p] = "failed"
    BY <1>1, <2>1 DEF NilInv, Whole
  <2>3. QED
    BY <2>1, <2>2 DEF NilInv, NilPanicsAfterReconnect
<1>2. CASE conn[p].connection # "nil"
  <2>1. /\ \A q \in Parties : q # p => conn'[q] = conn[q]
        /\ conn'[p].connection = "closed"
        /\ conn[p].channel # "nil" => conn'[p].channel # "nil"
        /\ UNCHANGED <<crash, loop, pc>>
    BY <1>2 DEF CloseConnection, callVars, NilInv, RpcTypeInv, TypeOK
  <2>2. \A q \in Parties : loop'[q] \in {"ready", "select", "busy", "done"} => Whole(conn'[q])
    BY <2>1 DEF NilInv, Whole
  <2>3. QED
    BY <2>1, <2>2, NilStays
<1>3. QED
  BY <1>1, <1>2

(* A delivery may end in a double close, never in a nil.                   *)
LEMMA DeliverNil ==
    ASSUME NilInv, RpcTypeInv', ClientDeliver
    PROVE  NilInv'
<1>1. /\ UNCHANGED <<pc, conn, loop>>
      /\ \A p \in Parties : crash'[p] \in {crash[p], "closedTwice"}
  BY ClientIsParty DEF ClientDeliver, serveCall, NilInv, RpcTypeInv, TypeOK
<1>2. QED
  BY <1>1 DEF NilInv, NilPanicsAfterReconnect

LEMMA CallNil ==
    ASSUME NilInv, RpcTypeInv', NEW c \in Calls, RemoteCall(c) \/ CallStep(c)
    PROVE  NilInv'
<1>0. /\ crash[Client] = "none"
      /\ pc[c] = "idle" => loop[Client] \notin {"connecting", "unborn"}
      /\ \A d \in Calls : d # c => pc'[d] = pc[d]
      /\ conn' = conn
  BY DEF NilInv, RpcTypeInv, TypeOK, Alive, netVars, return,
     RemoteCall, CallStep, preRemoteCallWait, publish, addCall, RemoteCallReturn
<1>t. ASSUME \/ loop' = loop
             \/ \E i : TakeNotify(i)
      PROVE  /\ \A p \in Parties : p # Client => loop'[p] = loop[p]
             /\ loop'[Client] \in {loop[Client], "failed"}
  BY <1>t, ClientIsParty DEF TakeNotify, NilInv, RpcTypeInv, TypeOK
<1>1. CASE publish(c) /\ conn[Client].channel \notin {"up", "closed"}
  <2>1. conn[Client].channel = "nil"
    BY <1>1, ClientIsParty DEF NilInv, RpcTypeInv, TypeOK, Connection
  <2>2. /\ pc' = pc /\ loop' = loop /\ crash'[Client] = "nilChannel"
        /\ \A p \in Parties : p # Client => crash'[p] = crash[p]
        /\ pc[c] # "idle"
    BY <1>1, ClientIsParty DEF publish, NilInv, RpcTypeInv, TypeOK
  <2>3. loop[Client] \in {"reconnect", "notify", "failed"}
    BY <2>1, <2>2, ClientIsParty DEF NilInv, Whole, RpcTypeInv, TypeOK
  <2>4. QED
    BY <1>0, <2>2, <2>3 DEF NilInv, NilPanicsAfterReconnect
<1>2. CASE ~ (publish(c) /\ conn[Client].channel \notin {"up", "closed"})
  <2>1. crash' = crash /\ (loop' = loop \/ \E i : TakeNotify(i))
    <3>1. CASE RemoteCall(c) \/ addCall(c)
      BY <3>1 DEF RemoteCall, addCall, netVars
    <3>2. CASE preRemoteCallWait(c)
      BY <3>2 DEF preRemoteCallWait
    <3>3. CASE publish(c)
      BY <1>2, <3>3 DEF publish
    <3>4. CASE RemoteCallReturn(c)
      BY <3>4 DEF RemoteCallReturn
    <3>5. QED
      BY <3>1, <3>2, <3>3, <3>4 DEF CallStep
  <2>2. /\ \A p \in Parties : p # Client => loop'[p] = loop[p]
        /\ loop'[Client] \in {loop[Client], "failed"}
    BY <1>t, <2>1
  <2>3. \A p \in Parties : loop'[p] \in {"ready", "select", "busy", "done"} => Whole(conn'[p])
    BY <1>0, <2>2 DEF NilInv
  <2>4. QED
    BY <1>0, <2>1, <2>2, <2>3, NilStays DEF NilCrash
<1>3. QED
  BY <1>1, <1>2

LEMMA NextNil == NilInv /\ [Next]_vars => NilInv'
<1> SUFFICES ASSUME NilInv, [Next]_vars PROVE NilInv'
  OBVIOUS
<1>0. RpcTypeInv'
  BY NextRpcType DEF NilInv
<1> USE <1>0, ClientIsParty
<1>1. CASE UNCHANGED vars
  BY <1>1, StillNil DEF vars
<1>2. CASE \E c \in Calls : RemoteCall(c) \/ CallStep(c)
  BY <1>2, CallNil
<1>3. CASE ClientStep \/ ClientShutdown
  <2>1. CASE ClientNew
    BY <2>1, NewConnectionNil DEF ClientNew
  <2>2. CASE BeginReconnect(Client) \/ ClientStop
    BY <2>2, LoopNil DEF BeginReconnect, ClientStop, callVars
  <2>3. CASE ClientReconnect
    BY <2>3, AttemptConnectNil DEF ClientReconnect
  <2>4. CASE ClientDeliver
    BY <2>4, DeliverNil
  <2>5. CASE ClientShutdownReturn
    BY <2>5, CloseConnectionNil DEF ClientShutdownReturn
  <2>6. CASE ClientShutdown
    BY <2>6, StillNil DEF ClientShutdown, callVars, netVars
  <2>7. QED
    BY <1>3, <2>1, <2>2, <2>3, <2>4, <2>5, <2>6 DEF ClientStep
<1>4. ASSUME NEW s \in Servers, ServerStep(s) \/ ServerShutdown(s) PROVE NilInv'
  <2>0. s \in Parties
    OBVIOUS
  <2>1. CASE ServerNew(s)
    BY <2>0, <2>1, NewConnectionNil DEF ServerNew
  <2>2. CASE ServerStart(s) \/ BeginReconnect(s) \/ ServerStop(s) \/ ServerTake(s) \/ ServerAnswer(s)
    BY <2>0, <2>2, LoopNil
       DEF ServerStart, BeginReconnect, ServerStop, ServerTake, ServerAnswer, callVars
  <2>3. CASE ServerReconnect(s)
    BY <2>0, <2>3, AttemptConnectNil DEF ServerReconnect
  <2>4. CASE ServerShutdownReturn(s)
    BY <2>0, <2>4, CloseConnectionNil DEF ServerShutdownReturn
  <2>5. CASE ServerShutdown(s)
    BY <2>5, StillNil DEF ServerShutdown, callVars, netVars
  <2>6. QED
    BY <1>4, <2>1, <2>2, <2>3, <2>4, <2>5 DEF ServerStep
<1>5. CASE \E p \in Parties : LoseConnection(p)
  BY <1>5, LoseConnectionNil
<1>6. QED
  BY <1>1, <1>2, <1>3, <1>4, <1>5 DEF Next

(* However often connections break and reconnects fail half way, a process *)
(* meets a nil channel only while its goroutine reconnects or has given up *)
(* and a nil connection only when it shuts down after giving up; one that  *)
(* serves, or is stopped while it serves, meets none (connection.go        *)
(* connect, client.go publish and Shutdown, server.go Shutdown).           *)
THEOREM NilPanicSafe == Spec => []NilPanicsAfterReconnect
<1>1. Init => NilInv
  BY InitRpcType, ClientIsParty DEF Init, NilInv, NilPanicsAfterReconnect
<1>2. NilInv => NilPanicsAfterReconnect
  BY DEF NilInv
<1>3. QED
  BY <1>1, <1>2, NextNil, PTL DEF Spec
=============================================================================

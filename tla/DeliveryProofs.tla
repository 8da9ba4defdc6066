---------------------------- MODULE DeliveryProofs --------------------------
(***************************************************************************)
(* Proofs about Delivery: sends and closes of a channel exclude each other *)
(* through the hub's lock, and NotifyFollowers forgets no follower, for    *)
(* every number of clients, followers, senders and events.                 *)
(***************************************************************************)
EXTENDS Delivery, TLAPS

DeliverySpec == DeliveryInit /\ [][DeliveryNext]_deliveryVars

Sender == [pc : {"idle", "send", "next"}, hub : Hubs, todo : SUBSET Clients,
           listed : SUBSET Followers, left : SUBSET Followers,
           stored : SUBSET Followers, failed : SUBSET Followers]

DeliveryShape ==
    /\ client \in [Clients -> Client]
    /\ sender \in [Senders -> Sender]
    /\ follows \in SUBSET Followers
    /\ events \in 0 .. MaxEvents

(* What b still has to send to is open and of the hub whose lock b holds:  *)
(* without the hub, the lock that Unsubscribe takes would say nothing.     *)
Reachable(b) ==
    sender[b].pc = "send" =>
        \A c \in sender[b].todo : client[c].chan = "open" /\ client[c].hub = sender[b].hub

(* NotifyCoversFollowers, also while b is pushing to one of the followers. *)
Covers(b) ==
    /\ sender[b].pc = "next" => sender[b].hub = "notif"
    /\ sender[b].pc # "idle" /\ sender[b].hub = "notif" =>
         sender[b].listed = sender[b].left \cup sender[b].stored \cup sender[b].failed

DeliveryInv ==
    /\ DeliveryShape
    /\ \A b \in Senders : Reachable(b) /\ Covers(b)

-----------------------------------------------------------------------------

LEMMA ClientFields ==
    ASSUME DeliveryShape, NEW c \in Clients
    PROVE  /\ client[c] \in Client /\ client[c].hub \in Hubs
           /\ client[c].user \in Followers \cup {NoFollower}
           /\ client[c].chan \in {"none", "open", "closed"} /\ client[c].buf \in 0 .. BufCap
           /\ client[c].fwd \in {"none", "range", "send", "exit"}
           /\ client[c].handler \in {"none", "loop", "leave", "gone"}
           /\ client[c].online \in BOOLEAN
<1>1. client[c] \in Client
  BY DEF DeliveryShape
<1>2. QED
  BY <1>1 DEF Client

LEMMA SenderFields ==
    ASSUME DeliveryShape, NEW b \in Senders
    PROVE  /\ sender[b] \in Sender /\ sender[b].pc \in {"idle", "send", "next"}
           /\ sender[b].hub \in Hubs /\ sender[b].todo \in SUBSET Clients
           /\ sender[b].listed \in SUBSET Followers /\ sender[b].left \in SUBSET Followers
           /\ sender[b].stored \in SUBSET Followers /\ sender[b].failed \in SUBSET Followers
<1>1. sender[b] \in Sender
  BY DEF DeliveryShape
<1>2. QED
  BY <1>1 DEF Sender

-----------------------------------------------------------------------------
(* Steps of a connection.                                                  *)

(* The client's channel and hub stand, or nobody sends to it.              *)
LEMMA ClientStep ==
    ASSUME DeliveryInv, NEW c \in Clients, NEW new \in Client,
           client' = [client EXCEPT ![c] = new], UNCHANGED <<sender, follows, events>>,
           \/ new.chan = client[c].chan /\ new.hub = client[c].hub
           \/ \A b \in Senders : sender[b].pc = "send" => c \notin sender[b].todo
    PROVE  DeliveryInv'
<1>1. DeliveryShape'
  BY DEF DeliveryInv, DeliveryShape
<1>2. ASSUME NEW b \in Senders PROVE Reachable(b)' /\ Covers(b)'
  <2>1. Covers(b)'
    BY DEF DeliveryInv, Covers
  <2>2. ASSUME sender[b].pc = "send", NEW d \in sender[b].todo
        PROVE  client'[d].chan = "open" /\ client'[d].hub = sender[b].hub
    <3>1. d \in Clients /\ client[d].chan = "open" /\ client[d].hub = sender[b].hub
      BY <2>2, SenderFields DEF DeliveryInv, Reachable
    <3>2. client'[d] = IF d = c THEN new ELSE client[d]
      BY <3>1 DEF DeliveryInv, DeliveryShape
    <3>3. QED
      BY <2>2, <3>1, <3>2
  <2>3. QED
    BY <2>1, <2>2 DEF Reachable
<1>3. QED
  BY <1>1, <1>2 DEF DeliveryInv

LEMMA SubscribeKeeps ==
    ASSUME DeliveryInv, NEW c \in Clients, NEW h \in Hubs, NEW u \in Followers \cup {NoFollower},
           Subscribe(c, h, u)
    PROVE  DeliveryInv'
<1> DEFINE new == [hub |-> h, user |-> u, chan |-> "open", buf |-> 0,
                   fwd |-> IF h = "video" THEN "none" ELSE "range",
                   handler |-> "loop", online |-> TRUE]
<1>1. new \in Client
  BY DeliveryAssumption DEF Client
<1>2. client' = [client EXCEPT ![c] = new] /\ UNCHANGED <<sender, follows, events>>
  BY DEF Subscribe
<1>3. \A b \in Senders : sender[b].pc = "send" => c \notin sender[b].todo
  BY DEF Subscribe, DeliveryInv, Reachable
<1>4. QED
  BY <1>1, <1>2, <1>3, ClientStep

(* Between subscribing and unsubscribing only buffer, goroutine, handler   *)
(* and connection change.                                                  *)
LEMMA MoveKeeps ==
    ASSUME DeliveryInv, NEW c \in Clients, NEW n \in 0 .. BufCap,
           NEW f \in {"none", "range", "send", "exit"},
           NEW h \in {"none", "loop", "leave", "gone"}, NEW o \in BOOLEAN,
           client' = [client EXCEPT ![c] = [client[c] EXCEPT !.buf = n, !.fwd = f,
                                                             !.handler = h, !.online = o]],
           UNCHANGED <<sender, follows, events>>
    PROVE  DeliveryInv'
<1> DEFINE new == [client[c] EXCEPT !.buf = n, !.fwd = f, !.handler = h, !.online = o]
<1>1. client[c] \in Client
  BY ClientFields DEF DeliveryInv
<1>2. new \in Client /\ new.chan = client[c].chan /\ new.hub = client[c].hub
  BY <1>1 DEF Client
<1> HIDE DEF new
<1>3. client' = [client EXCEPT ![c] = new]
  BY DEF new
<1>4. QED
  BY <1>2, <1>3, ClientStep

LEMMA UnsubscribeKeeps ==
    ASSUME DeliveryInv, NEW c \in Clients, Unsubscribe(c)
    PROVE  DeliveryInv'
<1> DEFINE new == [client[c] EXCEPT !.chan = "closed", !.handler = "gone"]
<1>1. client[c] \in Client /\ client[c].hub \in Hubs
  BY ClientFields DEF DeliveryInv
<1>2. new \in Client
  BY <1>1 DEF Client
<1>3. client' = [client EXCEPT ![c] = new] /\ UNCHANGED <<sender, follows, events>>
  BY DEF Unsubscribe
<1>4. \A b \in Senders : sender[b].pc = "send" => c \notin sender[b].todo
  BY DEF Unsubscribe, Unlocked, DeliveryInv, Reachable
<1>5. QED
  BY <1>2, <1>3, <1>4, ClientStep

LEMMA ConnectionKeeps ==
    ASSUME DeliveryInv, NEW c \in Clients, ConnectionStep(c)
    PROVE  DeliveryInv'
<1>s. /\ client[c] \in Client /\ client[c].buf \in 0 .. BufCap
      /\ client[c].fwd \in {"none", "range", "send", "exit"}
      /\ client[c].handler \in {"none", "loop", "leave", "gone"}
      /\ client[c].online \in BOOLEAN /\ client \in [Clients -> Client]
  BY ClientFields DEF DeliveryInv, DeliveryShape
<1>a. PICK after \in {"none", "loop", "leave", "gone"} : after = AfterFlush(c)
  BY DEF AfterFlush
<1>p. PICK f \in {"none", "range", "send", "exit"}, o \in BOOLEAN :
        f = client[c].fwd /\ o = client[c].online
  BY <1>s
<1>b. client[c].buf > 0 => client[c].buf - 1 \in 0 .. BufCap
  BY <1>s, DeliveryAssumption
<1>1. CASE sseVideoEvents(c) \/ sseChatEvents(c)
  BY <1>1, SubscribeKeeps DEF sseVideoEvents, sseChatEvents, Hubs
<1>2. CASE \E u \in Followers : sseNotifications(c, u)
  BY <1>2, SubscribeKeeps DEF sseNotifications, Hubs
<1>3. CASE Disconnect(c)
  <2>1. client' = [client EXCEPT ![c] = [client[c] EXCEPT
                     !.buf = client[c].buf, !.fwd = client[c].fwd,
                     !.handler = client[c].handler, !.online = FALSE]]
    BY <1>3, <1>s DEF Disconnect, Client
  <2>2. UNCHANGED <<sender, follows, events>>
    BY <1>3 DEF Disconnect
  <2>3. QED
    BY <1>s, <2>1, <2>2, MoveKeeps
<1>4. CASE ReceiveVideoEvent(c)
  <2>1. PICK n \in 0 .. BufCap : n = client[c].buf - 1
    BY <1>4, <1>b DEF ReceiveVideoEvent
  <2>2. client' = [client EXCEPT ![c] = [client[c] EXCEPT
                     !.buf = n, !.fwd = f, !.handler = after, !.online = o]]
    BY <1>4, <1>a, <1>p, <1>s, <2>1 DEF ReceiveVideoEvent, Client
  <2>3. UNCHANGED <<sender, follows, events>>
    BY <1>4 DEF ReceiveVideoEvent
  <2>4. QED
    BY <2>2, <2>3, MoveKeeps
<1>5. CASE Ping(c)
  <2>1. client' = [client EXCEPT ![c] = [client[c] EXCEPT
                     !.buf = client[c].buf, !.fwd = f,
                     !.handler = after, !.online = o]]
    BY <1>5, <1>a, <1>p, <1>s DEF Ping, Client
  <2>2. UNCHANGED <<sender, follows, events>>
    BY <1>5 DEF Ping
  <2>3. QED
    BY <1>s, <2>1, <2>2, MoveKeeps
<1>6. CASE Forward(c)
  <2>1. CASE client[c].buf > 0 /\ client' = [client EXCEPT ![c].buf = @ - 1, ![c].fwd = "send"]
    <3>1. client' = [client EXCEPT ![c] = [client[c] EXCEPT
                       !.buf = client[c].buf - 1, !.fwd = "send",
                       !.handler = client[c].handler, !.online = client[c].online]]
      BY <1>s, <2>1 DEF Client
    <3>2. UNCHANGED <<sender, follows, events>>
      BY <1>6 DEF Forward
    <3>3. client[c].buf - 1 \in 0 .. BufCap
      BY <1>b, <2>1
    <3>4. QED
      BY <1>s, <3>1, <3>2, <3>3, MoveKeeps
  <2>2. CASE client' = [client EXCEPT ![c].fwd = "exit"]
    <3>1. client' = [client EXCEPT ![c] = [client[c] EXCEPT
                       !.buf = client[c].buf, !.fwd = "exit",
                       !.handler = client[c].handler, !.online = client[c].online]]
      BY <1>s, <2>2 DEF Client
    <3>2. QED
      BY <1>6, <1>s, <3>1, MoveKeeps DEF Forward
  <2>3. QED
    BY <1>6, <2>1, <2>2 DEF Forward
<1>7. CASE ReceiveForwarded(c)
  <2>1. client' = [client EXCEPT ![c] = [client[c] EXCEPT
                     !.buf = client[c].buf, !.fwd = "range",
                     !.handler = after, !.online = client[c].online]]
    BY <1>7, <1>a, <1>s DEF ReceiveForwarded, Client
  <2>2. UNCHANGED <<sender, follows, events>>
    BY <1>7 DEF ReceiveForwarded
  <2>3. QED
    BY <1>s, <2>1, <2>2, MoveKeeps
<1>8. CASE Unsubscribe(c)
  BY <1>8, UnsubscribeKeeps
<1>9. QED
  BY <1>1, <1>2, <1>3, <1>4, <1>5, <1>6, <1>7, <1>8 DEF ConnectionStep

-----------------------------------------------------------------------------
(* Steps of a sender.                                                      *)

(* One sender moves; no client's channel or hub changes.                   *)
LEMMA SenderStep ==
    ASSUME DeliveryInv, NEW b \in Senders, NEW new \in Sender,
           sender' = [sender EXCEPT ![b] = new], client' \in [Clients -> Client],
           \A c \in Clients : client'[c].chan = client[c].chan /\ client'[c].hub = client[c].hub,
           follows' = follows, events' \in 0 .. MaxEvents,
           new.pc = "send" =>
             \A c \in new.todo : client[c].chan = "open" /\ client[c].hub = new.hub,
           new.pc = "next" => new.hub = "notif",
           new.pc # "idle" /\ new.hub = "notif" =>
             new.listed = new.left \cup new.stored \cup new.failed
    PROVE  DeliveryInv'
<1>1. DeliveryShape'
  BY DEF DeliveryInv, DeliveryShape
<1>2. ASSUME NEW d \in Senders PROVE Reachable(d)' /\ Covers(d)'
  <2>1. sender'[d] = IF d = b THEN new ELSE sender[d]
    BY DEF DeliveryInv, DeliveryShape
  <2>2. sender[d].todo \in SUBSET Clients /\ new.todo \in SUBSET Clients
    BY SenderFields DEF DeliveryInv, Sender
  <2>3. Reachable(d) /\ Covers(d)
    BY DEF DeliveryInv
  <2>4. CASE d = b
    BY <2>1, <2>2, <2>4 DEF Reachable, Covers
  <2>5. CASE d # b
    BY <2>1, <2>2, <2>3, <2>5 DEF Reachable, Covers
  <2>6. QED
    BY <2>4, <2>5
<1>3. QED
  BY <1>1, <1>2 DEF DeliveryInv

LEMMA IdleKeeps ==
    ASSUME DeliveryInv, NEW b \in Senders, sender' = [sender EXCEPT ![b] = NoRequest],
           UNCHANGED <<client, follows, events>>
    PROVE  DeliveryInv'
<1>1. NoRequest \in Sender /\ NoRequest.pc = "idle"
  BY DEF NoRequest, Sender, Hubs
<1>2. QED
  BY <1>1, SenderStep DEF DeliveryInv, DeliveryShape

LEMMA BroadcastKeeps ==
    ASSUME DeliveryInv, NEW b \in Senders, NEW h \in {"video", "chat"}, Broadcast(b, h)
    PROVE  DeliveryInv'
<1> DEFINE new == [sender[b] EXCEPT !.pc = "send", !.hub = h, !.todo = Subscribed(h)]
<1>1. sender[b] \in Sender /\ Subscribed(h) \in SUBSET Clients /\ h \in Hubs
  BY SenderFields DEF DeliveryInv, Subscribed, Hubs
<1>2. new \in Sender /\ new.pc = "send" /\ new.hub = h /\ new.todo = Subscribed(h)
  BY <1>1 DEF Sender
<1>3. sender' = [sender EXCEPT ![b] = new]
  BY DEF Broadcast
<1>4. \A c \in Subscribed(h) : client[c].chan = "open" /\ client[c].hub = h
  BY DEF Subscribed
<1>5. events' \in 0 .. MaxEvents
  BY DeliveryAssumption DEF Broadcast, BeginSend, DeliveryInv, DeliveryShape
<1>6. client' = client /\ follows' = follows /\ client \in [Clients -> Client]
  BY DEF Broadcast, DeliveryInv, DeliveryShape
<1> HIDE DEF new
<1>7. QED
  BY <1>2, <1>3, <1>4, <1>5, <1>6, SenderStep

LEMMA SendKeeps ==
    ASSUME DeliveryInv, NEW b \in Senders, NEW c \in Clients, Send(b, c)
    PROVE  DeliveryInv'
<1> DEFINE new == [sender[b] EXCEPT !.todo = sender[b].todo \ {c}]
<1>1. sender[b] \in Sender /\ sender[b].todo \in SUBSET Clients /\ Reachable(b) /\ Covers(b)
  BY SenderFields DEF DeliveryInv
<1>2. /\ new \in Sender /\ new.pc = sender[b].pc /\ new.hub = sender[b].hub
      /\ new.todo = sender[b].todo \ {c} /\ new.listed = sender[b].listed
      /\ new.left = sender[b].left /\ new.stored = sender[b].stored
      /\ new.failed = sender[b].failed
  BY <1>1 DEF Sender
<1>3. sender' = [sender EXCEPT ![b] = new]
  BY DEF Send
<1>4. /\ client' \in [Clients -> Client]
      /\ \A d \in Clients : client'[d].chan = client[d].chan /\ client'[d].hub = client[d].hub
  <2>1. PICK n \in 0 .. BufCap : client' = [client EXCEPT ![c].buf = n]
    <3>1. client[c].buf \in 0 .. BufCap
      BY ClientFields DEF DeliveryInv
    <3>2. client' = [client EXCEPT ![c].buf = IF client[c].buf < BufCap THEN client[c].buf + 1
                                              ELSE client[c].buf]
      BY DEF Send
    <3>3. (IF client[c].buf < BufCap THEN client[c].buf + 1 ELSE client[c].buf) \in 0 .. BufCap
      BY <3>1, DeliveryAssumption
    <3>4. QED
      BY <3>2, <3>3
  <2>2. client' = [client EXCEPT ![c] = [client[c] EXCEPT !.buf = n]]
    BY <2>1
  <2>3. client[c] \in Client /\ client \in [Clients -> Client]
    BY ClientFields DEF DeliveryInv, DeliveryShape
  <2>4. /\ [client[c] EXCEPT !.buf = n] \in Client
        /\ [client[c] EXCEPT !.buf = n].chan = client[c].chan
        /\ [client[c] EXCEPT !.buf = n].hub = client[c].hub
    BY <2>1, <2>3 DEF Client
  <2>5. QED
    BY <2>2, <2>3, <2>4
<1>5. follows' = follows /\ events' \in 0 .. MaxEvents
  BY DEF Send, DeliveryInv, DeliveryShape
<1> HIDE DEF new
<1>6. /\ new.pc = "send" => \A d \in new.todo : client[d].chan = "open" /\ client[d].hub = new.hub
      /\ new.pc = "next" => new.hub = "notif"
      /\ new.pc # "idle" /\ new.hub = "notif" =>
           new.listed = new.left \cup new.stored \cup new.failed
  BY <1>1, <1>2 DEF Reachable, Covers
<1>7. QED
  BY <1>2, <1>3, <1>4, <1>5, <1>6, SenderStep

LEMMA SentKeeps ==
    ASSUME DeliveryInv, NEW b \in Senders, Sent(b)
    PROVE  DeliveryInv'
<1>s. /\ sender[b] \in Sender /\ Covers(b) /\ client \in [Clients -> Client]
      /\ UNCHANGED <<client, follows, events>> /\ events \in 0 .. MaxEvents
      /\ sender[b].pc = "send"
  BY SenderFields DEF DeliveryInv, DeliveryShape, Sent
<1>1. CASE sender[b].hub = "notif"
  <2> DEFINE new == [sender[b] EXCEPT !.pc = "next"]
  <2>1. /\ new \in Sender /\ new.pc = "next" /\ new.hub = "notif"
        /\ new.listed = sender[b].listed /\ new.left = sender[b].left
        /\ new.stored = sender[b].stored /\ new.failed = sender[b].failed
    BY <1>1, <1>s DEF Sender
  <2>2. sender' = [sender EXCEPT ![b] = new]
    BY <1>1 DEF Sent
  <2> HIDE DEF new
  <2>3. new.listed = new.left \cup new.stored \cup new.failed
    BY <1>1, <1>s, <2>1 DEF Covers
  <2>4. QED
    BY <1>s, <2>1, <2>2, <2>3, SenderStep
<1>2. CASE sender[b].hub # "notif"
  <2>1. sender' = [sender EXCEPT ![b] = NoRequest]
    BY <1>2 DEF Sent
  <2>2. QED
    BY <1>s, <2>1, IdleKeeps
<1>3. QED
  BY <1>1, <1>2

LEMMA ListFollowersKeeps ==
    ASSUME DeliveryInv, NEW b \in Senders, NEW fs \in SUBSET Followers, ListFollowers(b, fs)
    PROVE  DeliveryInv'
<1> DEFINE new == [sender[b] EXCEPT !.pc = "next", !.hub = "notif", !.listed = fs, !.left = fs,
                                    !.stored = {}, !.failed = {}]
<1>1. sender[b] \in Sender
  BY SenderFields DEF DeliveryInv
<1>2. /\ new \in Sender /\ new.pc = "next" /\ new.hub = "notif"
      /\ new.listed = fs /\ new.left = fs /\ new.stored = {} /\ new.failed = {}
  BY <1>1 DEF Sender, Hubs
<1>3. sender' = [sender EXCEPT ![b] = new]
  BY DEF ListFollowers
<1>4. events' \in 0 .. MaxEvents
  BY DeliveryAssumption DEF ListFollowers, BeginSend, DeliveryInv, DeliveryShape
<1>5. client' = client /\ follows' = follows /\ client \in [Clients -> Client]
  BY DEF ListFollowers, DeliveryInv, DeliveryShape
<1> HIDE DEF new
<1>6. new.listed = new.left \cup new.stored \cup new.failed
  BY <1>2
<1>7. QED
  BY <1>2, <1>3, <1>4, <1>5, <1>6, SenderStep

LEMMA StoreAndPushKeeps ==
    ASSUME DeliveryInv, NEW b \in Senders, NEW f \in Followers, StoreAndPush(b, f)
    PROVE  DeliveryInv'
<1> DEFINE todo == {c \in Subscribed("notif") : client[c].user = f}
<1>s. /\ sender[b] \in Sender /\ sender \in [Senders -> Sender] /\ Covers(b)
      /\ client \in [Clients -> Client] /\ client' = client /\ follows' = follows
      /\ events' \in 0 .. MaxEvents /\ sender[b].pc = "next" /\ sender[b].hub = "notif"
      /\ f \in sender[b].left
      /\ sender[b].listed \in SUBSET Followers /\ sender[b].left \in SUBSET Followers
      /\ sender[b].stored \in SUBSET Followers /\ sender[b].failed \in SUBSET Followers
  BY SenderFields DEF DeliveryInv, DeliveryShape, StoreAndPush, Covers
<1>t. /\ todo \in SUBSET Clients
      /\ \A c \in todo : client[c].chan = "open" /\ client[c].hub = "notif"
  BY DEF Subscribed
<1>l. sender[b].listed = sender[b].left \cup sender[b].stored \cup sender[b].failed
  BY <1>s DEF Covers
<1>1. PICK st \in SUBSET Followers, fa \in SUBSET Followers :
        /\ sender' = [sender EXCEPT ![b] = [sender[b] EXCEPT !.left = sender[b].left \ {f},
                         !.pc = "send", !.todo = todo, !.stored = st, !.failed = fa]]
        /\ sender[b].stored \subseteq st /\ sender[b].failed \subseteq fa
        /\ f \in st \cup fa
        /\ st \subseteq sender[b].stored \cup {f} /\ fa \subseteq sender[b].failed \cup {f}
  <2>1. CASE sender' = [Push(b, f) EXCEPT ![b].stored = @ \cup {f}]
    <3>1. sender' = [sender EXCEPT ![b] = [sender[b] EXCEPT !.left = sender[b].left \ {f},
                         !.pc = "send", !.todo = todo, !.stored = sender[b].stored \cup {f},
                         !.failed = sender[b].failed]]
      BY <1>s, <2>1 DEF Push, Sender
    <3>2. QED
      BY <1>s, <3>1
  <2>2. CASE sender' = [Push(b, f) EXCEPT ![b].failed = @ \cup {f}]
    <3>1. sender' = [sender EXCEPT ![b] = [sender[b] EXCEPT !.left = sender[b].left \ {f},
                         !.pc = "send", !.todo = todo, !.stored = sender[b].stored,
                         !.failed = sender[b].failed \cup {f}]]
      BY <1>s, <2>2 DEF Push, Sender
    <3>2. QED
      BY <1>s, <3>1
  <2>3. QED
    BY <2>1, <2>2 DEF StoreAndPush
<1> DEFINE new == [sender[b] EXCEPT !.left = sender[b].left \ {f},
                      !.pc = "send", !.todo = todo, !.stored = st, !.failed = fa]
<1>2. /\ new \in Sender /\ new.pc = "send" /\ new.hub = "notif" /\ new.todo = todo
      /\ new.listed = sender[b].listed /\ new.left = sender[b].left \ {f}
      /\ new.stored = st /\ new.failed = fa
  <2> HIDE DEF todo
  <2>1. QED
    BY <1>s, <1>t, <1>1 DEF Sender
<1>3. sender' = [sender EXCEPT ![b] = new]
  BY <1>1
<1> HIDE DEF new
<1>4. new.listed = new.left \cup new.stored \cup new.failed
  BY <1>1, <1>2, <1>l, <1>s
<1>5. QED
  <2> HIDE DEF todo
  <2>1. QED
    BY <1>2, <1>3, <1>4, <1>s, <1>t, SenderStep

-----------------------------------------------------------------------------

LEMMA InitDeliveryInv == DeliveryInit => DeliveryInv
<1> SUFFICES ASSUME DeliveryInit PROVE DeliveryInv
  OBVIOUS
<1>1. NoRequest \in Sender /\ NoRequest.pc = "idle"
  BY DEF NoRequest, Sender, Hubs
<1>2. [hub |-> "video", user |-> NoFollower, chan |-> "none", buf |-> 0, fwd |-> "none",
       handler |-> "none", online |-> FALSE] \in Client
  BY DeliveryAssumption DEF Client, Hubs
<1>3. DeliveryShape
  BY <1>1, <1>2, DeliveryAssumption DEF DeliveryInit, DeliveryShape
<1>4. \A b \in Senders : sender[b].pc = "idle"
  BY <1>1 DEF DeliveryInit
<1>5. QED
  BY <1>3, <1>4 DEF DeliveryInv, Reachable, Covers

LEMMA NextDeliveryInv == DeliveryInv /\ [DeliveryNext]_deliveryVars => DeliveryInv'
<1> SUFFICES ASSUME DeliveryInv, [DeliveryNext]_deliveryVars PROVE DeliveryInv'
  OBVIOUS
<1>1. CASE UNCHANGED deliveryVars
  BY <1>1 DEF deliveryVars, DeliveryInv, DeliveryShape, Reachable, Covers
<1>2. ASSUME NEW c \in Clients, ConnectionStep(c) PROVE DeliveryInv'
  BY <1>2, ConnectionKeeps
<1>3. ASSUME NEW b \in Senders, SendStep(b) PROVE DeliveryInv'
  <2>1. CASE transcodeCallback(b) \/ SendChatMessage(b) \/ HeartStream(b)
    BY <2>1, BroadcastKeeps DEF transcodeCallback, SendChatMessage, HeartStream
  <2>2. CASE Notified(b)
    BY <2>2, IdleKeeps DEF Notified
  <2>3. QED
    BY <1>3, <2>1, <2>2, SendKeeps, SentKeeps, ListFollowersKeeps, StoreAndPushKeeps DEF SendStep
<1>4. ASSUME NEW f \in Followers, FollowOrUnfollow(f) PROVE DeliveryInv'
  BY <1>4 DEF FollowOrUnfollow, DeliveryInv, DeliveryShape, Reachable, Covers
<1>5. QED
  BY <1>1, <1>2, <1>3, <1>4 DEF DeliveryNext

(* Clients, requests and followers keep their types: no channel ever holds *)
(* more than its capacity, however broadcasts overlap (hub.go Broadcast).  *)
THEOREM DeliveryTypeCorrect == DeliverySpec => []DeliveryTypeOK
<1>1. DeliveryInv => DeliveryTypeOK
  BY DEF DeliveryInv, DeliveryShape, DeliveryTypeOK, Sender
<1>2. QED
  BY <1>1, InitDeliveryInv, NextDeliveryInv, PTL DEF DeliverySpec

(* No broadcast sends on a closed channel: Unsubscribe closes it under the *)
(* write lock of the hub whose read lock every sender to it holds (hub.go, *)
(* chat_hub.go, notification_hub.go).                                      *)
THEOREM NoSendOnClosedSafe == DeliverySpec => []NoSendOnClosed
<1>1. DeliveryInv => NoSendOnClosed
  BY DEF DeliveryInv, Reachable, NoSendOnClosed
<1>2. QED
  BY <1>1, InitDeliveryInv, NextDeliveryInv, PTL DEF DeliverySpec

(* NotifyFollowers stores a row for every follower it listed or has seen   *)
(* that very insert fail: no failure ends the loop for the others.         *)
THEOREM NotifySafe == DeliverySpec => []NotifyCoversFollowers
<1>1. DeliveryInv => NotifyCoversFollowers
  BY DEF DeliveryInv, Covers, NotifyCoversFollowers
<1>2. QED
  BY <1>1, InitDeliveryInv, NextDeliveryInv, PTL DEF DeliverySpec
=============================================================================

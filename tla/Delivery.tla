------------------------------ MODULE Delivery ------------------------------
(***************************************************************************)
(* Real-time delivery: the three hubs (video status, live chat,            *)
(* notifications), the SSE handlers that subscribe to them, and            *)
(* NotifyFollowers, which stores a notification for every follower and     *)
(* pushes it to the ones online.  What an event says is left out.          *)
(*                                                                         *)
(* A hub's sends hold the read lock of its RWMutex, subscribing and        *)
(* unsubscribing the write lock.  A channel is a bounded buffer; a full    *)
(* one is skipped.                                                         *)
(***************************************************************************)
EXTENDS Naturals, FiniteSets

CONSTANTS Clients,      \* SSE connections, one each
          Followers,    \* users; client c of the notification hub is of one of them
          Senders,      \* concurrent requests that send
          BufCap,       \* channel capacity (10, 20 and 16 in the code)
          FollowLimit,  \* ListFollowers' limit (1000 in the code)
          MaxEvents,    \* bound: sending requests
          NoFollower    \* "nobody"

ASSUME DeliveryAssumption ==
    /\ BufCap \in Nat \ {0} /\ FollowLimit \in Nat /\ MaxEvents \in Nat
    /\ NoFollower \notin Followers

Hubs == {"video", "chat", "notif"}

VARIABLES
    client,    \* client[c]: connection, channel, forwarding goroutine, handler
    sender,    \* sender[b]: what a sending request has done and has still to do
    follows,   \* the sender's followers
    events     \* sending requests so far

deliveryVars == <<client, sender, follows, events>>

Client == [hub : Hubs, user : Followers \cup {NoFollower}, chan : {"none", "open", "closed"},
           buf : 0 .. BufCap, fwd : {"none", "range", "send", "exit"},
           handler : {"none", "loop", "leave", "gone"}, online : BOOLEAN]

DeliveryTypeOK ==
    /\ client \in [Clients -> Client]
    /\ sender \in [Senders -> [pc : {"idle", "send", "next"}, hub : Hubs, todo : SUBSET Clients,
                               listed : SUBSET Followers, left : SUBSET Followers,
                               stored : SUBSET Followers, failed : SUBSET Followers]]
    /\ follows \subseteq Followers
    /\ events \in 0 .. MaxEvents

(* The write lock can be taken: nobody is sending. *)
Unlocked(h) == \A b \in Senders : sender[b].pc = "send" => sender[b].hub # h

Subscribed(h) == {c \in Clients : client[c].hub = h /\ client[c].chan = "open"}

-----------------------------------------------------------------------------
(* SSE connections                                                         *)

(* Chat and notifications go through a goroutine that maps events to an unbuffered channel. *)
Subscribe(c, h, u) ==
    /\ client[c].chan = "none"
    /\ Unlocked(h)
    /\ client' = [client EXCEPT ![c] = [hub |-> h, user |-> u, chan |-> "open", buf |-> 0,
                     fwd |-> IF h = "video" THEN "none" ELSE "range",
                     handler |-> "loop", online |-> TRUE]]
    /\ UNCHANGED <<sender, follows, events>>

sseVideoEvents(c) == Subscribe(c, "video", NoFollower)
sseChatEvents(c) == Subscribe(c, "chat", NoFollower)
sseNotifications(c, u) == Subscribe(c, "notif", u)

(* From here on what the handler flushes fails. *)
Disconnect(c) ==
    /\ client[c].online
    /\ client' = [client EXCEPT ![c].online = FALSE]
    /\ UNCHANGED <<sender, follows, events>>

AfterFlush(c) == IF client[c].online THEN "loop" ELSE "leave"

(* The handler of the video hub reads the channel itself ... *)
ReceiveVideoEvent(c) ==
    /\ client[c].handler = "loop" /\ client[c].hub = "video"
    /\ client[c].buf > 0
    /\ client' = [client EXCEPT ![c].buf = @ - 1, ![c].handler = AfterFlush(c)]
    /\ UNCHANGED <<sender, follows, events>>

(* Mutant of Ping: the error of its flush is ignored. *)
PingUnchecked(c) ==
    /\ client[c].handler = "loop" /\ client[c].hub = "video"
    /\ UNCHANGED deliveryVars

(* ... and pings every ten seconds; the other two handlers never do. *)
Ping(c) ==
    /\ client[c].handler = "loop" /\ client[c].hub = "video"
    /\ client' = [client EXCEPT ![c].handler = AfterFlush(c)]
    /\ UNCHANGED <<sender, follows, events>>

(* The goroutine takes an event, or ends when the channel is closed and empty. *)
Forward(c) ==
    /\ client[c].fwd = "range"
    /\ \/ client[c].buf > 0 /\ client' = [client EXCEPT ![c].buf = @ - 1, ![c].fwd = "send"]
       \/ client[c].buf = 0 /\ client[c].chan = "closed" /\ client' = [client EXCEPT ![c].fwd = "exit"]
    /\ UNCHANGED <<sender, follows, events>>

(* Its send needs the handler: once that is gone the goroutine stays. *)
ReceiveForwarded(c) ==
    /\ client[c].handler = "loop"
    /\ client[c].fwd = "send"
    /\ client' = [client EXCEPT ![c].fwd = "range", ![c].handler = AfterFlush(c)]
    /\ UNCHANGED <<sender, follows, events>>

(* Mutant of Unsubscribe: the channel is closed without the lock. *)
UnsubscribeUnlocked(c) ==
    /\ client[c].handler = "leave"
    /\ client' = [client EXCEPT ![c].chan = "closed", ![c].handler = "gone"]
    /\ UNCHANGED <<sender, follows, events>>

(* Deferred by the handler: out of the hub and closed, under the lock. *)
Unsubscribe(c) ==
    /\ client[c].handler = "leave"
    /\ Unlocked(client[c].hub)
    /\ client' = [client EXCEPT ![c].chan = "closed", ![c].handler = "gone"]
    /\ UNCHANGED <<sender, follows, events>>

-----------------------------------------------------------------------------
(* Sending                                                                 *)

NoRequest == [pc |-> "idle", hub |-> "video", todo |-> {}, listed |-> {}, left |-> {}, stored |-> {}, failed |-> {}]

BeginSend(b) == sender[b].pc = "idle" /\ events < MaxEvents /\ events' = events + 1

(* The read lock is taken and the subscribers of the moment are walked through. *)
Broadcast(b, h) ==
    /\ BeginSend(b)
    /\ sender' = [sender EXCEPT ![b].pc = "send", ![b].hub = h, ![b].todo = Subscribed(h)]
    /\ UNCHANGED <<client, follows>>

(* After the row has been written ... *)
transcodeCallback(b) == Broadcast(b, "video")

(* ... and after nothing, and after an INCR in Redis that succeeded. *)
SendChatMessage(b) == Broadcast(b, "chat")
HeartStream(b) == Broadcast(b, "chat")

Send(b, c) ==
    /\ sender[b].pc = "send"
    /\ c \in sender[b].todo
    /\ sender' = [sender EXCEPT ![b].todo = @ \ {c}]
    /\ client' = [client EXCEPT ![c].buf = IF @ < BufCap THEN @ + 1 ELSE @]
    /\ UNCHANGED <<follows, events>>

(* RUnlock; NotifyFollowers goes on to its next follower. *)
Sent(b) ==
    /\ sender[b].pc = "send"
    /\ sender[b].todo = {}
    /\ sender' = [sender EXCEPT ![b] = IF @.hub = "notif" THEN [@ EXCEPT !.pc = "next"] ELSE NoRequest]
    /\ UNCHANGED <<client, follows, events>>

(* Any FollowLimit of the followers, or all when they are fewer; an error ends it. *)
ListFollowers(b, fs) ==
    /\ fs \subseteq follows
    /\ \/ Cardinality(fs) = FollowLimit
       \/ fs = follows /\ Cardinality(fs) <= FollowLimit
       \/ fs = {}
    /\ BeginSend(b)
    /\ sender' = [sender EXCEPT ![b].pc = "next", ![b].hub = "notif", ![b].listed = fs, ![b].left = fs,
                                ![b].stored = {}, ![b].failed = {}]
    /\ UNCHANGED <<client, follows>>

(* Mutant of StoreAndPush: the first failed insert ends the loop. *)
StoreAndPushAborts(b, f) ==
    /\ sender[b].pc = "next"
    /\ f \in sender[b].left
    /\ \/ sender' = [sender EXCEPT ![b].left = @ \ {f}, ![b].stored = @ \cup {f}]
       \/ sender' = [sender EXCEPT ![b].left = {}, ![b].failed = @ \cup {f}]
    /\ UNCHANGED <<client, follows, events>>

Push(b, f) ==
    [sender EXCEPT ![b].left = @ \ {f}, ![b].pc = "send",
                   ![b].todo = {c \in Subscribed("notif") : client[c].user = f}]

(* One turn of the loop: the insert, whose error is ignored, and the push under the read lock. *)
StoreAndPush(b, f) ==
    /\ sender[b].pc = "next"
    /\ f \in sender[b].left
    /\ \/ sender' = [Push(b, f) EXCEPT ![b].stored = @ \cup {f}]
       \/ sender' = [Push(b, f) EXCEPT ![b].failed = @ \cup {f}]
    /\ UNCHANGED <<client, follows, events>>

Notified(b) ==
    /\ sender[b].pc = "next"
    /\ sender[b].left = {}
    /\ sender' = [sender EXCEPT ![b] = NoRequest]
    /\ UNCHANGED <<client, follows, events>>

(* Follows come and go while a publication is announced. *)
FollowOrUnfollow(f) ==
    /\ follows' = IF f \in follows THEN follows \ {f} ELSE follows \cup {f}
    /\ UNCHANGED <<client, sender, events>>

-----------------------------------------------------------------------------

DeliveryInit ==
    /\ client = [c \in Clients |-> [hub |-> "video", user |-> NoFollower, chan |-> "none", buf |-> 0, fwd |-> "none",
                                    handler |-> "none", online |-> FALSE]]
    /\ sender = [b \in Senders |-> NoRequest]
    /\ follows = Followers
    /\ events = 0

ConnectionStep(c) ==
    \/ sseVideoEvents(c) \/ sseChatEvents(c) \/ \E u \in Followers : sseNotifications(c, u)
    \/ Disconnect(c) \/ ReceiveVideoEvent(c) \/ Ping(c) \/ Forward(c) \/ ReceiveForwarded(c) \/ Unsubscribe(c)

SendStep(b) ==
    \/ transcodeCallback(b) \/ SendChatMessage(b) \/ HeartStream(b)
    \/ \E c \in Clients : Send(b, c)
    \/ Sent(b) \/ Notified(b)
    \/ \E fs \in SUBSET Followers : ListFollowers(b, fs)
    \/ \E f \in Followers : StoreAndPush(b, f)

DeliveryNext ==
    \/ \E c \in Clients : ConnectionStep(c)
    \/ \E b \in Senders : SendStep(b)
    \/ \E f \in Followers : FollowOrUnfollow(f)

(* Goroutines run, tickers tick. *)
DeliveryFairness ==
    /\ \A c \in Clients : WF_deliveryVars(Ping(c)) /\ WF_deliveryVars(Unsubscribe(c))
    /\ \A b \in Senders : WF_deliveryVars(Sent(b)) /\ WF_deliveryVars(\E c \in Clients : Send(b, c))

-----------------------------------------------------------------------------

(* No send reaches a closed channel, where it would panic, although handlers unsubscribe and  *)
(* close while other requests broadcast (hub.go, chat_hub.go, notification_hub.go).           *)
NoSendOnClosed ==
    \A b \in Senders, c \in Clients : sender[b].pc = "send" /\ c \in sender[b].todo => client[c].chan = "open"

(* A client of the video hub that has left is unsubscribed, events or not: its ping fails     *)
(* (video.go sseVideoEvents).  Chat and notification clients leave only with the next event.  *)
LeaversAreReleased ==
    \A c \in Clients :
        client[c].hub = "video" /\ client[c].chan = "open" /\ ~client[c].online ~> client[c].chan = "closed"

(* An announcement reaches every follower it listed: when NotifyFollowers is through, each    *)
(* has a row or an insert of its own that failed; one follower's failure never costs another  *)
(* (notification.go NotifyFollowers).                                                         *)
NotifyCoversFollowers ==
    \A b \in Senders : sender[b].pc = "next" =>
        sender[b].listed = sender[b].left \cup sender[b].stored \cup sender[b].failed
=============================================================================

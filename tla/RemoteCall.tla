----------------------------- MODULE RemoteCall -----------------------------
(***************************************************************************)
(* What the RPC packages promise to the caller of Client.RemoteCall,       *)
(* whatever broker carries it: a call returns once; it returns a server's  *)
(* verdict only when a server gave that verdict to this very call; a call  *)
(* refused before its request was published is never served.  A call that  *)
(* failed otherwise (timeout, closed connection) may still be served, even *)
(* after it has returned.                                                  *)
(***************************************************************************)
CONSTANT Calls

VARIABLES phase,     \* phase[c]: "idle", "called" or "returned"
          verdict,   \* verdict[c]: the status the server answered c with
          result     \* result[c]: what RemoteCall returned to c's caller

rcVars == <<phase, verdict, result>>

(* The three statuses a server publishes (rmq_rpc/errors.go, nats_rpc/errors.go). *)
Verdicts == {"success", "badHandler", "internal"}

(* The ways a published call fails on the client's own side. *)
Failures == {"timeout", "closed", "notified", "badBody", "error"}

RCInit ==
    /\ phase = [c \in Calls |-> "idle"]
    /\ verdict = [c \in Calls |-> "none"]
    /\ result = [c \in Calls |-> "none"]

Call(c) ==
    /\ phase[c] = "idle"
    /\ phase' = [phase EXCEPT ![c] = "called"]
    /\ UNCHANGED <<verdict, result>>

(* A server runs the handler: once, and never for a refused call. *)
Serve(c, v) ==
    /\ phase[c] # "idle"
    /\ result[c] # "refused"
    /\ verdict[c] = "none"
    /\ verdict' = [verdict EXCEPT ![c] = v]
    /\ UNCHANGED <<phase, result>>

Return(c, r) ==
    /\ phase[c] = "called"
    /\ \/ r \in Verdicts /\ r = verdict[c]
       \/ r \in Failures
       \/ r = "refused" /\ verdict[c] = "none"
    /\ phase' = [phase EXCEPT ![c] = "returned"]
    /\ result' = [result EXCEPT ![c] = r]
    /\ UNCHANGED verdict

RCNext ==
    \E c \in Calls :
        \/ Call(c)
        \/ \E v \in Verdicts : Serve(c, v)
        \/ \E r \in Verdicts \cup Failures \cup {"refused"} : Return(c, r)

RCSpec == RCInit /\ [][RCNext]_rcVars
=============================================================================

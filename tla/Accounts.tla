------------------------------ MODULE Accounts ------------------------------
(***************************************************************************)
(* User accounts: registration, sessions (JWT), profile edits, bans, and   *)
(* the heartbeats of the transcode workers that the dashboard shows.       *)
(*                                                                         *)
(* Every change of an account reads the whole row and writes it back, the  *)
(* ban flag included.  A session is a signed token: nothing is stored, it  *)
(* ends by its age alone, and only Login and RefreshToken look at the ban. *)
(***************************************************************************)
EXTENDS Naturals, FiniteSets

CONSTANTS Ids,         \* account ids
          Names,       \* values of the unique columns username and email
          Admin,       \* the account whose role is admin
          Sessions,    \* concurrent Login and RefreshToken requests
          Writers,     \* concurrent requests that change an account
          TokenLife,   \* jwt.Manager.duration, in ticks
          Workers,     \* transcode workers
          StaleAfter,  \* workerStaleAfter, in ticks of a worker's silence
          NoUser       \* "no such row"

ASSUME AccountAssumption ==
    /\ Admin \in Ids /\ Names # {}
    /\ TokenLife \in Nat \ {0} /\ StaleAfter \in Nat
    /\ NoUser \notin [name : Names, banned : BOOLEAN]

VARIABLES
    users,   \* users[i]: the row of account i
    token,   \* token[i]: ticks left of i's youngest token; 0: none is valid
    sess,    \* sess[s]: a Login or RefreshToken between its query and its answer
    write,   \* write[w]: a change of an account between its read and its write
    silent,  \* silent[k]: ticks since worker k's last heartbeat
    alive    \* alive[k]: worker k runs

accountVars == <<users, token, sess, write, silent, alive>>

UserRow == [name : Names, banned : BOOLEAN]

AccountTypeOK ==
    /\ users \in [Ids -> UserRow \cup {NoUser}]
    /\ token \in [Ids -> 0 .. TokenLife]
    /\ sess \in [Sessions -> [pc : {"idle", "checked"}, id : Ids]]
    /\ write \in [Writers -> [op : {"none", "edit", "ban", "unban"}, id : Ids, copy : UserRow \cup {NoUser}]]
    /\ silent \in [Workers -> 0 .. StaleAfter + 1]
    /\ alive \in [Workers -> BOOLEAN]

Registered(i) == users[i] # NoUser
Banned(i) == Registered(i) /\ users[i].banned

(* The unique columns: a value another account holds is refused (SQLSTATE 23505). *)
Taken(i, n) == \E j \in Ids \ {i} : Registered(j) /\ users[j].name = n

(* ParseToken, as Auth, OptionalAuth and AuthInterceptor use it: the token is still young. *)
ParseToken(i) == token[i] > 0

(* RequireAdmin: a valid token, and the role of the account as the database has it now. *)
RequireAdmin(a) == ParseToken(a) /\ Registered(a) /\ a = Admin

-----------------------------------------------------------------------------

Register(i, n) ==
    /\ ~Registered(i)
    /\ ~Taken(i, n)
    /\ users' = [users EXCEPT ![i] = [name |-> n, banned |-> FALSE]]
    /\ UNCHANGED <<token, sess, write, silent, alive>>

(* Mutant of MayOpen: a running session may always be prolonged. *)
MayOpenUnlessNew(i) == Registered(i) /\ (ParseToken(i) \/ ~users[i].banned)

(* The account is there and not banned; the password has been compared. *)
MayOpen(i) == Registered(i) /\ ~users[i].banned

Read(s, i) ==
    /\ sess[s].pc = "idle"
    /\ MayOpen(i)
    /\ sess' = [sess EXCEPT ![s] = [pc |-> "checked", id |-> i]]
    /\ UNCHANGED <<users, token, write, silent, alive>>

(* Login reads by e-mail; RefreshToken first needs a valid token of the account. *)
Login(s, i) == Read(s, i)
RefreshToken(s, i) == ParseToken(i) /\ Read(s, i)

GenerateToken(s) ==
    /\ sess[s].pc = "checked"
    /\ token' = [token EXCEPT ![sess[s].id] = TokenLife]
    /\ sess' = [sess EXCEPT ![s] = [pc |-> "idle", id |-> Admin]]
    /\ UNCHANGED <<users, write, silent, alive>>

-----------------------------------------------------------------------------
(* Read-modify-write of a row.                                             *)

ReadRow(w, op, i) ==
    /\ write[w].op = "none"
    /\ Registered(i)
    /\ write' = [write EXCEPT ![w] = [op |-> op, id |-> i, copy |-> users[i]]]
    /\ UNCHANGED <<users, token, sess, silent, alive>>

UpdateUserRead(w, i) == ParseToken(i) /\ ReadRow(w, "edit", i)
SetUserBannedRead(w, op, i) == RequireAdmin(Admin) /\ ReadRow(w, op, i)

(* UserRepo.Update sets the ban flag with the other columns; a taken name fails. *)
Update(w, row) ==
    /\ users' = IF Taken(write[w].id, row.name) THEN users ELSE [users EXCEPT ![write[w].id] = row]
    /\ write' = [write EXCEPT ![w] = [op |-> "none", id |-> Admin, copy |-> NoUser]]
    /\ UNCHANGED <<token, sess, silent, alive>>

UpdateUser(w) ==
    /\ write[w].op = "edit"
    /\ \E n \in Names : Update(w, [write[w].copy EXCEPT !.name = n])

SetUserBanned(w) ==
    /\ write[w].op \in {"ban", "unban"}
    /\ Update(w, [write[w].copy EXCEPT !.banned = (write[w].op = "ban")])

(* Time passes: every token gets older. *)
TokensAge ==
    /\ \E i \in Ids : token[i] > 0
    /\ token' = [i \in Ids |-> IF token[i] > 0 THEN token[i] - 1 ELSE 0]
    /\ UNCHANGED <<users, sess, write, silent, alive>>

-----------------------------------------------------------------------------
(* Heartbeats: a row per worker, upserted; nothing ever deletes one.       *)

UpsertHeartbeat(k) == silent' = [silent EXCEPT ![k] = 0]

RecordHeartbeat(k) ==
    /\ alive[k]
    /\ UpsertHeartbeat(k)
    /\ UNCHANGED <<users, token, sess, write, alive>>

WorkerStopsOrStarts(k) ==
    /\ alive' = [alive EXCEPT ![k] = ~@]
    /\ UNCHANGED <<users, token, sess, write, silent>>

Silence ==
    /\ \E k \in Workers : silent[k] <= StaleAfter
    /\ silent' = [k \in Workers |-> IF silent[k] <= StaleAfter THEN silent[k] + 1 ELSE silent[k]]
    /\ UNCHANGED <<users, token, sess, write, alive>>

(* Mutant of ListActive: every worker that ever reported. *)
ListActiveEver == {k \in Workers : silent[k] \in Nat}

(* The workers GetWorkersStatus lists and GetDashboard counts: heard of within StaleAfter. *)
ListActive == {k \in Workers : silent[k] <= StaleAfter}

-----------------------------------------------------------------------------

AccountInit ==
    /\ users = [i \in Ids |-> IF i = Admin THEN [name |-> CHOOSE n \in Names : TRUE, banned |-> FALSE] ELSE NoUser]
    /\ token = [i \in Ids |-> 0]
    /\ sess = [s \in Sessions |-> [pc |-> "idle", id |-> Admin]]
    /\ write = [w \in Writers |-> [op |-> "none", id |-> Admin, copy |-> NoUser]]
    /\ silent = [k \in Workers |-> StaleAfter + 1]
    /\ alive = [k \in Workers |-> FALSE]

AccountNext ==
    \/ \E i \in Ids, n \in Names : Register(i, n)
    \/ \E s \in Sessions, i \in Ids : Login(s, i) \/ RefreshToken(s, i)
    \/ \E s \in Sessions : GenerateToken(s)
    \/ \E w \in Writers, i \in Ids : UpdateUserRead(w, i) \/ \E op \in {"ban", "unban"} : SetUserBannedRead(w, op, i)
    \/ \E w \in Writers : UpdateUser(w) \/ SetUserBanned(w)
    \/ TokensAge

WorkerNext ==
    \/ \E k \in Workers : RecordHeartbeat(k) \/ WorkerStopsOrStarts(k)
    \/ Silence

(* Requests finish and time passes. *)
AccountFairness ==
    /\ \A s \in Sessions : WF_accountVars(GenerateToken(s))
    /\ WF_accountVars(TokensAge)
    /\ WF_accountVars(Silence)

-----------------------------------------------------------------------------

(* A ban that stands ends every session of the account: running tokens expire, no refresh    *)
(* prolongs them, and a login that had read the row before the ban opens the last one        *)
(* (user.go Login, RefreshToken; jwt.go).  Nothing revokes a token earlier.                  *)
BanEndsSessions == \A i \in Ids : <>[]Banned(i) => <>[]~ParseToken(i)

(* A worker that stays down drops out of the workers shown, although its row is never         *)
(* deleted (worker.go ListActive).                                                            *)
CrashedWorkerAgesOut == \A k \in Workers : <>[]~alive[k] => <>[](k \notin ListActive)

(* "Update persists username, email, and avatar_url changes": a profile edit leaves the ban   *)
(* flag as it is.  The code also writes the flag the edit has read: an edit that overlaps a   *)
(* ban lifts it.                                                                              *)
EditKeepsBan ==
    [][\A w \in Writers :
         write[w].op = "edit" /\ write'[w].op = "none"
         => users'[write[w].id].banned = users[write[w].id].banned]_accountVars
=============================================================================

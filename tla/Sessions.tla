------------------------------- MODULE Sessions -------------------------------
(***************************************************************************)
(* Sessions, passwords and roles in the backend: AuthService (login,       *)
(* changePassword, resetPassword, sessionFor), JwtStrategy and RolesGuard, *)
(* and what UsersController does to accounts (roles, bans, deletion).      *)
(*                                                                         *)
(* A session is a signed token; nothing of it is stored.  The guard reads  *)
(* the account once, when a request arrives, and refuses the session if    *)
(* the account has gone or is banned, or if the password was changed after *)
(* the session was signed; the two moments are compared in whole seconds.  *)
(* Comparing and hashing passwords take time, so a login and a change of   *)
(* password, two changes, or a demotion and an act of the demoted, overlap *)
(* in every way.  Sessions last days and none expires here.                *)
(***************************************************************************)
EXTENDS Integers, FiniteSets

CONSTANTS
  Users,           \* ids of accounts
  Handlers,        \* bound: requests served at the same time
  Watched,         \* the handlers whose answers are kept until they are read
  TicksPerSecond,  \* the clock is finer than the time stamps of sessions
  Scenes,          \* bound: what goes on in one behaviour, see Scene
  None

Roles == {"user", "reviewer", "admin", "super_admin"}
Admins == {"admin", "super_admin"}       \* ROLE_HIERARCHY from admin upwards
AdminOps == {"role", "ban", "unban"}
Ops == AdminOps \cup {"login", "reset", "password", "delete", "me", "logout"}

(* calls: what is asked for elsewhere, by callers; tab: what is asked for   *)
(* in the tab of ClientSession; roles: the accounts at the beginning, each  *)
(* signed in somewhere; ticks: how long the clock runs; asks: the requests  *)
(* made.                                                                    *)
Scene == [calls : SUBSET Ops, callers : SUBSET Users, tab : SUBSET Ops,
          roles : [Users -> Roles], ticks : Nat, asks : Nat]

ASSUME SessionsAssumption ==
  /\ Watched \subseteq Handlers
  /\ TicksPerSecond \in Nat \ {0}
  /\ Scenes \subseteq Scene
  /\ None \notin Users /\ None \notin [id : Users, role : Roles]
  /\ None \notin [sub : Users, iat : Nat, role : Roles, password : Nat, crossed : SUBSET Nat]

VARIABLES
  scene,      \* stays as it is
  now,        \* the clock
  account,    \* Users -> the row of the table
  sessions,   \* tokens signed so far
  req,        \* Handlers -> the request being served
  passwords,  \* serial number of the last password chosen
  asked       \* requests made

serverVars == <<scene, now, account, sessions, req, passwords, asked>>

Second(t) == t \div TicksPerSecond
Never == -1

(* Claims of the token: sub, iat, role.  History: the password it was got   *)
(* with, and the passwords written, or about to be, while it was got.       *)
Session(sub, iat, role, password, crossed) ==
  [sub |-> sub, iat |-> iat, role |-> role, password |-> password, crossed |-> crossed]

(* user: the account signed in or acted on; power: the role the guard read; *)
(* stood: history, see Entitled.                                            *)
Request(op, step, user, role, session, password) ==
  [op |-> op, step |-> step, user |-> user, role |-> role, session |-> session,
   password |-> password, power |-> "user", stamp |-> Never, crossed |-> {}, stood |-> FALSE]
Idle == Request("me", "idle", None, "user", None, 0)

SessionsInit ==
  /\ scene \in Scenes
  /\ now = 0
  /\ account = [u \in Users |-> [exists |-> TRUE, banned |-> FALSE, role |-> scene.roles[u],
                                 password |-> 0, changedAt |-> Never]]
  /\ sessions = {Session(u, 0, scene.roles[u], 0, {}) : u \in Users}
  /\ req = [h \in Handlers |-> Idle]
  /\ passwords = 0 /\ asked = 0

-----------------------------------------------------------------------------
(* What validate() says of a session. *)
Accepts(s) ==
  LET a == account[s.sub] IN
  /\ a.exists /\ ~a.banned
  /\ ~(a.changedAt # Never /\ Second(a.changedAt) > s.iat)

(* What it is meant to say: the session was got with the password of now,   *)
(* or just as that one was set.                                             *)
Current(s, a) ==
  \/ s.password = a.password \/ a.password \in s.crossed
  \/ a.changedAt # Never /\ s.iat = Second(a.changedAt)

(* Whoever asks has the right to what he asks for. *)
Entitled(r, accounts) ==
  r.session # None =>
    LET a == accounts[r.session.sub] IN
    /\ a.exists /\ ~a.banned /\ Current(r.session, a)
    /\ r.op \in AdminOps => a.role \in Admins
    /\ r.op = "role" /\ r.role \in Admins => a.role = "super_admin"

Witnessed(requests, accounts) ==
  [h \in Handlers |->
     [requests[h] EXCEPT !.stood = @ \/ Entitled(requests[h], accounts)]]

Asks(h, r) ==
  /\ req[h].step = "idle" /\ asked < scene.asks /\ asked' = asked + 1
  /\ req' = [req EXCEPT ![h] = [r EXCEPT !.stood = Entitled(r, account)]]
  /\ UNCHANGED <<scene, now, account, sessions, passwords>>

At(h, ops, step) == req[h].op \in ops /\ req[h].step = step
Finished(h, r, answer) ==
  IF h \in Watched
  THEN [Request(r.op, answer, r.user, "user", r.session, 0) EXCEPT !.power = r.power]
  ELSE Idle
Finish(h, answer) == req' = [req EXCEPT ![h] = Finished(h, req[h], answer)]
GoTo(h, step) == req' = [req EXCEPT ![h].step = step]

(* Requests from elsewhere: anybody may try a password that once was right, *)
(* or follow a reset link, and everybody has the sessions signed.           *)
Call(h) ==
  \E op \in scene.calls \ {"logout"}, u \in Users, role \in Roles, s \in sessions :
    /\ h \notin Watched /\ s.sub \in scene.callers
    /\ op \notin AdminOps => u = s.sub
    /\ op # "role" => role = "user"
    /\ op \in {"login", "reset"} => s.iat = 0 /\ s.role = scene.roles[u]
    /\ \E p \in 0..passwords :
         /\ op \notin {"login", "password"} => p = 0
         /\ IF op \in {"login", "reset"}
            THEN Asks(h, Request(op, "read", u, role, None, p))
            ELSE Asks(h, Request(op, "guard", u, role, s, p))

Tick ==
  /\ now < scene.ticks /\ now' = now + 1
  /\ UNCHANGED <<scene, account, sessions, req, passwords, asked>>

-----------------------------------------------------------------------------
GuardTrustingClaim(h) ==    \* defect: the role is taken from the token
  LET r == req[h]  s == r.session IN
  /\ r.step = "guard"
  /\ IF s # None /\ Accepts(s) /\ (r.op \in AdminOps => s.role \in Admins)
     THEN req' = [req EXCEPT ![h] =
                    IF r.op = "me" THEN Finished(h, [r EXCEPT !.power = s.role], "ok")
                    ELSE [r EXCEPT !.power = s.role, !.step = "read"]]
     ELSE Finish(h, "refused")
  /\ UNCHANGED <<scene, now, account, sessions, passwords, asked>>

(* JwtAuthGuard and RolesGuard. *)
Guard(h) ==
  LET r == req[h]  s == r.session  role == account[s.sub].role IN
  /\ r.step = "guard"
  /\ IF s # None /\ Accepts(s) /\ (r.op \in AdminOps => role \in Admins)
     THEN req' = [req EXCEPT ![h] =
                    IF r.op = "me" THEN Finished(h, [r EXCEPT !.power = role], "ok")
                    ELSE [r EXCEPT !.power = role, !.step = "read"]]
     ELSE Finish(h, "refused")
  /\ UNCHANGED <<scene, now, account, sessions, passwords, asked>>

(* The row read here is the one the password is compared with. *)
LoginRead(h) ==
  LET a == account[req[h].user] IN
  /\ At(h, {"login"}, "read")
  /\ IF a.exists /\ ~a.banned /\ req[h].password = a.password
     THEN req' = [req EXCEPT ![h].step = "sign", ![h].power = a.role]
     ELSE Finish(h, "refused")
  /\ UNCHANGED <<scene, now, account, sessions, passwords, asked>>

PasswordRead(h) ==
  LET a == account[req[h].user] IN
  /\ At(h, {"password", "reset"}, "read")
  /\ IF a.exists /\ (req[h].op = "password" => req[h].password = a.password)
     THEN GoTo(h, "stamp")
     ELSE Finish(h, "refused")
  /\ UNCHANGED <<scene, now, account, sessions, passwords, asked>>

(* The new password is hashed; new Date() is evaluated and then the UPDATE  *)
(* is sent.                                                                 *)
Stamp(h) ==
  /\ At(h, {"password", "reset"}, "stamp")
  /\ passwords' = passwords + 1
  /\ req' = [req EXCEPT ![h].step = "write", ![h].password = passwords + 1, ![h].stamp = now]
  /\ UNCHANGED <<scene, now, account, sessions, asked>>

(* Passwords stamped and not written yet. *)
InFlight(u) ==
  {req[h].password : h \in {g \in Handlers : At(g, {"password", "reset"}, "write")
                                             /\ req[g].user = u}}
Signing(r) == r.step \in {"renew", "sign"}

(* Whoever is signing in to u meanwhile crosses password p. *)
Crossing(requests, u, p) ==
  [g \in Handlers |->
     IF Signing(requests[g]) /\ requests[g].user = u
     THEN [requests[g] EXCEPT !.crossed = @ \cup {p}] ELSE requests[g]]

(* An UPDATE of an account that has gone changes nothing. *)
Update(u, row) == IF account[u].exists THEN [account EXCEPT ![u] = row] ELSE account

PasswordWriteWith(h, changedAt) ==
  LET r == req[h]  u == r.user
      next == IF r.op = "password" THEN [r EXCEPT !.step = "renew"] ELSE Finished(h, r, "ok")
  IN
  /\ At(h, {"password", "reset"}, "write")
  /\ account' = Update(u, [account[u] EXCEPT !.password = r.password, !.changedAt = changedAt])
  /\ req' = Witnessed([Crossing(req, u, r.password) EXCEPT ![h] = next], account')
  /\ UNCHANGED <<scene, now, sessions, passwords, asked>>

PasswordWriteUnstamped(h) ==    \* defect: a reset leaves passwordChangedAt alone
  PasswordWriteWith(h, IF req[h].op = "reset" THEN account[req[h].user].changedAt
                       ELSE req[h].stamp)

PasswordWrite(h) == PasswordWriteWith(h, req[h].stamp)

(* sessionFor, for the browser that changed the password. *)
Renew(h) ==
  LET a == account[req[h].user] IN
  /\ At(h, {"password"}, "renew")
  /\ IF a.exists /\ ~a.banned
     THEN req' = [req EXCEPT ![h].step = "sign", ![h].power = a.role]
     ELSE Finish(h, "refused")
  /\ UNCHANGED <<scene, now, account, sessions, passwords, asked>>

(* buildResult: the JWT library adds the second of now. *)
Sign(h) ==
  LET r == req[h]
      s == Session(r.user, Second(now), r.power, r.password, r.crossed \cup InFlight(r.user))
  IN
  /\ At(h, {"login", "password"}, "sign")
  /\ sessions' = sessions \cup {s}
  /\ req' = [req EXCEPT ![h] = Finished(h, [r EXCEPT !.session = s], "ok")]
  /\ UNCHANGED <<scene, now, account, passwords, asked>>

-----------------------------------------------------------------------------
(* ASSIGNABLE_BY_ADMIN, ASSIGNABLE_BY_SUPER_ADMIN. *)
Assignable(power) == IF power = "super_admin" THEN Roles ELSE Roles \ Admins

AdminRead(h) ==
  LET r == req[h] IN
  /\ At(h, AdminOps, "read")
  /\ IF /\ account[r.user].exists
        /\ r.op # "unban" => r.user # r.session.sub
        /\ r.op = "role" => r.role \in Assignable(r.power)
     THEN GoTo(h, "write")
     ELSE Finish(h, "refused")
  /\ UNCHANGED <<scene, now, account, sessions, passwords, asked>>

Change(h, row) ==
  /\ account' = Update(req[h].user, row)
  /\ req' = Witnessed([req EXCEPT ![h] = Finished(h, req[h], "ok")], account')
  /\ UNCHANGED <<scene, now, sessions, passwords, asked>>

AssignRole(h) ==
  /\ At(h, {"role"}, "write")
  /\ Change(h, [account[req[h].user] EXCEPT !.role = req[h].role])

(* What setBanStatus does to contributions is in BanSweep. *)
SetBanStatus(h) ==
  /\ At(h, {"ban", "unban"}, "write")
  /\ Change(h, [account[req[h].user] EXCEPT !.banned = (req[h].op = "ban")])

DeleteAccount(h) ==
  /\ At(h, {"delete"}, "read")
  /\ Change(h, [account[req[h].user] EXCEPT !.exists = FALSE])

Serve(h) ==
  \/ Guard(h) \/ LoginRead(h) \/ PasswordRead(h) \/ Stamp(h) \/ PasswordWrite(h)
  \/ Renew(h) \/ Sign(h) \/ AdminRead(h) \/ AssignRole(h) \/ SetBanStatus(h) \/ DeleteAccount(h)

SessionsNext == Tick \/ \E h \in Handlers : Call(h) \/ Serve(h)

-----------------------------------------------------------------------------
(* Once a new password is written, a session that was got with another one  *)
(* is refused; unless that session was being got while the password was     *)
(* being written, or was signed in the very second of the change.           *)
OldPasswordSessionsEnd ==
  \A s \in sessions : Accepts(s) => Current(s, account[s.sub])

(* Whatever a request does to an account, its caller had the right to do at *)
(* some moment since the request arrived: the account was there and not     *)
(* banned, its session current, its role high enough.  A role, a ban or a   *)
(* password that changed before the request came counts in full.            *)
ActsAreEntitled ==
  [][\A u \in Users : account'[u] # account[u] =>
       \E h \in Handlers :
         /\ req[h].user = u /\ req'[h].step # req[h].step
         /\ req[h].step = "write" \/ At(h, {"delete"}, "read")
         /\ req[h].stood]_serverVars
=============================================================================

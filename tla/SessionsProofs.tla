--------------------------- MODULE SessionsProofs ---------------------------
(***************************************************************************)
(* Sessions and rights, proved for every number of accounts, passwords and *)
(* requests, with any clock, and with the tab among the callers.           *)
(*                                                                         *)
(* A session survives a change of password only if it was got with the new *)
(* one, or was being got while that one was being written, or was signed   *)
(* in the second of the change.  What makes this inductive: a password     *)
(* stamped and not written yet is crossed by every session signed in a     *)
(* later second (InFlightOK), and whoever is about to sign has the         *)
(* password of now, or has crossed it (SigningOK).                         *)
(*                                                                         *)
(* A right lasts from the guard's reading to the end of the request, as    *)
(* far as ActsAreEntitled is concerned: a request that waits for the guard *)
(* stood if it is entitled now, and one that is past it stood, but for the *)
(* plain admin whom the handler refuses (StoodOK).                         *)
(*                                                                         *)
(* The tab shows the owner of its cookie: what answers bring fits the      *)
(* cookie there is (AnswerOK) as long as nothing tangled is under way, and *)
(* page and cookie disagree only while a logout is being answered (TabOK). *)
(***************************************************************************)
EXTENDS ClientSession, TLAPS

Steps == {"idle", "guard", "read", "stamp", "write", "renew", "sign", "ok", "refused"}
Rows == [exists : BOOLEAN, banned : BOOLEAN, role : Roles, password : Nat,
         changedAt : Nat \cup {Never}]
Tokens == [sub : Users, iat : Nat, role : Roles, password : Nat, crossed : SUBSET Nat]
Requests == [op : Ops, step : Steps, user : Users \cup {None}, role : Roles,
             session : Tokens \cup {None}, password : Nat, power : Roles,
             stamp : Nat \cup {Never}, crossed : SUBSET Nat, stood : BOOLEAN]

Shape ==
  /\ scene \in Scene /\ now \in Nat /\ passwords \in Nat
  /\ account \in [Users -> Rows]
  /\ sessions \subseteq Tokens
  /\ req \in [Handlers -> Requests]
  /\ cookie \in {None} \cup sessions

Acting == {"read", "stamp", "write", "renew", "sign"}

(* Whom a request is about, and the session it shows. *)
AboutOK(r) ==
  /\ r.session \in {None} \cup sessions
  /\ r.step \in Acting => r.user \in Users
  /\ r.step = "guard" => r.session = None \/ r.user \in Users

Writing(r) == r.op \in {"password", "reset"} /\ r.step = "write"
InFlightOK(r) ==
  Writing(r) =>
    /\ r.stamp \in Nat
    /\ \A s \in sessions : s.sub = r.user /\ s.iat > Second(r.stamp) => r.password \in s.crossed

SigningOK(r) ==
  Signing(r) /\ account[r.user].exists =>
    r.password = account[r.user].password \/ account[r.user].password \in r.crossed

(* Nothing is signed in the future. *)
NoneAhead == \A s \in sessions : s.iat <= Second(now)

(* What Accepts compares, without regard to bans. *)
SessionOK(s) ==
  LET a == account[s.sub] IN
  a.exists /\ (a.changedAt = Never \/ Second(a.changedAt) <= s.iat) => Current(s, a)

RequestsOK == \A h \in Handlers :
  AboutOK(req[h]) /\ InFlightOK(req[h]) /\ SigningOK(req[h])
SessionsOK == \A s \in sessions : SessionOK(s)

IInv == Shape /\ RequestsOK /\ NoneAhead /\ SessionsOK

(* Those that have ended, or have not begun. *)
Ended(r) == r.step \in {"idle", "ok", "refused"}

-----------------------------------------------------------------------------
LEMMA SecondType == \A t \in Nat : Second(t) \in Nat
BY SessionsAssumption DEF Second

LEMMA SecondGrows == \A t \in Nat : Second(t) <= Second(t + 1)
BY SessionsAssumption, SMTT(30) DEF Second

LEMMA IdleShape == Idle \in Requests /\ Idle.step = "idle" /\ Idle.session = None
<1>1. "me" \in Ops /\ "idle" \in Steps /\ "user" \in Roles /\ 0 \in Nat
  BY DEF Ops, Steps, Roles
<1> QED BY <1>1 DEF Idle, Request, Requests

LEMMA FinishedShape ==
  ASSUME NEW h, NEW r \in Requests, NEW answer \in {"ok", "refused"}
  PROVE  LET q == Finished(h, r, answer) IN
         /\ q \in Requests /\ Ended(q) /\ q.session \in {None, r.session}
<1>1. CASE h \notin Watched
  BY <1>1, IdleShape DEF Finished, Ended
<1>2. CASE h \in Watched
  <2> DEFINE b == Request(r.op, answer, r.user, "user", r.session, 0)
             q == [b EXCEPT !.power = r.power]
  <2>1. b \in Requests /\ b.step = answer /\ b.session = r.session
    <3>1. /\ r.op \in Ops /\ r.user \in Users \cup {None} /\ r.session \in Tokens \cup {None}
      BY DEF Requests
    <3>2. answer \in Steps /\ "user" \in Roles /\ 0 \in Nat
      BY DEF Steps, Roles
    <3> QED BY <3>1, <3>2 DEF Request, Requests
  <2>2. r.power \in Roles
    BY DEF Requests
  <2> HIDE DEF b
  <2>3. q \in Requests /\ q.step = answer /\ q.session = r.session
    BY <2>1, <2>2 DEF Requests
  <2>4. Finished(h, r, answer) = q
    BY <1>2 DEF Finished, b
  <2> HIDE DEF q
  <2> QED BY <2>3, <2>4 DEF Ended
<1> QED BY <1>1, <1>2

(* A request that goes on to another step. *)
LEMMA StepShape ==
  ASSUME NEW r \in Requests, NEW step \in Steps
  PROVE  LET q == [r EXCEPT !.step = step] IN
         /\ q \in Requests /\ q.step = step
         /\ q.op = r.op /\ q.user = r.user /\ q.role = r.role /\ q.session = r.session
         /\ q.password = r.password /\ q.power = r.power /\ q.stamp = r.stamp
         /\ q.crossed = r.crossed /\ q.stood = r.stood
BY DEF Requests

-----------------------------------------------------------------------------
(* One request is taken up, goes on or ends; the tables stay. *)
Quiet(h, q) ==
  /\ q \in Requests /\ req' = [req EXCEPT ![h] = q]
  /\ passwords' \in Nat /\ cookie' \in {None} \cup sessions
  /\ UNCHANGED <<scene, now, account, sessions>>

LEMMA QuietStep ==
  ASSUME IInv, NEW h \in Handlers, NEW q, Quiet(h, q),
         AboutOK(q), InFlightOK(q), SigningOK(q)
  PROVE  IInv'
<1>1. req' \in [Handlers -> Requests] /\ req'[h] = q
      /\ \A g \in Handlers \ {h} : req'[g] = req[g]
  BY DEF Quiet, IInv, Shape
<1>2. Shape'
  BY <1>1 DEF IInv, Shape, Quiet
<1>3. RequestsOK'
  <2> SUFFICES ASSUME NEW g \in Handlers
               PROVE  (AboutOK(req[g]) /\ InFlightOK(req[g]) /\ SigningOK(req[g]))'
    BY DEF RequestsOK
  <2>0. AboutOK(req'[g]) /\ InFlightOK(req'[g]) /\ SigningOK(req'[g])
    BY <1>1 DEF IInv, RequestsOK
  <2>1. AboutOK(req[g])'
    BY <2>0 DEF AboutOK, Quiet
  <2>2. InFlightOK(req[g])'
    BY <2>0 DEF InFlightOK, Writing, Quiet
  <2>3. SigningOK(req[g])'
    BY <2>0 DEF SigningOK, Signing, Quiet
  <2> QED BY <2>1, <2>2, <2>3
<1>4. NoneAhead'
  BY DEF IInv, NoneAhead, Quiet
<1>5. SessionsOK'
  BY DEF IInv, SessionsOK, SessionOK, Quiet
<1> QED BY <1>2, <1>3, <1>4, <1>5 DEF IInv

(* ... and for one that neither writes a password nor signs a session. *)
LEMMA PlainStep ==
  ASSUME IInv, NEW h \in Handlers, NEW q, Quiet(h, q), AboutOK(q),
         q.step \in {"idle", "guard", "read", "stamp", "ok", "refused"}
                    \/ (q.step = "write" /\ q.op \notin {"password", "reset"})
  PROVE  IInv'
<1>1. InFlightOK(q) /\ SigningOK(q)
  BY DEF InFlightOK, Writing, SigningOK, Signing
<1> QED BY <1>1, QuietStep

LEMMA EndedStep ==
  ASSUME IInv, NEW h \in Handlers, NEW q, Quiet(h, q), Ended(q),
         q.session \in {None} \cup sessions
  PROVE  IInv'
<1>1. AboutOK(q)
  BY DEF AboutOK, Acting, Ended
<1> QED BY <1>1, PlainStep DEF Ended

LEMMA FinishStep ==
  ASSUME IInv, NEW h \in Handlers, NEW r \in Requests, r.session \in {None} \cup sessions,
         NEW answer \in {"ok", "refused"},
         req' = [req EXCEPT ![h] = Finished(h, r, answer)],
         UNCHANGED <<scene, now, account, sessions, passwords, cookie>>
  PROVE  IInv'
<1> DEFINE q == Finished(h, r, answer)
<1>1. q \in Requests /\ Ended(q) /\ q.session \in {None} \cup sessions
  BY FinishedShape
<1>2. Quiet(h, q)
  BY <1>1 DEF Quiet, IInv, Shape
<1> HIDE DEF q
<1> QED BY <1>1, <1>2, EndedStep

LEMMA EntitledBoolean == \A r, a : Entitled(r, a) \in BOOLEAN
BY DEF Entitled

LEMMA AsksStep ==
  ASSUME IInv, NEW h \in Handlers, NEW r \in Requests, Asks(h, r), AboutOK(r),
         r.step \in {"guard", "read", "ok"}, cookie' = cookie
  PROVE  IInv'
<1> DEFINE q == [r EXCEPT !.stood = Entitled(r, account)]
<1>1. /\ q \in Requests /\ q.step = r.step /\ q.user = r.user /\ q.session = r.session
  BY EntitledBoolean DEF Requests
<1>2. Quiet(h, q)
  BY <1>1 DEF Asks, Quiet, IInv, Shape
<1> HIDE DEF q
<1>3. AboutOK(q)
  BY <1>1 DEF AboutOK
<1> QED BY <1>1, <1>2, <1>3, PlainStep

LEMMA CallStep ==
  ASSUME IInv, NEW h \in Handlers, Call(h), cookie' = cookie
  PROVE  IInv'
<1>1. PICK op \in scene.calls \ {"logout"}, u \in Users, role \in Roles, s \in sessions :
        \E p \in 0..passwords :
          IF op \in {"login", "reset"}
          THEN Asks(h, Request(op, "read", u, role, None, p))
          ELSE Asks(h, Request(op, "guard", u, role, s, p))
  BY DEF Call
<1>2. PICK p \in 0..passwords :
          IF op \in {"login", "reset"}
          THEN Asks(h, Request(op, "read", u, role, None, p))
          ELSE Asks(h, Request(op, "guard", u, role, s, p))
  BY <1>1
<1>3. op \in Ops /\ p \in Nat /\ s \in Tokens /\ {"read", "guard"} \subseteq Steps
  BY DEF IInv, Shape, Scene, Steps
<1>4. CASE Asks(h, Request(op, "read", u, role, None, p))
  <2> DEFINE r == Request(op, "read", u, role, None, p)
  <2>1. r \in Requests /\ r.step = "read" /\ r.user = u /\ r.session = None
    BY <1>3 DEF Request, Requests, Roles
  <2> HIDE DEF r
  <2>2. AboutOK(r)
    BY <2>1 DEF AboutOK
  <2> QED BY <1>4, <2>1, <2>2, AsksStep DEF r
<1>5. CASE Asks(h, Request(op, "guard", u, role, s, p))
  <2> DEFINE r == Request(op, "guard", u, role, s, p)
  <2>1. r \in Requests /\ r.step = "guard" /\ r.user = u /\ r.session = s
    BY <1>3 DEF Request, Requests, Roles
  <2> HIDE DEF r
  <2>2. AboutOK(r)
    BY <2>1 DEF AboutOK, Acting
  <2> QED BY <1>5, <2>1, <2>2, AsksStep DEF r
<1> QED BY <1>2, <1>4, <1>5

LEMMA GuardStep ==
  ASSUME IInv, NEW h \in Handlers, Guard(h), cookie' = cookie
  PROVE  IInv'
<1> DEFINE r == req[h]
           s == r.session
           role == account[s.sub].role
<1>1. /\ r \in Requests /\ s \in {None} \cup sessions /\ r.step = "guard"
      /\ s = None \/ r.user \in Users
      /\ UNCHANGED <<scene, now, account, sessions, passwords, cookie>>
  BY DEF IInv, Shape, RequestsOK, AboutOK, Guard
<1>2. CASE Finish(h, "refused")
  BY <1>1, <1>2, FinishStep DEF Finish
<1>3. CASE s # None /\ req' = [req EXCEPT ![h] =
                                 IF r.op = "me" THEN Finished(h, [r EXCEPT !.power = role], "ok")
                                 ELSE [r EXCEPT !.power = role, !.step = "read"]]
  <2>1. role \in Roles
    BY <1>1, <1>3 DEF IInv, Shape, Tokens, Rows
  <2> HIDE DEF role
  <2>2. CASE r.op = "me"
    <3> DEFINE q == [r EXCEPT !.power = role]
    <3>1. q \in Requests /\ q.session = s
      BY <1>1, <2>1 DEF Requests
    <3>2. req' = [req EXCEPT ![h] = Finished(h, q, "ok")]
      BY <1>3, <2>2
    <3> HIDE DEF q
    <3> QED BY <1>1, <3>1, <3>2, FinishStep
  <2>3. CASE r.op # "me"
    <3> DEFINE q == [r EXCEPT !.power = role, !.step = "read"]
    <3>1. q \in Requests /\ q.session = s /\ q.step = "read" /\ q.user = r.user
      BY <1>1, <2>1 DEF Requests, Steps
    <3>2. Quiet(h, q)
      BY <1>1, <1>3, <2>3, <3>1 DEF Quiet, IInv, Shape
    <3> HIDE DEF q
    <3>3. AboutOK(q)
      BY <1>1, <1>3, <3>1 DEF AboutOK
    <3> QED BY <3>1, <3>2, <3>3, PlainStep
  <2> QED BY <2>2, <2>3
<1> QED BY <1>2, <1>3 DEF Guard

LEMMA RequestAt ==
  ASSUME IInv, NEW h \in Handlers
  PROVE  /\ req[h] \in Requests /\ req[h].session \in {None} \cup sessions
         /\ AboutOK(req[h]) /\ InFlightOK(req[h]) /\ SigningOK(req[h])
BY DEF IInv, Shape, RequestsOK, AboutOK

LEMMA LoginReadStep ==
  ASSUME IInv, NEW h \in Handlers, LoginRead(h), cookie' = cookie
  PROVE  IInv'
<1> DEFINE r == req[h]
           a == account[r.user]
<1>1. /\ r \in Requests /\ r.session \in {None} \cup sessions /\ r.user \in Users
      /\ r.op = "login" /\ r.step = "read" /\ a \in Rows
      /\ UNCHANGED <<scene, now, account, sessions, passwords, cookie>>
  BY RequestAt DEF LoginRead, At, AboutOK, Acting, IInv, Shape
<1>2. CASE Finish(h, "refused")
  BY <1>1, <1>2, FinishStep DEF Finish
<1>3. CASE /\ r.password = a.password
           /\ req' = [req EXCEPT ![h].step = "sign", ![h].power = a.role]
  <2> DEFINE q == [r EXCEPT !.step = "sign", !.power = a.role]
  <2>1. /\ q \in Requests /\ q.step = "sign" /\ q.user = r.user /\ q.session = r.session
        /\ q.password = r.password /\ q.crossed = r.crossed
    <3>1. a.role \in Roles /\ "sign" \in Steps
      BY <1>1 DEF Rows, Steps
    <3> QED BY <1>1, <3>1 DEF Requests
  <2>2. Quiet(h, q)
    BY <1>1, <1>3, <2>1 DEF Quiet, IInv, Shape
  <2> HIDE DEF q
  <2>3. AboutOK(q) /\ InFlightOK(q) /\ SigningOK(q)
    BY <1>1, <1>3, <2>1 DEF AboutOK, InFlightOK, Writing, SigningOK
  <2> QED BY <2>2, <2>3, QuietStep
<1> QED BY <1>2, <1>3 DEF LoginRead

LEMMA PasswordReadStep ==
  ASSUME IInv, NEW h \in Handlers, PasswordRead(h), cookie' = cookie
  PROVE  IInv'
<1>1. /\ req[h] \in Requests /\ req[h].session \in {None} \cup sessions /\ req[h].user \in Users
      /\ UNCHANGED <<scene, now, account, sessions, passwords, cookie>>
  BY RequestAt DEF PasswordRead, At, AboutOK, Acting
<1>2. CASE Finish(h, "refused")
  BY <1>1, <1>2, FinishStep DEF Finish
<1>3. CASE GoTo(h, "stamp")
  <2> DEFINE q == [req[h] EXCEPT !.step = "stamp"]
  <2>1. q \in Requests /\ q.step = "stamp" /\ q.user = req[h].user /\ q.session = req[h].session
    BY <1>1, StepShape DEF Steps
  <2>2. Quiet(h, q)
    BY <1>1, <1>3, <2>1 DEF Quiet, GoTo, IInv, Shape
  <2> HIDE DEF q
  <2>3. AboutOK(q)
    BY <1>1, <2>1 DEF AboutOK
  <2> QED BY <2>1, <2>2, <2>3, PlainStep
<1> QED BY <1>2, <1>3 DEF PasswordRead

(* Sessions signed so far are of no later second than the stamp. *)
LEMMA StampStep ==
  ASSUME IInv, NEW h \in Handlers, Stamp(h), cookie' = cookie
  PROVE  IInv'
<1>1. /\ req[h] \in Requests /\ req[h].session \in {None} \cup sessions /\ req[h].user \in Users
      /\ passwords \in Nat /\ now \in Nat
      /\ UNCHANGED <<scene, now, account, sessions, cookie>> /\ passwords' = passwords + 1
  BY RequestAt DEF Stamp, At, AboutOK, Acting, IInv, Shape
<1> DEFINE q == [req[h] EXCEPT !.step = "write", !.password = passwords + 1, !.stamp = now]
<1>2. /\ q \in Requests /\ q.step = "write" /\ q.stamp = now
      /\ q.user = req[h].user /\ q.session = req[h].session
  <2>1. "write" \in Steps /\ passwords + 1 \in Nat /\ now \in Nat \cup {Never}
    BY <1>1 DEF Steps
  <2> QED BY <1>1, <2>1 DEF Requests
<1>3. Quiet(h, q)
  <2>1. req' = [req EXCEPT ![h] = q]
    BY DEF Stamp
  <2> HIDE DEF q
  <2> QED BY <1>1, <1>2, <2>1 DEF Quiet, IInv, Shape
<1> HIDE DEF q
<1>4. \A s \in sessions : ~(s.iat > Second(now))
  <2>1. \A s \in sessions : s.iat \in Nat
    BY DEF IInv, Shape, Tokens
  <2>2. Second(now) \in Nat
    BY <1>1, SecondType
  <2> QED BY <2>1, <2>2 DEF IInv, NoneAhead
<1>5. AboutOK(q) /\ InFlightOK(q) /\ SigningOK(q)
  BY <1>1, <1>2, <1>4 DEF AboutOK, InFlightOK, SigningOK, Signing
<1> QED BY <1>3, <1>5, QuietStep

LEMMA RenewStep ==
  ASSUME IInv, NEW h \in Handlers, Renew(h), cookie' = cookie
  PROVE  IInv'
<1> DEFINE r == req[h]
           a == account[r.user]
<1>1. /\ r \in Requests /\ r.session \in {None} \cup sessions /\ r.user \in Users
      /\ r.op = "password" /\ r.step = "renew" /\ a \in Rows /\ SigningOK(r)
      /\ UNCHANGED <<scene, now, account, sessions, passwords, cookie>>
  BY RequestAt DEF Renew, At, AboutOK, Acting, IInv, Shape
<1>2. CASE Finish(h, "refused")
  BY <1>1, <1>2, FinishStep DEF Finish
<1>3. CASE req' = [req EXCEPT ![h].step = "sign", ![h].power = a.role]
  <2> DEFINE q == [r EXCEPT !.step = "sign", !.power = a.role]
  <2>1. /\ q \in Requests /\ q.step = "sign" /\ q.user = r.user /\ q.session = r.session
        /\ q.password = r.password /\ q.crossed = r.crossed
    <3>1. a.role \in Roles /\ "sign" \in Steps
      BY <1>1 DEF Rows, Steps
    <3> QED BY <1>1, <3>1 DEF Requests
  <2>2. Quiet(h, q)
    BY <1>1, <1>3, <2>1 DEF Quiet, IInv, Shape
  <2> HIDE DEF q
  <2>3. AboutOK(q) /\ InFlightOK(q) /\ SigningOK(q)
    BY <1>1, <2>1 DEF AboutOK, InFlightOK, Writing, SigningOK, Signing
  <2> QED BY <2>2, <2>3, QuietStep
<1> QED BY <1>2, <1>3 DEF Renew

LEMMA AdminReadStep ==
  ASSUME IInv, NEW h \in Handlers, AdminRead(h), cookie' = cookie
  PROVE  IInv'
<1>1. /\ req[h] \in Requests /\ req[h].session \in {None} \cup sessions /\ req[h].user \in Users
      /\ req[h].op \notin {"password", "reset"}
      /\ UNCHANGED <<scene, now, account, sessions, passwords, cookie>>
  BY RequestAt DEF AdminRead, At, AboutOK, Acting, AdminOps
<1>2. CASE Finish(h, "refused")
  BY <1>1, <1>2, FinishStep DEF Finish
<1>3. CASE GoTo(h, "write")
  <2> DEFINE q == [req[h] EXCEPT !.step = "write"]
  <2>1. /\ q \in Requests /\ q.step = "write" /\ q.user = req[h].user
        /\ q.session = req[h].session /\ q.op = req[h].op
    BY <1>1, StepShape DEF Steps
  <2>2. Quiet(h, q)
    BY <1>1, <1>3, <2>1 DEF Quiet, GoTo, IInv, Shape
  <2> HIDE DEF q
  <2>3. AboutOK(q)
    BY <1>1, <2>1 DEF AboutOK
  <2> QED BY <1>1, <2>1, <2>2, <2>3, PlainStep
<1> QED BY <1>2, <1>3 DEF AdminRead

-----------------------------------------------------------------------------
(* A session is signed by whoever has the password of now or has crossed    *)
(* it, and it crosses all those about to be written.                        *)
LEMMA SignStep ==
  ASSUME IInv, NEW h \in Handlers, Sign(h), cookie' = cookie
  PROVE  IInv'
<1> DEFINE r == req[h]
           s == Session(r.user, Second(now), r.power, r.password, r.crossed \cup InFlight(r.user))
           b == [r EXCEPT !.session = s]
           q == Finished(h, b, "ok")
<1>1. /\ r \in Requests /\ r.user \in Users /\ Signing(r) /\ SigningOK(r)
      /\ now \in Nat /\ Second(now) \in Nat
      /\ UNCHANGED <<scene, now, account, passwords, cookie>>
      /\ sessions' = sessions \cup {s}
      /\ req' = [req EXCEPT ![h] = q]
  BY RequestAt, SecondType DEF Sign, At, AboutOK, Acting, Signing, IInv, Shape
<1>2. InFlight(r.user) \subseteq Nat
  BY DEF InFlight, IInv, Shape, Requests
<1>3. /\ s \in Tokens /\ s.sub = r.user /\ s.iat = Second(now) /\ s.password = r.password
      /\ s.crossed = r.crossed \cup InFlight(r.user)
  <2>1. r.power \in Roles /\ r.password \in Nat /\ r.crossed \subseteq Nat
    BY <1>1 DEF Requests
  <2> HIDE DEF r
  <2> QED BY <1>1, <1>2, <2>1 DEF Session, Tokens
<1> HIDE DEF s
<1>4. b \in Requests /\ b.session = s
  BY <1>1, <1>3 DEF Requests
<1> HIDE DEF b
<1>5. q \in Requests /\ Ended(q) /\ q.session \in {None, s}
  BY <1>4, FinishedShape
<1> HIDE DEF q
<1>6. /\ req' \in [Handlers -> Requests] /\ req'[h] = q
      /\ \A g \in Handlers \ {h} : req'[g] = req[g]
  BY <1>1, <1>5 DEF IInv, Shape
<1>7. Shape'
  BY <1>1, <1>3, <1>6 DEF IInv, Shape
<1>8. ASSUME NEW g \in Handlers \ {h}
      PROVE  (AboutOK(req[g]) /\ InFlightOK(req[g]) /\ SigningOK(req[g]))'
  <2>0. req'[g] = req[g] /\ AboutOK(req[g]) /\ InFlightOK(req[g]) /\ SigningOK(req[g])
    BY <1>6, RequestAt
  <2>1. AboutOK(req[g])'
    BY <1>1, <2>0 DEF AboutOK
  <2>2. InFlightOK(req[g])'
    <3>1. Writing(req[g]) /\ s.sub = req[g].user => req[g].password \in s.crossed
      BY <1>3 DEF Writing, InFlight, At
    <3> QED BY <1>1, <2>0, <3>1 DEF InFlightOK, Writing
  <2>3. SigningOK(req[g])'
    BY <1>1, <2>0 DEF SigningOK, Signing
  <2> QED BY <2>1, <2>2, <2>3
<1>9. (AboutOK(req[h]) /\ InFlightOK(req[h]) /\ SigningOK(req[h]))'
  BY <1>1, <1>5, <1>6 DEF AboutOK, Acting, InFlightOK, Writing, SigningOK, Signing, Ended
<1>10. RequestsOK'
  BY <1>8, <1>9 DEF RequestsOK
<1>11. NoneAhead'
  BY <1>1, <1>3 DEF IInv, NoneAhead
<1>12. SessionOK(s)
  BY <1>1, <1>3 DEF SessionOK, SigningOK, Current
<1>13. SessionsOK'
  <2> SUFFICES ASSUME NEW x \in sessions' PROVE SessionOK(x)'
    BY DEF SessionsOK
  <2>1. SessionOK(x)
    BY <1>1, <1>12 DEF IInv, SessionsOK
  <2> QED BY <1>1, <2>1 DEF SessionOK, Current
<1> QED BY <1>7, <1>10, <1>11, <1>13 DEF IInv

-----------------------------------------------------------------------------
(* Nothing that a request is about changes as its history is brought up to  *)
(* date.                                                                    *)
Alike(q, r) ==
  /\ q.op = r.op /\ q.step = r.step /\ q.user = r.user /\ q.role = r.role
  /\ q.session = r.session /\ q.password = r.password /\ q.power = r.power
  /\ q.stamp = r.stamp

LEMMA WitnessShape ==
  ASSUME NEW R \in [Handlers -> Requests], NEW accounts, NEW g \in Handlers
  PROVE  LET q == Witnessed(R, accounts)[g] IN
         /\ q \in Requests /\ Alike(q, R[g]) /\ q.crossed = R[g].crossed
         /\ q.stood = (R[g].stood \/ Entitled(R[g], accounts))
<1> DEFINE e == R[g].stood \/ Entitled(R[g], accounts)
           q == [R[g] EXCEPT !.stood = e]
<1>1. R[g] \in Requests
  OBVIOUS
<1>2. e \in BOOLEAN
  BY <1>1, EntitledBoolean DEF Requests
<1>3. Witnessed(R, accounts)[g] = q
  BY DEF Witnessed
<1> HIDE DEF e
<1>4. q \in Requests /\ Alike(q, R[g]) /\ q.crossed = R[g].crossed /\ q.stood = e
  BY <1>1, <1>2 DEF Requests, Alike
<1> HIDE DEF q
<1> QED BY <1>3, <1>4 DEF e

LEMMA WitnessedShape ==
  ASSUME NEW R \in [Handlers -> Requests], NEW accounts
  PROVE  Witnessed(R, accounts) \in [Handlers -> Requests]
<1>1. \A g \in Handlers : Witnessed(R, accounts)[g] \in Requests
  BY WitnessShape
<1>2. Witnessed(R, accounts) = [g \in Handlers |-> Witnessed(R, accounts)[g]]
  BY DEF Witnessed
<1> QED BY <1>1, <1>2

LEMMA CrossingShape ==
  ASSUME req \in [Handlers -> Requests], NEW u, NEW p \in Nat
  PROVE  /\ Crossing(req, u, p) \in [Handlers -> Requests]
         /\ \A g \in Handlers :
              /\ Alike(Crossing(req, u, p)[g], req[g])
              /\ Crossing(req, u, p)[g].stood = req[g].stood
              /\ req[g].crossed \subseteq Crossing(req, u, p)[g].crossed
              /\ Signing(req[g]) /\ req[g].user = u => p \in Crossing(req, u, p)[g].crossed
<1>1. ASSUME NEW g \in Handlers
      PROVE  /\ Crossing(req, u, p)[g] \in Requests
             /\ Alike(Crossing(req, u, p)[g], req[g])
             /\ Crossing(req, u, p)[g].stood = req[g].stood
             /\ req[g].crossed \subseteq Crossing(req, u, p)[g].crossed
             /\ Signing(req[g]) /\ req[g].user = u => p \in Crossing(req, u, p)[g].crossed
  <2>1. req[g] \in Requests /\ req[g].crossed \cup {p} \subseteq Nat
    BY DEF Requests
  <2>2. CASE Signing(req[g]) /\ req[g].user = u
    <3> DEFINE q == [req[g] EXCEPT !.crossed = req[g].crossed \cup {p}]
    <3>1. /\ q \in Requests /\ Alike(q, req[g]) /\ q.stood = req[g].stood
          /\ q.crossed = req[g].crossed \cup {p}
      BY <2>1 DEF Requests, Alike
    <3>2. Crossing(req, u, p)[g] = q
      BY <2>2 DEF Crossing
    <3> HIDE DEF q
    <3> QED BY <2>2, <3>1, <3>2
  <2>3. CASE ~(Signing(req[g]) /\ req[g].user = u)
    <3>1. Crossing(req, u, p)[g] = req[g]
      BY <2>3 DEF Crossing
    <3> QED BY <2>1, <2>3, <3>1 DEF Alike
  <2> QED BY <2>2, <2>3
<1>2. Crossing(req, u, p) = [g \in Handlers |-> Crossing(req, u, p)[g]]
  BY DEF Crossing
<1> QED BY <1>1, <1>2

(* What the requests are once h has written its password. *)
LEMMA PasswordWriteRequests ==
  ASSUME IInv, NEW h \in Handlers, PasswordWrite(h)
  PROVE  /\ req' \in [Handlers -> Requests]
         /\ \A g \in Handlers \ {h} :
              /\ Alike(req'[g], req[g]) /\ req[g].crossed \subseteq req'[g].crossed
              /\ Signing(req[g]) /\ req[g].user = req[h].user =>
                   req[h].password \in req'[g].crossed
              /\ req'[g].stood = (req[g].stood \/ Entitled(req'[g], account'))
         /\ req'[h].session \in {None, req[h].session}
         /\ \/ Ended(req'[h])
            \/ /\ req'[h].step = "renew" /\ req'[h].user = req[h].user
               /\ req'[h].password = req[h].password
<1> DEFINE r == req[h]
           next == IF r.op = "password" THEN [r EXCEPT !.step = "renew"] ELSE Finished(h, r, "ok")
           C == Crossing(req, r.user, r.password)
           R == [C EXCEPT ![h] = next]
<1>1. req \in [Handlers -> Requests] /\ r \in Requests /\ r.password \in Nat
  BY DEF IInv, Shape, Requests
<1>2. /\ next \in Requests /\ next.session \in {None, r.session}
      /\ \/ Ended(next)
         \/ next.step = "renew" /\ next.user = r.user /\ next.password = r.password
  <2>1. CASE r.op = "password"
    <3>1. "renew" \in Steps
      BY DEF Steps
    <3> QED BY <1>1, <2>1, <3>1, StepShape
  <2>2. CASE r.op # "password"
    BY <1>1, <2>2, FinishedShape
  <2> QED BY <2>1, <2>2
<1>3. req' = Witnessed(R, account')
  BY DEF PasswordWrite, PasswordWriteWith
<1>4. C \in [Handlers -> Requests]
  BY <1>1, CrossingShape
<1> HIDE DEF next
<1>5. R \in [Handlers -> Requests] /\ R[h] = next
  BY <1>2, <1>4
<1>6. req' \in [Handlers -> Requests]
  BY <1>3, <1>5, WitnessedShape
<1>7. Alike(req'[h], next)
  BY <1>3, <1>5, WitnessShape
<1>8. ASSUME NEW g \in Handlers \ {h}
      PROVE  /\ Alike(req'[g], req[g]) /\ req[g].crossed \subseteq req'[g].crossed
             /\ Signing(req[g]) /\ req[g].user = r.user => r.password \in req'[g].crossed
             /\ req'[g].stood = (req[g].stood \/ Entitled(req'[g], account'))
  <2>1. R[g] = C[g]
    BY <1>4
  <2> HIDE DEF R
  <2>2. /\ Alike(req'[g], R[g]) /\ req'[g].crossed = R[g].crossed
        /\ req'[g].stood = (R[g].stood \/ Entitled(R[g], account'))
    BY <1>3, <1>5, WitnessShape
  <2>3. /\ Alike(C[g], req[g]) /\ C[g].stood = req[g].stood
        /\ req[g].crossed \subseteq C[g].crossed
        /\ Signing(req[g]) /\ req[g].user = r.user => r.password \in C[g].crossed
    BY <1>1, CrossingShape
  <2> HIDE DEF C
  <2>4. Alike(req'[g], req[g])
    BY <2>1, <2>2, <2>3 DEF Alike
  <2>5. Entitled(R[g], account') <=> Entitled(req'[g], account')
    BY <2>2 DEF Alike, Entitled
  <2>6. req'[g].stood = (req[g].stood \/ Entitled(req'[g], account'))
    BY <2>1, <2>2, <2>3, <2>5, EntitledBoolean
  <2>7. /\ req[g].crossed \subseteq req'[g].crossed
        /\ Signing(req[g]) /\ req[g].user = r.user => r.password \in req'[g].crossed
    BY <2>1, <2>2, <2>3
  <2> QED BY <2>4, <2>6, <2>7
<1>9. /\ req'[h].session \in {None, r.session}
      /\ \/ Ended(req'[h])
         \/ /\ req'[h].step = "renew" /\ req'[h].user = r.user
            /\ req'[h].password = r.password
  BY <1>2, <1>7 DEF Alike, Ended
<1> QED BY <1>6, <1>8, <1>9

LEMMA PasswordWriteAccount ==
  ASSUME IInv, NEW h \in Handlers, PasswordWrite(h)
  PROVE  LET u == req[h].user IN
         /\ account' \in [Users -> Rows]
         /\ \A v \in Users : v # u => account'[v] = account[v]
         /\ u \in Users /\ account'[u].exists = account[u].exists
         /\ account[u].exists => /\ account'[u].password = req[h].password
                                 /\ account'[u].changedAt = req[h].stamp
<1> DEFINE u == req[h].user
           a == account[u]
           row == [a EXCEPT !.password = req[h].password, !.changedAt = req[h].stamp]
<1>1. /\ account \in [Users -> Rows] /\ u \in Users /\ a \in Rows
      /\ req[h].password \in Nat /\ req[h].stamp \in Nat
  BY RequestAt DEF IInv, Shape, Requests, AboutOK, Acting, InFlightOK, Writing, PasswordWrite,
                   PasswordWriteWith, At
<1>2. /\ row \in Rows /\ row.exists = a.exists /\ row.password = req[h].password
      /\ row.changedAt = req[h].stamp
  BY <1>1 DEF Rows
<1>3. account' = IF a.exists THEN [account EXCEPT ![u] = row] ELSE account
  BY DEF PasswordWrite, PasswordWriteWith, Update
<1> HIDE DEF row
<1> QED BY <1>1, <1>2, <1>3

(* A session is left that has the new password, has crossed it, is of the   *)
(* second of the change, or is refused from now on.                         *)
LEMMA PasswordWriteStep ==
  ASSUME IInv, NEW h \in Handlers, PasswordWrite(h), cookie' = cookie
  PROVE  IInv'
<1> DEFINE u == req[h].user
           p == req[h].password
           t == req[h].stamp
<1>1. /\ req[h] \in Requests /\ Writing(req[h]) /\ u \in Users /\ p \in Nat /\ t \in Nat
      /\ req[h].session \in {None} \cup sessions
      /\ UNCHANGED <<scene, now, sessions, passwords>>
  BY RequestAt DEF PasswordWrite, PasswordWriteWith, At, Writing, AboutOK, Acting, InFlightOK,
                   Requests
<1>2. \A s \in sessions : s.sub = u /\ s.iat > Second(t) => p \in s.crossed
  BY <1>1, RequestAt DEF InFlightOK
<1>3. /\ account' \in [Users -> Rows]
      /\ \A v \in Users : v # u => account'[v] = account[v]
      /\ account'[u].exists = account[u].exists
      /\ account[u].exists => account'[u].password = p /\ account'[u].changedAt = t
      /\ ~account[u].exists => ~account'[u].exists
  BY PasswordWriteAccount
<1>4. /\ req' \in [Handlers -> Requests]
      /\ \A g \in Handlers \ {h} :
           /\ Alike(req'[g], req[g]) /\ req[g].crossed \subseteq req'[g].crossed
           /\ Signing(req[g]) /\ req[g].user = u => p \in req'[g].crossed
      /\ req'[h].session \in {None, req[h].session}
      /\ \/ Ended(req'[h])
         \/ req'[h].step = "renew" /\ req'[h].user = u /\ req'[h].password = p
  BY PasswordWriteRequests
<1> HIDE DEF u, p, t
<1>5. Shape'
  BY <1>1, <1>3, <1>4 DEF IInv, Shape
<1>6. ASSUME NEW g \in Handlers \ {h}
      PROVE  (AboutOK(req[g]) /\ InFlightOK(req[g]) /\ SigningOK(req[g]))'
  <2>0. /\ AboutOK(req[g]) /\ InFlightOK(req[g]) /\ SigningOK(req[g])
        /\ Alike(req'[g], req[g]) /\ req[g].crossed \subseteq req'[g].crossed
    BY <1>4, RequestAt
  <2>1. AboutOK(req[g])'
    BY <1>1, <2>0 DEF AboutOK, Alike
  <2>2. InFlightOK(req[g])'
    BY <1>1, <2>0 DEF InFlightOK, Writing, Alike
  <2>3. SigningOK(req[g])'
    <3> SUFFICES ASSUME Signing(req'[g]), account'[req'[g].user].exists
                 PROVE  \/ req'[g].password = account'[req'[g].user].password
                        \/ account'[req'[g].user].password \in req'[g].crossed
      BY DEF SigningOK, Signing
    <3>1. /\ Signing(req[g]) /\ req'[g].user = req[g].user /\ req'[g].password = req[g].password
          /\ req[g].user \in Users
      BY <2>0 DEF Signing, Alike, AboutOK, Acting
    <3>2. CASE req[g].user = u
      BY <1>3, <1>4, <3>1, <3>2
    <3>3. CASE req[g].user # u
      BY <1>3, <2>0, <3>1, <3>3 DEF SigningOK
    <3> QED BY <3>2, <3>3
  <2> QED BY <2>1, <2>2, <2>3
<1>7. (AboutOK(req[h]) /\ InFlightOK(req[h]) /\ SigningOK(req[h]))'
  <2>1. AboutOK(req[h])'
    BY <1>1, <1>4 DEF AboutOK, Acting, Ended
  <2>2. InFlightOK(req[h])'
    BY <1>4 DEF InFlightOK, Writing, Ended
  <2>3. SigningOK(req[h])'
    BY <1>3, <1>4 DEF SigningOK, Signing, Ended
  <2> QED BY <2>1, <2>2, <2>3
<1>8. RequestsOK'
  BY <1>6, <1>7 DEF RequestsOK
<1>9. NoneAhead'
  BY <1>1 DEF IInv, NoneAhead
<1>10. SessionsOK'
  <2> SUFFICES ASSUME NEW s \in sessions PROVE SessionOK(s)'
    BY <1>1 DEF SessionsOK
  <2>1. SessionOK(s) /\ s.sub \in Users /\ s.iat \in Nat
    BY DEF IInv, Shape, SessionsOK, Tokens
  <2>2. CASE s.sub # u \/ ~account[u].exists
    <3>1. account'[s.sub] = account[s.sub] \/ ~account'[s.sub].exists
      BY <1>3, <2>1, <2>2
    <3> QED BY <2>1, <3>1 DEF SessionOK, Current
  <2>3. CASE s.sub = u /\ account[u].exists
    <3>1. Second(t) \in Nat
      BY <1>1, SecondType DEF t
    <3>2. account'[u].changedAt = t /\ account'[u].password = p /\ t # Never
      BY <1>1, <1>3, <2>3 DEF Never, t
    <3>3. Second(t) <= s.iat => s.iat = Second(t) \/ p \in s.crossed
      BY <1>2, <2>1, <2>3, <3>1
    <3> QED BY <2>3, <3>2, <3>3 DEF SessionOK, Current
  <2> QED BY <2>2, <2>3
<1> QED BY <1>5, <1>8, <1>9, <1>10 DEF IInv

(* Roles, bans and deletions leave passwords alone. *)
LEMMA ChangeRequests ==
  ASSUME req \in [Handlers -> Requests], NEW h \in Handlers, NEW row, Change(h, row)
  PROVE  /\ req' \in [Handlers -> Requests]
         /\ \A g \in Handlers \ {h} :
              /\ Alike(req'[g], req[g]) /\ req'[g].crossed = req[g].crossed
              /\ req'[g].stood = (req[g].stood \/ Entitled(req'[g], account'))
         /\ Ended(req'[h]) /\ req'[h].session \in {None, req[h].session}
<1> DEFINE next == Finished(h, req[h], "ok")
           R == [req EXCEPT ![h] = next]
<1>1. next \in Requests /\ Ended(next) /\ next.session \in {None, req[h].session}
  BY FinishedShape
<1>2. req' = Witnessed(R, account')
  BY DEF Change
<1> HIDE DEF next
<1>3. /\ R \in [Handlers -> Requests] /\ R[h] = next
      /\ \A g \in Handlers \ {h} : R[g] = req[g]
  BY <1>1
<1> HIDE DEF R
<1>4. req' \in [Handlers -> Requests]
  BY <1>2, <1>3, WitnessedShape
<1>5. \A g \in Handlers : /\ Alike(req'[g], R[g]) /\ req'[g].crossed = R[g].crossed
                          /\ req'[g].stood = (R[g].stood \/ Entitled(R[g], account'))
  BY <1>2, <1>3, WitnessShape
<1>6. Ended(req'[h]) /\ req'[h].session \in {None, req[h].session}
  BY <1>1, <1>3, <1>5 DEF Alike, Ended
<1>7. ASSUME NEW g \in Handlers \ {h}
      PROVE  req'[g].stood = (req[g].stood \/ Entitled(req'[g], account'))
  <2>1. Alike(req'[g], req[g]) /\ req'[g].crossed = req[g].crossed
    BY <1>3, <1>5
  <2>2. Entitled(req[g], account') <=> Entitled(req'[g], account')
    BY <2>1 DEF Alike, Entitled
  <2> QED BY <1>3, <1>5, <2>2, EntitledBoolean
<1> QED BY <1>3, <1>4, <1>5, <1>6, <1>7

LEMMA ChangeStep ==
  ASSUME IInv, NEW h \in Handlers, AssignRole(h) \/ SetBanStatus(h) \/ DeleteAccount(h),
         cookie' = cookie
  PROVE  IInv'
<1> DEFINE u == req[h].user
           a == account[u]
<1>1. /\ req[h] \in Requests /\ u \in Users /\ a \in Rows /\ req[h].role \in Roles
      /\ account \in [Users -> Rows] /\ req[h].session \in {None} \cup sessions
  BY RequestAt DEF AssignRole, SetBanStatus, DeleteAccount, At, AboutOK, Acting, Requests,
                   IInv, Shape
<1>2. \E row \in Rows : /\ Change(h, row)
                        /\ row.password = a.password /\ row.changedAt = a.changedAt
                        /\ row.exists => a.exists
  <2>1. CASE AssignRole(h)
    <3> DEFINE row == [a EXCEPT !.role = req[h].role]
    <3>1. row \in Rows /\ row.password = a.password /\ row.changedAt = a.changedAt
          /\ row.exists = a.exists
      BY <1>1 DEF Rows
    <3>2. Change(h, row)
      BY <2>1 DEF AssignRole
    <3> HIDE DEF row
    <3> QED BY <3>1, <3>2
  <2>2. CASE SetBanStatus(h)
    <3> DEFINE row == [a EXCEPT !.banned = (req[h].op = "ban")]
    <3>1. row \in Rows /\ row.password = a.password /\ row.changedAt = a.changedAt
          /\ row.exists = a.exists
      BY <1>1 DEF Rows
    <3>2. Change(h, row)
      BY <2>2 DEF SetBanStatus
    <3> HIDE DEF row
    <3> QED BY <3>1, <3>2
  <2>3. CASE DeleteAccount(h)
    <3> DEFINE row == [a EXCEPT !.exists = FALSE]
    <3>1. row \in Rows /\ row.password = a.password /\ row.changedAt = a.changedAt
          /\ row.exists = FALSE
      BY <1>1 DEF Rows
    <3>2. Change(h, row)
      BY <2>3 DEF DeleteAccount
    <3> HIDE DEF row
    <3> QED BY <3>1, <3>2
  <2> QED BY <2>1, <2>2, <2>3
<1>3. PICK row \in Rows : /\ Change(h, row)
                          /\ row.password = a.password /\ row.changedAt = a.changedAt
                          /\ row.exists => a.exists
  BY <1>2
<1>4. /\ UNCHANGED <<scene, now, sessions, passwords>>
      /\ account' = IF a.exists THEN [account EXCEPT ![u] = row] ELSE account
  BY <1>3 DEF Change, Update
<1>5. /\ req' \in [Handlers -> Requests]
      /\ \A g \in Handlers \ {h} :
           Alike(req'[g], req[g]) /\ req'[g].crossed = req[g].crossed
      /\ Ended(req'[h]) /\ req'[h].session \in {None, req[h].session}
  BY <1>3, ChangeRequests DEF IInv, Shape
<1>6. /\ account' \in [Users -> Rows]
      /\ \A v \in Users : /\ account'[v].password = account[v].password
                          /\ account'[v].changedAt = account[v].changedAt
                          /\ account'[v].exists => account[v].exists
  BY <1>1, <1>3, <1>4
<1>7. Shape'
  BY <1>4, <1>5, <1>6 DEF IInv, Shape
<1>8. ASSUME NEW g \in Handlers
      PROVE  (AboutOK(req[g]) /\ InFlightOK(req[g]) /\ SigningOK(req[g]))'
  <2>1. CASE g = h
    BY <1>1, <1>4, <1>5, <2>1
       DEF AboutOK, Acting, InFlightOK, Writing, SigningOK, Signing, Ended
  <2>2. CASE g # h
    <3>1. /\ AboutOK(req[g]) /\ InFlightOK(req[g]) /\ SigningOK(req[g])
          /\ Alike(req'[g], req[g]) /\ req'[g].crossed = req[g].crossed
      BY <1>5, <2>2, RequestAt
    <3>2. AboutOK(req[g])'
      BY <1>4, <3>1 DEF AboutOK, Alike
    <3>3. InFlightOK(req[g])'
      BY <1>4, <3>1 DEF InFlightOK, Writing, Alike
    <3>4. SigningOK(req[g])'
      BY <1>6, <3>1 DEF SigningOK, Signing, Alike, AboutOK, Acting
    <3> QED BY <3>2, <3>3, <3>4
  <2> QED BY <2>1, <2>2
<1>9. RequestsOK'
  BY <1>8 DEF RequestsOK
<1>10. NoneAhead'
  BY <1>4 DEF IInv, NoneAhead
<1>11. SessionsOK'
  <2> SUFFICES ASSUME NEW s \in sessions PROVE SessionOK(s)'
    BY <1>4 DEF SessionsOK
  <2>1. SessionOK(s) /\ s.sub \in Users
    BY DEF IInv, Shape, SessionsOK, Tokens
  <2> QED BY <1>6, <2>1 DEF SessionOK, Current
<1> QED BY <1>7, <1>9, <1>10, <1>11 DEF IInv

LEMMA TickStep ==
  ASSUME IInv, Tick, cookie' = cookie
  PROVE  IInv'
<1>1. now \in Nat /\ now' = now + 1 /\ UNCHANGED <<scene, account, sessions, req, passwords>>
  BY DEF Tick, IInv, Shape
<1>2. Shape'
  BY <1>1 DEF IInv, Shape
<1>3. RequestsOK'
  BY <1>1 DEF IInv, RequestsOK, AboutOK, InFlightOK, Writing, SigningOK, Signing
<1>4. NoneAhead'
  <2>1. Second(now) <= Second(now + 1) /\ Second(now) \in Nat /\ Second(now + 1) \in Nat
    BY <1>1, SecondType, SecondGrows
  <2>2. \A s \in sessions : s.iat \in Nat /\ s.iat <= Second(now)
    BY DEF IInv, Shape, Tokens, NoneAhead
  <2> HIDE DEF Second
  <2>3. \A s \in sessions : s.iat <= Second(now + 1)
    BY <2>1, <2>2
  <2>4. Second(now)' = Second(now + 1)
    BY <1>1 DEF Second
  <2> QED BY <1>1, <2>3, <2>4 DEF NoneAhead
<1>5. SessionsOK'
  BY <1>1 DEF IInv, SessionsOK, SessionOK, Current
<1> QED BY <1>2, <1>3, <1>4, <1>5 DEF IInv

LEMMA ServeStep ==
  ASSUME IInv, NEW h \in Handlers, Serve(h), cookie' = cookie
  PROVE  IInv'
BY GuardStep, LoginReadStep, PasswordReadStep, StampStep, PasswordWriteStep, RenewStep, SignStep,
   AdminReadStep, ChangeStep DEF Serve

-----------------------------------------------------------------------------
(* The tab. *)
LEMMA GuardedShape ==
  ASSUME IInv, NEW op \in Ops, NEW p \in Nat
  PROVE  LET r == Guarded(op, p) IN
         r \in Requests /\ AboutOK(r) /\ r.step \in {"guard", "read", "ok"}
<1> DEFINE u == IF cookie = None THEN None ELSE cookie.sub
           r == Request(op, "guard", u, "user", cookie, p)
<1>1. /\ cookie \in {None} \cup sessions /\ cookie \in Tokens \cup {None}
      /\ u \in Users \cup {None} /\ (cookie # None => u \in Users)
  BY DEF IInv, Shape, Tokens
<1>2. "guard" \in Steps /\ "user" \in Roles
  BY DEF Steps, Roles
<1> HIDE DEF u
<1>3. r \in Requests /\ r.step = "guard" /\ r.user = u /\ r.session = cookie
  BY <1>1, <1>2 DEF Request, Requests
<1> HIDE DEF r
<1>4. AboutOK(r)
  BY <1>1, <1>3 DEF AboutOK, Acting
<1> QED BY <1>3, <1>4 DEF Guarded, r, u

LEMMA AskStep ==
  ASSUME IInv, NEW r \in Requests, Ask(r), AboutOK(r), r.step \in {"guard", "read", "ok"},
         cookie' = cookie
  PROVE  IInv'
<1>1. PICK h \in Watched : Asks(h, r)
  BY DEF Ask
<1>2. h \in Handlers
  BY SessionsAssumption
<1> QED BY <1>1, <1>2, AsksStep

LEMMA AskSteps ==
  ASSUME IInv, Restore \/ Refresh \/ Login \/ Logout \/ ChangePassword \/ DeleteMe
  PROVE  IInv'
<1>0. /\ {"me", "login", "logout", "password", "delete"} \subseteq Ops /\ "user" \in Roles
      /\ {"read", "ok"} \subseteq Steps /\ 0 \in Nat
  BY DEF Ops, Roles, Steps
<1>1. CASE Restore \/ Refresh
  <2>1. Ask(Guarded("me", 0)) /\ cookie' = cookie
    BY <1>1 DEF Restore, Refresh
  <2> QED BY <1>0, <2>1, GuardedShape, AskStep
<1>2. CASE Login
  <2>1. PICK u \in Users : Ask(Request("login", "read", u, "user", None, account[u].password))
    BY <1>2 DEF Login
  <2> DEFINE r == Request("login", "read", u, "user", None, account[u].password)
  <2>2. account[u].password \in Nat
    BY DEF IInv, Shape, Rows
  <2>3. r \in Requests /\ r.step = "read" /\ r.user = u /\ r.session = None
    BY <1>0, <2>2 DEF Request, Requests
  <2>4. Ask(r) /\ cookie' = cookie
    BY <1>2, <2>1 DEF Login
  <2> HIDE DEF r
  <2>5. AboutOK(r)
    BY <2>3 DEF AboutOK
  <2> QED BY <2>3, <2>4, <2>5, AskStep
<1>3. CASE Logout
  <2> DEFINE r == Request("logout", "ok", None, "user", None, 0)
  <2>1. r \in Requests /\ r.step = "ok" /\ r.session = None
    BY <1>0 DEF Request, Requests
  <2>2. Ask(r) /\ cookie' = cookie
    BY <1>3 DEF Logout
  <2> HIDE DEF r
  <2>3. AboutOK(r)
    BY <2>1 DEF AboutOK, Acting
  <2> QED BY <2>1, <2>2, <2>3, AskStep
<1>4. CASE ChangePassword
  <2> DEFINE p == IF cookie = None THEN 0 ELSE account[cookie.sub].password
  <2>1. p \in Nat
    BY DEF IInv, Shape, Rows, Tokens
  <2>2. Ask(Guarded("password", p)) /\ cookie' = cookie
    BY <1>4 DEF ChangePassword
  <2> HIDE DEF p
  <2> QED BY <1>0, <2>1, <2>2, GuardedShape, AskStep
<1>5. CASE DeleteMe
  <2>1. Ask(Guarded("delete", 0)) /\ cookie' = cookie
    BY <1>5 DEF DeleteMe
  <2> QED BY <1>0, <2>1, GuardedShape, AskStep
<1> QED BY <1>1, <1>2, <1>3, <1>4, <1>5

LEMMA AnsweredStep ==
  ASSUME IInv, NEW h \in Watched, NEW op, NEW step, Answered(h, op, step),
         cookie' \in {None, cookie, req[h].session}
  PROVE  IInv'
<1>1. h \in Handlers
  BY SessionsAssumption
<1>2. req[h].session \in {None} \cup sessions /\ cookie \in {None} \cup sessions
      /\ passwords \in Nat
  BY <1>1, RequestAt DEF IInv, Shape
<1>3. Quiet(h, Idle)
  BY <1>2, IdleShape DEF Quiet, Answered
<1> QED BY <1>1, <1>3, IdleShape, EndedStep DEF Ended

LEMMA LostStep ==
  ASSUME IInv, NEW h \in Watched, Lost(h)
  PROVE  IInv'
<1>1. h \in Handlers
  BY SessionsAssumption
<1>2. req[h] \in Requests /\ req[h].session \in {None} \cup sessions
  BY <1>1, RequestAt
<1>3. /\ req' = [req EXCEPT ![h] = Finished(h, req[h], "refused")]
      /\ UNCHANGED <<scene, now, account, sessions, passwords, cookie>>
  BY DEF Lost, tabVars
<1> QED BY <1>1, <1>2, <1>3, FinishStep

LEMMA SameStep ==
  ASSUME IInv, UNCHANGED <<scene, now, account, sessions, req, passwords, cookie>>
  PROVE  IInv'
<1>1. Shape'
  BY DEF IInv, Shape
<1>2. RequestsOK'
  BY DEF IInv, RequestsOK, AboutOK, InFlightOK, Writing, SigningOK, Signing
<1>3. NoneAhead'
  BY DEF IInv, NoneAhead
<1>4. SessionsOK'
  BY DEF IInv, SessionsOK, SessionOK, Current
<1> QED BY <1>1, <1>2, <1>3, <1>4 DEF IInv

LEMMA TabStep ==
  ASSUME IInv, TabNext
  PROVE  IInv'
<1>1. CASE Restore \/ Refresh \/ Login \/ Logout \/ ChangePassword \/ DeleteMe
  BY <1>1, AskSteps
<1>2. CASE Reload \/ \E p \in Pages : Navigate(p)
  BY <1>2, SameStep DEF Reload, Navigate, serverVars
<1>3. CASE \E h \in Watched : Lost(h)
  BY <1>3, LostStep
<1>4. ASSUME NEW h \in Watched,
             \/ LoginAnswer(h) \/ MeAnswer(h) \/ MeFails(h) \/ LogoutAnswer(h) \/ LogoutFails(h)
             \/ PasswordAnswer(h) \/ DeleteAnswer(h) \/ Refused(h)
      PROVE  IInv'
  <2>1. \E op, step : Answered(h, op, step)
    BY <1>4 DEF LoginAnswer, MeAnswer, MeFails, LogoutAnswer, LogoutFails, PasswordAnswer,
                DeleteAnswer, Refused
  <2>2. cookie' \in {None, cookie, req[h].session}
    BY <1>4 DEF LoginAnswer, MeAnswer, MeFails, LogoutAnswer, LogoutFails, PasswordAnswer,
                DeleteAnswer, Refused
  <2> QED BY <2>1, <2>2, AnsweredStep
<1> QED BY <1>1, <1>2, <1>3, <1>4 DEF TabNext

-----------------------------------------------------------------------------
LEMMA InitInv == Init => IInv
<1> SUFFICES ASSUME Init PROVE IInv
  OBVIOUS
<1>1. scene \in Scene /\ scene.roles \in [Users -> Roles] /\ now = 0 /\ passwords = 0
      /\ cookie \in {None} \cup sessions
  BY SessionsAssumption DEF Init, SessionsInit, Scene
<1>2. /\ account = [u \in Users |-> [exists |-> TRUE, banned |-> FALSE, role |-> scene.roles[u],
                                     password |-> 0, changedAt |-> Never]]
      /\ sessions = {Session(u, 0, scene.roles[u], 0, {}) : u \in Users}
      /\ req = [h \in Handlers |-> Idle]
  BY DEF Init, SessionsInit
<1>3. account \in [Users -> Rows]
  BY <1>1, <1>2 DEF Rows
<1>4. \A s \in sessions : s \in Tokens /\ s.iat = 0 /\ s.password = 0 /\ s.sub \in Users
  BY <1>1, <1>2 DEF Session, Tokens
<1>5. req \in [Handlers -> Requests] /\ \A h \in Handlers : req[h] = Idle
  BY <1>2, IdleShape
<1>6. Shape
  BY <1>1, <1>3, <1>4, <1>5 DEF Shape
<1>7. RequestsOK
  BY <1>5, IdleShape DEF RequestsOK, AboutOK, Acting, InFlightOK, Writing, SigningOK, Signing
<1>8. NoneAhead
  <2>1. Second(now) \in Nat
    BY <1>1, SecondType
  <2> QED BY <1>4, <2>1 DEF NoneAhead
<1>9. SessionsOK
  BY <1>2, <1>4 DEF SessionsOK, SessionOK, Current
<1> QED BY <1>6, <1>7, <1>8, <1>9 DEF IInv

LEMMA NextInv == IInv /\ [Next]_vars => IInv'
<1> SUFFICES ASSUME IInv, [Next]_vars PROVE IInv'
  OBVIOUS
<1>1. CASE SessionsNext /\ UNCHANGED tabVars
  <2>1. cookie' = cookie
    BY <1>1 DEF tabVars
  <2> QED BY <1>1, <2>1, TickStep, CallStep, ServeStep DEF SessionsNext
<1>2. CASE TabNext
  BY <1>2, TabStep
<1>3. CASE UNCHANGED vars
  BY <1>3, SameStep DEF vars, serverVars, tabVars
<1> QED BY <1>1, <1>2, <1>3 DEF Next

LEMMA Invariance == Spec => []IInv
BY InitInv, NextInv, PTL DEF Spec

(* An accepted session is a current one. *)
LEMMA AcceptedIsCurrent ==
  ASSUME IInv, NEW s \in sessions, Accepts(s)
  PROVE  LET a == account[s.sub] IN a.exists /\ ~a.banned /\ Current(s, a)
<1> DEFINE a == account[s.sub]
<1>1. SessionOK(s) /\ a \in Rows /\ s.iat \in Nat
  BY DEF IInv, Shape, SessionsOK, Tokens
<1>2. a.exists /\ ~a.banned /\ ~(a.changedAt # Never /\ Second(a.changedAt) > s.iat)
  BY DEF Accepts
<1>3. a.changedAt = Never \/ Second(a.changedAt) <= s.iat
  <2>1. CASE a.changedAt = Never
    BY <2>1
  <2>2. CASE a.changedAt # Never
    <3>1. a.changedAt \in Nat
      BY <1>1, <2>2 DEF Rows
    <3>2. Second(a.changedAt) \in Nat
      BY <3>1, SecondType
    <3> HIDE DEF Second
    <3> QED BY <1>1, <1>2, <2>2, <3>2
  <2> QED BY <2>1, <2>2
<1> QED BY <1>1, <1>2, <1>3 DEF SessionOK

(* A session from before a change of password is refused once the change is *)
(* written: JwtStrategy.validate compares the moments it must.              *)
THEOREM OldSessionsEnd == Spec => []OldPasswordSessionsEnd
<1>1. IInv => OldPasswordSessionsEnd
  BY AcceptedIsCurrent DEF OldPasswordSessionsEnd
<1> QED BY <1>1, Invariance, PTL

-----------------------------------------------------------------------------
(* Rights.  The guard lets a request through that was entitled to what it   *)
(* asks for when the guard read the account, but for a plain admin who      *)
(* would appoint an admin; the handler sees to that one.                    *)
Overreaches(r) == r.op = "role" /\ r.role \in Admins /\ r.power # "super_admin"

StoodOK(r) ==
  /\ r.step = "guard" => (Entitled(r, account) => r.stood)
  /\ r.step = "read" => r.stood \/ Overreaches(r)
  /\ r.step \in {"stamp", "write"} => r.stood

AllStood == \A h \in Handlers : StoodOK(req[h])

LEMMA StoodElsewhere ==
  ASSUME IInv, AllStood, NEW h \in Handlers, NEW q, req' = [req EXCEPT ![h] = q],
         account' = account, StoodOK(q)
  PROVE  AllStood'
<1>1. req'[h] = q /\ \A g \in Handlers \ {h} : req'[g] = req[g]
  BY DEF IInv, Shape
<1> SUFFICES ASSUME NEW g \in Handlers PROVE StoodOK(req[g])'
  BY DEF AllStood
<1>2. StoodOK(req'[g])
  BY <1>1 DEF AllStood
<1> QED BY <1>2 DEF StoodOK, Entitled, Current

LEMMA StoodFinished ==
  ASSUME IInv, AllStood, NEW h \in Handlers, NEW r \in Requests, NEW answer \in {"ok", "refused"},
         req' = [req EXCEPT ![h] = Finished(h, r, answer)], account' = account
  PROVE  AllStood'
<1> DEFINE q == Finished(h, r, answer)
<1>1. Ended(q)
  BY FinishedShape
<1> HIDE DEF q
<1>2. StoodOK(q)
  BY <1>1 DEF StoodOK, Ended
<1> QED BY <1>2, StoodElsewhere DEF q

LEMMA StoodAsks ==
  ASSUME IInv, AllStood, NEW h \in Handlers, NEW r \in Requests, Asks(h, r),
         r.step = "guard" \/ r.step = "ok" \/ (r.step = "read" /\ r.session = None)
  PROVE  AllStood'
<1> DEFINE e == Entitled(r, account)
           q == [r EXCEPT !.stood = e]
<1>1. e \in BOOLEAN /\ (r.session = None => e)
  BY EntitledBoolean DEF Entitled
<1>2. req' = [req EXCEPT ![h] = q] /\ account' = account
  BY DEF Asks
<1>3. q.step = r.step /\ q.stood = e
  BY DEF Requests
<1>4. Entitled(q, account) <=> Entitled(r, account)
  <2>1. q.op = r.op /\ q.role = r.role /\ q.session = r.session
    BY DEF Requests
  <2> HIDE DEF q
  <2> QED BY <2>1 DEF Entitled
<1> HIDE DEF q
<1>5. StoodOK(q)
  BY <1>1, <1>3, <1>4 DEF StoodOK
<1> QED BY <1>2, <1>5, StoodElsewhere

LEMMA StoodCall ==
  ASSUME IInv, AllStood, NEW h \in Handlers, Call(h)
  PROVE  AllStood'
<1>1. PICK op \in scene.calls \ {"logout"}, u \in Users, role \in Roles, s \in sessions :
        \E p \in 0..passwords :
          IF op \in {"login", "reset"}
          THEN Asks(h, Request(op, "read", u, role, None, p))
          ELSE Asks(h, Request(op, "guard", u, role, s, p))
  BY DEF Call
<1>2. PICK p \in 0..passwords :
          IF op \in {"login", "reset"}
          THEN Asks(h, Request(op, "read", u, role, None, p))
          ELSE Asks(h, Request(op, "guard", u, role, s, p))
  BY <1>1
<1>3. op \in Ops /\ p \in Nat /\ s \in Tokens /\ {"read", "guard"} \subseteq Steps
  BY DEF IInv, Shape, Scene, Steps
<1>4. CASE Asks(h, Request(op, "read", u, role, None, p))
  <2> DEFINE r == Request(op, "read", u, role, None, p)
  <2>1. r \in Requests /\ r.step = "read" /\ r.session = None
    BY <1>3 DEF Request, Requests, Roles
  <2> HIDE DEF r
  <2> QED BY <1>4, <2>1, StoodAsks DEF r
<1>5. CASE Asks(h, Request(op, "guard", u, role, s, p))
  <2> DEFINE r == Request(op, "guard", u, role, s, p)
  <2>1. r \in Requests /\ r.step = "guard"
    BY <1>3 DEF Request, Requests, Roles
  <2> HIDE DEF r
  <2> QED BY <1>5, <2>1, StoodAsks DEF r
<1> QED BY <1>2, <1>4, <1>5

LEMMA StoodGuard ==
  ASSUME IInv, AllStood, NEW h \in Handlers, Guard(h)
  PROVE  AllStood'
<1> DEFINE r == req[h]
           s == r.session
           role == account[s.sub].role
<1>1. /\ r \in Requests /\ s \in {None} \cup sessions /\ r.step = "guard" /\ StoodOK(r)
      /\ account' = account
  BY RequestAt DEF Guard, AllStood
<1>2. CASE Finish(h, "refused")
  BY <1>1, <1>2, StoodFinished DEF Finish
<1>3. CASE /\ s # None /\ Accepts(s) /\ (r.op \in AdminOps => role \in Admins)
           /\ req' = [req EXCEPT ![h] =
                        IF r.op = "me" THEN Finished(h, [r EXCEPT !.power = role], "ok")
                        ELSE [r EXCEPT !.power = role, !.step = "read"]]
  <2>1. role \in Roles /\ s \in sessions
    BY <1>1, <1>3 DEF IInv, Shape, Tokens, Rows
  <2>2. account[s.sub].exists /\ ~account[s.sub].banned /\ Current(s, account[s.sub])
    BY <1>3, <2>1, AcceptedIsCurrent
  <2>3. r.stood \/ (r.op = "role" /\ r.role \in Admins /\ role # "super_admin")
    BY <1>1, <1>3, <2>2 DEF StoodOK, Entitled
  <2> HIDE DEF role
  <2>4. CASE r.op = "me"
    <3> DEFINE q == [r EXCEPT !.power = role]
    <3>1. q \in Requests
      BY <1>1, <2>1 DEF Requests
    <3>2. req' = [req EXCEPT ![h] = Finished(h, q, "ok")]
      BY <1>3, <2>4
    <3> HIDE DEF q
    <3> QED BY <1>1, <3>1, <3>2, StoodFinished
  <2>5. CASE r.op # "me"
    <3> DEFINE q == [r EXCEPT !.power = role, !.step = "read"]
    <3>1. /\ q.step = "read" /\ q.stood = r.stood /\ q.op = r.op /\ q.role = r.role
          /\ q.power = role
      BY <1>1 DEF Requests
    <3>2. req' = [req EXCEPT ![h] = q]
      BY <1>3, <2>5
    <3> HIDE DEF q
    <3>3. StoodOK(q)
      BY <2>3, <3>1 DEF StoodOK, Overreaches
    <3> QED BY <1>1, <3>2, <3>3, StoodElsewhere
  <2> QED BY <2>4, <2>5
<1> QED BY <1>2, <1>3 DEF Guard

LEMMA StoodReads ==
  ASSUME IInv, AllStood, NEW h \in Handlers,
         LoginRead(h) \/ PasswordRead(h) \/ Stamp(h) \/ Renew(h) \/ Sign(h) \/ AdminRead(h)
  PROVE  AllStood'
<1> DEFINE r == req[h]
<1>1. r \in Requests /\ StoodOK(r) /\ account' = account
  BY RequestAt DEF AllStood, LoginRead, PasswordRead, Stamp, Renew, Sign, AdminRead
<1>2. CASE Finish(h, "refused")
  BY <1>1, <1>2, StoodFinished DEF Finish
<1>3. CASE \E power \in Roles : req' = [req EXCEPT ![h].step = "sign", ![h].power = power]
  <2>1. PICK power \in Roles : req' = [req EXCEPT ![h].step = "sign", ![h].power = power]
    BY <1>3
  <2> DEFINE q == [r EXCEPT !.step = "sign", !.power = power]
  <2>2. q.step = "sign"
    BY <1>1 DEF Requests
  <2>3. req' = [req EXCEPT ![h] = q]
    BY <2>1
  <2> HIDE DEF q
  <2>4. StoodOK(q)
    BY <2>2 DEF StoodOK
  <2> QED BY <1>1, <2>3, <2>4, StoodElsewhere
<1>4. CASE LoginRead(h) \/ Renew(h)
  <2>1. r.user \in Users
    BY <1>4, RequestAt DEF LoginRead, Renew, At, AboutOK, Acting
  <2>2. account[r.user].role \in Roles
    BY <2>1 DEF IInv, Shape, Rows
  <2> QED BY <1>2, <1>3, <1>4, <2>2 DEF LoginRead, Renew
<1>5. CASE PasswordRead(h)
  <2>1. CASE GoTo(h, "stamp")
    <3> DEFINE q == [r EXCEPT !.step = "stamp"]
    <3>1. q.step = "stamp" /\ q.stood = r.stood
      BY <1>1 DEF Requests
    <3>2. r.stood
      BY <1>1, <1>5 DEF PasswordRead, At, StoodOK, Overreaches
    <3>3. req' = [req EXCEPT ![h] = q]
      BY <2>1 DEF GoTo
    <3> HIDE DEF q
    <3>4. StoodOK(q)
      BY <3>1, <3>2 DEF StoodOK
    <3> QED BY <1>1, <3>3, <3>4, StoodElsewhere
  <2> QED BY <1>2, <1>5, <2>1 DEF PasswordRead
<1>6. CASE Stamp(h)
  <2> DEFINE q == [r EXCEPT !.step = "write", !.password = passwords + 1, !.stamp = now]
  <2>1. q.step = "write" /\ q.stood = r.stood
    BY <1>1 DEF Requests
  <2>2. r.stood
    BY <1>1, <1>6 DEF Stamp, At, StoodOK
  <2>3. req' = [req EXCEPT ![h] = q]
    BY <1>6 DEF Stamp
  <2> HIDE DEF q
  <2>4. StoodOK(q)
    BY <2>1, <2>2 DEF StoodOK
  <2> QED BY <1>1, <2>3, <2>4, StoodElsewhere
<1>7. CASE Sign(h)
  <2> DEFINE s == Session(r.user, Second(now), r.power, r.password,
                          r.crossed \cup InFlight(r.user))
             q == Finished(h, [r EXCEPT !.session = s], "ok")
  <2>1. req' = [req EXCEPT ![h] = q]
    BY <1>7 DEF Sign
  <2>2. Ended(q)
    <3> DEFINE b == [r EXCEPT !.session = s]
    <3>1. /\ Request(b.op, "ok", b.user, "user", b.session, 0).step = "ok"
          /\ [Request(b.op, "ok", b.user, "user", b.session, 0) EXCEPT !.power = b.power].step
               = "ok"
      BY DEF Request
    <3> HIDE DEF b
    <3> QED BY <3>1, IdleShape DEF Finished, Ended, b
  <2> HIDE DEF q
  <2>3. StoodOK(q)
    BY <2>2 DEF StoodOK, Ended
  <2> QED BY <1>1, <2>1, <2>3, StoodElsewhere
<1>8. CASE AdminRead(h)
  <2>1. CASE GoTo(h, "write") /\ (r.op = "role" => r.role \in Assignable(r.power))
    <3> DEFINE q == [r EXCEPT !.step = "write"]
    <3>1. q.step = "write" /\ q.stood = r.stood
      BY <1>1 DEF Requests
    <3>2. r.stood
      BY <1>1, <1>8, <2>1 DEF AdminRead, At, StoodOK, Overreaches, Assignable
    <3>3. req' = [req EXCEPT ![h] = q]
      BY <2>1 DEF GoTo
    <3> HIDE DEF q
    <3>4. StoodOK(q)
      BY <3>1, <3>2 DEF StoodOK
    <3> QED BY <1>1, <3>3, <3>4, StoodElsewhere
  <2> QED BY <1>2, <1>8, <2>1 DEF AdminRead
<1> QED BY <1>4, <1>5, <1>6, <1>7, <1>8

(* What changes accounts brings every history up to date. *)
LEMMA StoodWrites ==
  ASSUME IInv, AllStood, NEW h \in Handlers,
         PasswordWrite(h) \/ AssignRole(h) \/ SetBanStatus(h) \/ DeleteAccount(h)
  PROVE  AllStood'
<1>1. /\ \A g \in Handlers \ {h} :
           /\ Alike(req'[g], req[g])
           /\ req'[g].stood = (req[g].stood \/ Entitled(req'[g], account'))
      /\ Ended(req'[h]) \/ req'[h].step = "renew"
  <2>1. CASE PasswordWrite(h)
    BY <2>1, PasswordWriteRequests
  <2>2. CASE AssignRole(h) \/ SetBanStatus(h) \/ DeleteAccount(h)
    <3>1. \E row : Change(h, row)
      BY <2>2 DEF AssignRole, SetBanStatus, DeleteAccount
    <3> QED BY <3>1, ChangeRequests DEF IInv, Shape
  <2> QED BY <2>1, <2>2
<1> SUFFICES ASSUME NEW g \in Handlers PROVE StoodOK(req[g])'
  BY DEF AllStood
<1>2. CASE g = h
  BY <1>1, <1>2 DEF StoodOK, Ended
<1>3. CASE g # h
  <2>1. StoodOK(req[g]) /\ req[g].stood \in BOOLEAN
    BY DEF AllStood, IInv, Shape, Requests
  <2>2. /\ req'[g].step = req[g].step
        /\ Entitled(req'[g], account') \/ req[g].stood => req'[g].stood
        /\ Overreaches(req[g]) => Overreaches(req'[g])
    BY <1>1, <1>3, <2>1, EntitledBoolean DEF Alike, Overreaches
  <2> QED BY <2>1, <2>2 DEF StoodOK, Overreaches
<1> QED BY <1>2, <1>3

LEMMA StoodAsk ==
  ASSUME IInv, AllStood, NEW r \in Requests, Ask(r),
         r.step = "guard" \/ r.step = "ok" \/ (r.step = "read" /\ r.session = None)
  PROVE  AllStood'
<1>1. PICK h \in Watched : Asks(h, r)
  BY DEF Ask
<1>2. h \in Handlers
  BY SessionsAssumption
<1> QED BY <1>1, <1>2, StoodAsks

LEMMA StoodTab ==
  ASSUME IInv, AllStood, TabNext
  PROVE  AllStood'
<1>0. /\ {"me", "login", "logout", "password", "delete"} \subseteq Ops /\ "user" \in Roles
      /\ {"guard", "read", "ok"} \subseteq Steps /\ 0 \in Nat
  BY DEF Ops, Roles, Steps
<1>1. ASSUME NEW op \in Ops, NEW p \in Nat, Ask(Guarded(op, p))
      PROVE  AllStood'
  <2> DEFINE u == IF cookie = None THEN None ELSE cookie.sub
             r == Request(op, "guard", u, "user", cookie, p)
  <2>1. u \in Users \cup {None} /\ cookie \in Tokens \cup {None}
    BY DEF IInv, Shape, Tokens
  <2> HIDE DEF u
  <2>2. r \in Requests /\ r.step = "guard"
    BY <1>0, <2>1 DEF Request, Requests
  <2> HIDE DEF r
  <2>3. Ask(r)
    BY <1>1 DEF Guarded, r, u
  <2> QED BY <2>2, <2>3, StoodAsk
<1>2. CASE Restore \/ Refresh \/ DeleteMe \/ ChangePassword
  <2> DEFINE p == IF cookie = None THEN 0 ELSE account[cookie.sub].password
  <2>1. p \in Nat
    BY DEF IInv, Shape, Rows, Tokens
  <2>2. Ask(Guarded("me", 0)) \/ Ask(Guarded("delete", 0)) \/ Ask(Guarded("password", p))
    BY <1>2 DEF Restore, Refresh, DeleteMe, ChangePassword
  <2> HIDE DEF p
  <2> QED BY <1>0, <1>1, <2>1, <2>2
<1>3. CASE Login
  <2>1. PICK u \in Users : Ask(Request("login", "read", u, "user", None, account[u].password))
    BY <1>3 DEF Login
  <2> DEFINE r == Request("login", "read", u, "user", None, account[u].password)
  <2>2. account[u].password \in Nat
    BY DEF IInv, Shape, Rows
  <2>3. r \in Requests /\ r.step = "read" /\ r.session = None
    BY <1>0, <2>2 DEF Request, Requests
  <2> HIDE DEF r
  <2> QED BY <2>1, <2>3, StoodAsk DEF r
<1>4. CASE Logout
  <2> DEFINE r == Request("logout", "ok", None, "user", None, 0)
  <2>1. r \in Requests /\ r.step = "ok"
    BY <1>0 DEF Request, Requests
  <2>2. Ask(r)
    BY <1>4 DEF Logout
  <2> HIDE DEF r
  <2> QED BY <2>1, <2>2, StoodAsk
<1>5. CASE UNCHANGED serverVars
  BY <1>5 DEF serverVars, AllStood, StoodOK, Entitled, Current
<1>6. CASE Reload \/ \E p \in Pages : Navigate(p)
  BY <1>5, <1>6 DEF Reload, Navigate
<1>7. ASSUME NEW h \in Watched, NEW op, NEW step, Answered(h, op, step)
      PROVE  AllStood'
  <2>1. h \in Handlers /\ StoodOK(Idle)
    BY SessionsAssumption, IdleShape DEF StoodOK
  <2> QED BY <1>7, <2>1, StoodElsewhere DEF Answered
<1>8. ASSUME NEW h \in Watched, Lost(h)
      PROVE  AllStood'
  <2>1. h \in Handlers
    BY SessionsAssumption
  <2> QED BY <1>8, <2>1, RequestAt, StoodFinished DEF Lost
<1>9. ASSUME NEW h \in Watched,
             \/ LoginAnswer(h) \/ MeAnswer(h) \/ MeFails(h) \/ LogoutAnswer(h) \/ LogoutFails(h)
             \/ PasswordAnswer(h) \/ DeleteAnswer(h) \/ Refused(h)
      PROVE  AllStood'
  BY <1>7, <1>9 DEF LoginAnswer, MeAnswer, MeFails, LogoutAnswer, LogoutFails, PasswordAnswer,
                    DeleteAnswer, Refused
<1> QED BY <1>2, <1>3, <1>4, <1>6, <1>8, <1>9 DEF TabNext

LEMMA StoodNext == IInv /\ AllStood /\ [Next]_vars => AllStood'
<1> SUFFICES ASSUME IInv, AllStood, [Next]_vars PROVE AllStood'
  OBVIOUS
<1>1. CASE Tick \/ UNCHANGED vars
  BY <1>1 DEF Tick, vars, serverVars, AllStood, StoodOK, Entitled, Current
<1>2. CASE SessionsNext
  BY <1>1, <1>2, StoodCall, StoodGuard, StoodReads, StoodWrites DEF SessionsNext, Serve
<1> QED BY <1>1, <1>2, StoodTab DEF Next

LEMMA StoodInit == Init => AllStood
<1> SUFFICES ASSUME Init, NEW h \in Handlers PROVE StoodOK(req[h])
  BY DEF AllStood
<1>1. req[h] = Idle
  BY DEF Init, SessionsInit
<1> QED BY <1>1, IdleShape DEF StoodOK

LEMMA EarnedStep ==
  ASSUME IInv, AllStood, [Next]_vars, NEW u \in Users, account'[u] # account[u]
  PROVE  \E h \in Handlers :
           /\ req[h].user = u /\ req'[h].step # req[h].step
           /\ req[h].step = "write" \/ At(h, {"delete"}, "read")
           /\ req[h].stood
<1>1. account' # account
  OBVIOUS
<1>2. \E h \in Handlers : PasswordWrite(h) \/ AssignRole(h) \/ SetBanStatus(h) \/ DeleteAccount(h)
  <2>1. ~UNCHANGED vars /\ ~TabNext /\ SessionsNext
    BY <1>1 DEF vars, serverVars, Next, TabNext, Restore, Reload, Login, Refresh, Logout,
                ChangePassword, DeleteMe, Navigate, Ask, Asks, LoginAnswer, MeAnswer, MeFails,
                LogoutAnswer, LogoutFails, PasswordAnswer, DeleteAnswer, Refused, Answered, Lost
  <2>2. ~Tick
    BY <1>1 DEF Tick
  <2>3. PICK h \in Handlers : Call(h) \/ Serve(h)
    BY <2>1, <2>2 DEF SessionsNext
  <2>4. ~Call(h)
    BY <1>1 DEF Call, Asks
  <2>5. ~Guard(h) /\ ~LoginRead(h) /\ ~PasswordRead(h) /\ ~Stamp(h) /\ ~Renew(h) /\ ~Sign(h)
        /\ ~AdminRead(h)
    BY <1>1 DEF Guard, LoginRead, PasswordRead, Stamp, Renew, Sign, AdminRead
  <2> QED BY <2>3, <2>4, <2>5 DEF Serve
<1>3. PICK h \in Handlers : PasswordWrite(h) \/ AssignRole(h) \/ SetBanStatus(h) \/ DeleteAccount(h)
  BY <1>2
<1>4. req[h].step = "write" \/ At(h, {"delete"}, "read")
  BY <1>3 DEF PasswordWrite, PasswordWriteWith, AssignRole, SetBanStatus, DeleteAccount, At
<1>5. req[h].stood
  BY <1>4 DEF AllStood, StoodOK, Overreaches, At
<1>6. req'[h].step # req[h].step
  <2>1. Ended(req'[h]) \/ req'[h].step = "renew"
    <3>1. CASE PasswordWrite(h)
      BY <3>1, PasswordWriteRequests
    <3>2. CASE AssignRole(h) \/ SetBanStatus(h) \/ DeleteAccount(h)
      <4>1. \E row : Change(h, row)
        BY <3>2 DEF AssignRole, SetBanStatus, DeleteAccount
      <4> QED BY <4>1, ChangeRequests DEF IInv, Shape
    <3> QED BY <1>3, <3>1, <3>2
  <2> QED BY <1>4, <2>1 DEF Ended, At
<1>7. req[h].user = u
  <2>1. \E row : account' = Update(req[h].user, row)
    BY <1>3 DEF PasswordWrite, PasswordWriteWith, AssignRole, SetBanStatus, DeleteAccount, Change
  <2> QED BY <2>1 DEF Update, IInv, Shape
<1> QED BY <1>4, <1>5, <1>6, <1>7

(* Whatever is done to an account is done by someone who had the right to   *)
(* do it at some moment since he asked: the one reading of the guard, and   *)
(* the second look of assignRole, are enough for that.                      *)
THEOREM ActsAreEarned == Spec => ActsAreEntitled
<1>1. Init => IInv /\ AllStood
  BY InitInv, StoodInit
<1>2. (IInv /\ AllStood) /\ [Next]_vars => (IInv /\ AllStood)'
  BY NextInv, StoodNext
<1>3. (IInv /\ AllStood) /\ [Next]_vars =>
        [\A u \in Users : account'[u] # account[u] =>
           \E h \in Handlers :
             /\ req[h].user = u /\ req'[h].step # req[h].step
             /\ req[h].step = "write" \/ At(h, {"delete"}, "read")
             /\ req[h].stood]_serverVars
  BY EarnedStep
<1> QED BY <1>1, <1>2, <1>3, PTL DEF Spec, ActsAreEntitled

-----------------------------------------------------------------------------
(* The tab.  As long as nothing tangled is under way, what answers bring    *)
(* fits the cookie there is: a reading of the user was asked with it, and a *)
(* changed password is that of its owner.                                   *)
AnswerOK(r) ==
  /\ r.op = "me" => r.session = cookie /\ (r.step = "ok" => r.session # None)
  /\ r.op = "login" /\ r.step = "ok" => r.session \in Tokens
  /\ r.op = "password" => r.user = IF cookie = None THEN None ELSE cookie.sub
  /\ r.op = "password" /\ r.step = "ok" => r.session \in Tokens /\ r.session.sub = r.user

Agree ==
  /\ user # None => cookie # None /\ cookie.sub = user.id
  /\ user = None /\ ~parted => cookie = None /\ page # "profile"

Pairwise == \A g, h \in UnderWay : g # h =>
  req[g].op = req[h].op /\ req[g].op \in {"login", "me", "password"}

(* Only while a logout is under way may page and cookie disagree: the page  *)
(* shows nobody already.                                                    *)
TabOK == ~tangled =>
  /\ Pairwise
  /\ \A h \in UnderWay : AnswerOK(req[h])
  /\ page = "starting" => user = None /\ \A h \in UnderWay : req[h].op = "me"
  /\ page # "starting" =>
       \/ user = None /\ \E h \in UnderWay : req[h].op = "logout"
       \/ Agree /\ \A h \in UnderWay : req[h].op # "logout"

(* What a request becomes as it is served. *)
Follows(q, r) ==
  /\ q.op = r.op /\ q.user = r.user /\ q.step # "idle" /\ r.step # "idle"
  /\ \/ q.session = r.session
     \/ q.op \in {"login", "password"} /\ q.session \in Tokens /\ q.session.sub = q.user
  /\ q.step = "ok" /\ q.op = "me" => q.session # None
  /\ q.step = "ok" /\ q.op \in {"login", "password"} =>
       q.session \in Tokens /\ q.session.sub = q.user

LEMMA FinishedWatched ==
  ASSUME NEW h \in Watched, NEW r, NEW answer
  PROVE  LET q == Finished(h, r, answer) IN
         q.op = r.op /\ q.step = answer /\ q.user = r.user /\ q.session = r.session
<1> DEFINE b == Request(r.op, answer, r.user, "user", r.session, 0)
           q == [b EXCEPT !.power = r.power]
<1>1. Finished(h, r, answer) = q
  BY DEF Finished
<1>2. q.op = r.op /\ q.step = answer /\ q.user = r.user /\ q.session = r.session
  BY DEF Request
<1> HIDE DEF q
<1> QED BY <1>1, <1>2

LEMMA FinishFollows ==
  ASSUME IInv, NEW h \in Watched, h \in Handlers, Finish(h, "refused"), req[h].step # "idle"
  PROVE  Follows(req'[h], req[h])
<1> DEFINE q == Finished(h, req[h], "refused")
<1>1. req'[h] = q
  BY DEF Finish, IInv, Shape
<1>2. q.op = req[h].op /\ q.step = "refused" /\ q.user = req[h].user /\ q.session = req[h].session
  BY FinishedWatched
<1> HIDE DEF q
<1> QED BY <1>1, <1>2 DEF Follows

LEMMA GuardFollows ==
  ASSUME IInv, NEW h \in Watched, h \in Handlers, Guard(h)
  PROVE  Follows(req'[h], req[h])
<1> DEFINE r == req[h]
           s == r.session
           role == account[s.sub].role
<1>1. r \in Requests /\ r.step = "guard" /\ req \in [Handlers -> Requests]
  BY RequestAt DEF Guard, IInv, Shape
<1>2. CASE Finish(h, "refused")
  BY <1>1, <1>2, FinishFollows
<1>3. CASE s # None /\ req' = [req EXCEPT ![h] =
                                 IF r.op = "me" THEN Finished(h, [r EXCEPT !.power = role], "ok")
                                 ELSE [r EXCEPT !.power = role, !.step = "read"]]
  <2> HIDE DEF role
  <2>1. CASE r.op = "me"
    <3> DEFINE b == [r EXCEPT !.power = role]
               q == Finished(h, b, "ok")
    <3>1. b.op = r.op /\ b.user = r.user /\ b.session = s
      BY <1>1 DEF Requests
    <3>2. req'[h] = q
      BY <1>1, <1>3, <2>1
    <3> HIDE DEF b
    <3>3. q.op = r.op /\ q.step = "ok" /\ q.user = r.user /\ q.session = s
      BY <3>1, FinishedWatched
    <3> HIDE DEF q
    <3> QED BY <1>1, <1>3, <2>1, <3>2, <3>3 DEF Follows
  <2>2. CASE r.op # "me"
    <3> DEFINE q == [r EXCEPT !.power = role, !.step = "read"]
    <3>1. q.op = r.op /\ q.user = r.user /\ q.session = s /\ q.step = "read"
      BY <1>1 DEF Requests
    <3>2. req'[h] = q
      BY <1>1, <1>3, <2>2
    <3> HIDE DEF q
    <3> QED BY <1>1, <3>1, <3>2 DEF Follows
  <2> QED BY <2>1, <2>2
<1> QED BY <1>2, <1>3 DEF Guard

LEMMA ReadFollows ==
  ASSUME IInv, NEW h \in Watched, h \in Handlers,
         LoginRead(h) \/ PasswordRead(h) \/ Stamp(h) \/ Renew(h) \/ AdminRead(h)
  PROVE  Follows(req'[h], req[h])
<1> DEFINE r == req[h]
<1>1. r \in Requests /\ r.step \in Acting /\ req \in [Handlers -> Requests]
  BY RequestAt DEF LoginRead, PasswordRead, Stamp, Renew, AdminRead, At, Acting, IInv, Shape
<1>2. r.step # "idle"
  BY <1>1 DEF Acting
<1>3. CASE Finish(h, "refused")
  BY <1>2, <1>3, FinishFollows
<1>4. CASE \E power : req' = [req EXCEPT ![h].step = "sign", ![h].power = power]
  <2>1. PICK power : req' = [req EXCEPT ![h].step = "sign", ![h].power = power]
    BY <1>4
  <2> DEFINE q == [r EXCEPT !.step = "sign", !.power = power]
  <2>2. q.op = r.op /\ q.user = r.user /\ q.session = r.session /\ q.step = "sign"
    BY <1>1 DEF Requests
  <2>3. req'[h] = q
    BY <1>1, <2>1
  <2> HIDE DEF q
  <2> QED BY <1>2, <2>2, <2>3 DEF Follows
<1>5. CASE \E step \in {"stamp", "write"} : GoTo(h, step)
  <2>1. PICK step \in {"stamp", "write"} : GoTo(h, step)
    BY <1>5
  <2> DEFINE q == [r EXCEPT !.step = step]
  <2>2. q.op = r.op /\ q.user = r.user /\ q.session = r.session /\ q.step = step
    BY <1>1 DEF Requests
  <2>3. req'[h] = q
    BY <1>1, <2>1 DEF GoTo
  <2> HIDE DEF q
  <2> QED BY <1>2, <2>1, <2>2, <2>3 DEF Follows
<1>6. CASE Stamp(h)
  <2> DEFINE q == [r EXCEPT !.step = "write", !.password = passwords + 1, !.stamp = now]
  <2>1. q.op = r.op /\ q.user = r.user /\ q.session = r.session /\ q.step = "write"
    BY <1>1 DEF Requests
  <2>2. req'[h] = q
    BY <1>1, <1>6 DEF Stamp
  <2> HIDE DEF q
  <2> QED BY <1>2, <2>1, <2>2 DEF Follows
<1> QED BY <1>3, <1>4, <1>5, <1>6 DEF LoginRead, PasswordRead, Renew, AdminRead

LEMMA SignFollows ==
  ASSUME IInv, NEW h \in Watched, h \in Handlers, Sign(h)
  PROVE  Follows(req'[h], req[h])
<1> DEFINE r == req[h]
           s == Session(r.user, Second(now), r.power, r.password, r.crossed \cup InFlight(r.user))
           b == [r EXCEPT !.session = s]
           q == Finished(h, b, "ok")
<1>1. /\ r \in Requests /\ r.user \in Users /\ r.step = "sign" /\ r.op \in {"login", "password"}
      /\ Second(now) \in Nat /\ req \in [Handlers -> Requests]
  BY RequestAt, SecondType DEF Sign, At, AboutOK, Acting, IInv, Shape
<1>2. InFlight(r.user) \subseteq Nat
  BY DEF InFlight, IInv, Shape, Requests
<1>3. s \in Tokens /\ s.sub = r.user
  <2>1. r.power \in Roles /\ r.password \in Nat /\ r.crossed \subseteq Nat
    BY <1>1 DEF Requests
  <2> HIDE DEF r
  <2> QED BY <1>1, <1>2, <2>1 DEF Session, Tokens
<1>4. req'[h] = q
  BY <1>1 DEF Sign
<1> HIDE DEF s
<1>5. b.op = r.op /\ b.user = r.user /\ b.session = s
  BY <1>1 DEF Requests
<1> HIDE DEF b
<1>6. q.op = r.op /\ q.step = "ok" /\ q.user = r.user /\ q.session = s
  BY <1>5, FinishedWatched
<1> HIDE DEF q
<1> QED BY <1>1, <1>3, <1>4, <1>6 DEF Follows

LEMMA WriteFollows ==
  ASSUME IInv, NEW h \in Watched, h \in Handlers,
         PasswordWrite(h) \/ AssignRole(h) \/ SetBanStatus(h) \/ DeleteAccount(h)
  PROVE  Follows(req'[h], req[h])
<1> DEFINE r == req[h]
           done == Finished(h, r, "ok")
           renew == [r EXCEPT !.step = "renew"]
<1>1. /\ r \in Requests /\ req \in [Handlers -> Requests]
      /\ r.step # "idle" /\ r.op \notin {"me", "login"}
      /\ r.op = "password" => PasswordWrite(h)
  BY DEF PasswordWrite, PasswordWriteWith, AssignRole, SetBanStatus, DeleteAccount, At, AdminOps,
         IInv, Shape
<1>2. /\ done \in Requests /\ done.op = r.op /\ done.user = r.user /\ done.session = r.session
      /\ done.step = "ok"
  <2>1. /\ done.op = r.op /\ done.user = r.user /\ done.session = r.session
        /\ done.step = "ok"
    BY FinishedWatched
  <2>2. done \in Requests
    BY <1>1, FinishedShape
  <2> QED BY <2>1, <2>2
<1>3. /\ renew \in Requests /\ renew.op = r.op /\ renew.user = r.user
      /\ renew.session = r.session /\ renew.step = "renew"
  <2>1. "renew" \in Steps
    BY DEF Steps
  <2> QED BY <1>1, <2>1, StepShape
<1>4. CASE PasswordWrite(h)
  <2> DEFINE next == IF r.op = "password" THEN renew ELSE done
             C == Crossing(req, r.user, r.password)
             R == [C EXCEPT ![h] = next]
  <2>1. req' = Witnessed(R, account')
    BY <1>4 DEF PasswordWrite, PasswordWriteWith
  <2>2. C \in [Handlers -> Requests]
    <3>1. r.password \in Nat
      BY <1>1 DEF Requests
    <3> QED BY <1>1, <3>1, CrossingShape
  <2> HIDE DEF C, done, renew
  <2>3. /\ next \in Requests /\ next.op = r.op /\ next.user = r.user
        /\ next.session = r.session /\ next.step \in {"renew", "ok"}
        /\ next.step = "ok" => r.op # "password"
    BY <1>2, <1>3
  <2> HIDE DEF next
  <2>4. R \in [Handlers -> Requests] /\ R[h] = next
    BY <2>2, <2>3
  <2> HIDE DEF R
  <2>5. Alike(req'[h], next)
    BY <2>1, <2>4, WitnessShape
  <2> QED BY <1>1, <2>3, <2>5 DEF Alike, Follows
<1>5. CASE AssignRole(h) \/ SetBanStatus(h) \/ DeleteAccount(h)
  <2> DEFINE R == [req EXCEPT ![h] = done]
  <2>1. req' = Witnessed(R, account') /\ r.op # "password"
    BY <1>5 DEF AssignRole, SetBanStatus, DeleteAccount, Change, At, AdminOps
  <2> HIDE DEF done
  <2>2. R \in [Handlers -> Requests] /\ R[h] = done
    BY <1>1, <1>2
  <2> HIDE DEF R
  <2>3. Alike(req'[h], done)
    BY <2>1, <2>2, WitnessShape
  <2> QED BY <1>1, <1>2, <2>1, <2>3 DEF Alike, Follows
<1> QED BY <1>4, <1>5

LEMMA ServerFollows ==
  ASSUME IInv, SessionsNext, NEW g \in Watched
  PROVE  Alike(req'[g], req[g]) \/ Follows(req'[g], req[g])
<1>0. g \in Handlers /\ req \in [Handlers -> Requests]
  BY SessionsAssumption DEF IInv, Shape
<1>1. CASE Tick
  BY <1>1 DEF Tick, Alike
<1>2. ASSUME NEW h \in Handlers, Call(h)
      PROVE  Alike(req'[g], req[g])
  <2>1. h \notin Watched /\ \E r : Asks(h, r)
    BY <1>2 DEF Call
  <2>2. req'[g] = req[g]
    BY <1>0, <2>1 DEF Asks
  <2> QED BY <2>2 DEF Alike
<1>3. ASSUME NEW h \in Handlers, Serve(h), h # g
      PROVE  Alike(req'[g], req[g])
  <2>1. CASE PasswordWrite(h)
    BY <1>0, <1>3, <2>1, PasswordWriteRequests
  <2>2. CASE AssignRole(h) \/ SetBanStatus(h) \/ DeleteAccount(h)
    <3>1. \E row : Change(h, row)
      BY <2>2 DEF AssignRole, SetBanStatus, DeleteAccount
    <3> QED BY <1>0, <1>3, <3>1, ChangeRequests
  <2>3. CASE Guard(h) \/ LoginRead(h) \/ PasswordRead(h) \/ Stamp(h) \/ Renew(h) \/ Sign(h)
             \/ AdminRead(h)
    <3>1. \E q : req' = [req EXCEPT ![h] = q]
      BY <2>3 DEF Guard, LoginRead, PasswordRead, Stamp, Renew, Sign, AdminRead, Finish, GoTo
    <3>2. req'[g] = req[g]
      BY <1>0, <1>3, <3>1
    <3> QED BY <3>2 DEF Alike
  <2> QED BY <1>3, <2>1, <2>2, <2>3 DEF Serve
<1>4. ASSUME Serve(g)
      PROVE  Follows(req'[g], req[g])
  BY <1>0, <1>4, GuardFollows, ReadFollows, SignFollows, WriteFollows DEF Serve
<1> QED BY <1>1, <1>2, <1>3, <1>4 DEF SessionsNext

(* Whatever the server does, the tab is as right as it was. *)
LEMMA TabKept ==
  ASSUME TabOK, UNCHANGED tabVars,
         \A g \in Watched : Alike(req'[g], req[g]) \/ Follows(req'[g], req[g])
  PROVE  TabOK'
<1>1. ASSUME NEW g \in Watched
      PROVE  /\ req'[g].op = req[g].op
             /\ req'[g].step # "idle" <=> req[g].step # "idle"
             /\ AnswerOK(req[g]) => AnswerOK(req[g])'
  <2>1. /\ req'[g].op = req[g].op /\ req'[g].user = req[g].user
        /\ req'[g].step # "idle" <=> req[g].step # "idle"
    BY DEF Alike, Follows
  <2>2. ASSUME AnswerOK(req[g]) PROVE AnswerOK(req[g])'
    BY <2>2, SessionsAssumption DEF AnswerOK, Alike, Follows, tabVars
  <2> QED BY <2>1, <2>2
<1>2. UnderWay' = UnderWay
  BY <1>1 DEF UnderWay
<1>3. \A g \in UnderWay : g \in Watched
  BY DEF UnderWay
<1> SUFFICES ASSUME ~tangled PROVE TabOK'
  BY DEF TabOK, tabVars
<1>4. Pairwise'
  BY <1>1, <1>2, <1>3 DEF TabOK, Pairwise
<1>5. \A h \in UnderWay' : AnswerOK(req[h])'
  BY <1>1, <1>2, <1>3 DEF TabOK
<1>6. Agree <=> Agree'
  BY DEF Agree, tabVars
<1> QED BY <1>1, <1>2, <1>3, <1>4, <1>5, <1>6 DEF TabOK, tabVars

(* A request of the tab's own, made when those under way go together with   *)
(* it.                                                                      *)
LEMMA TabAsks ==
  ASSUME IInv, TabOK, NEW r \in Requests, Ask(r), UNCHANGED <<user, cookie, page, parted>>,
         r.step \in {"guard", "read"}, r.op # "logout", AnswerOK(r),
         page = "starting" => r.op = "me"
  PROVE  TabOK'
<1> SUFFICES ASSUME ~tangled' PROVE TabOK'
  BY DEF TabOK
<1>1. ~tangled /\ \A g \in UnderWay : {r.op, req[g].op} \in Harmless
  BY DEF Ask
<1>2. \A g \in UnderWay : req[g].op = r.op /\ r.op \in {"login", "me", "password"}
  <2> SUFFICES ASSUME NEW g \in UnderWay
               PROVE  req[g].op = r.op /\ r.op \in {"login", "me", "password"}
    OBVIOUS
  <2>1. PICK op \in {"login", "me", "password"} : {r.op, req[g].op} = {op}
    BY <1>1 DEF Harmless
  <2> QED BY <2>1
<1>3. PICK h \in Watched : Asks(h, r)
  BY DEF Ask
<1>4. h \in Handlers /\ req \in [Handlers -> Requests]
  BY SessionsAssumption DEF IInv, Shape
<1> DEFINE q == [r EXCEPT !.stood = Entitled(r, account)]
<1>5. q.op = r.op /\ q.step = r.step /\ q.user = r.user /\ q.session = r.session
  BY DEF Requests
<1>6. req'[h] = q /\ req[h].step = "idle" /\ \A g \in Handlers \ {h} : req'[g] = req[g]
  BY <1>3, <1>4 DEF Asks
<1> HIDE DEF q
<1>7. UnderWay' = UnderWay \cup {h} /\ h \notin UnderWay /\ UnderWay \subseteq Handlers
  BY <1>4, <1>5, <1>6, SessionsAssumption DEF UnderWay
<1>8. \A g \in UnderWay : g # h /\ req'[g] = req[g]
  BY <1>6, <1>7
<1>9. Pairwise'
  BY <1>1, <1>2, <1>5, <1>6, <1>7, <1>8 DEF TabOK, Pairwise
<1>10. AnswerOK(req[h])'
  BY <1>5, <1>6 DEF AnswerOK
<1>11. ASSUME NEW g \in UnderWay PROVE AnswerOK(req[g])'
  BY <1>1, <1>8, <1>11 DEF TabOK, AnswerOK
<1>12. \A g \in UnderWay' : AnswerOK(req[g])'
  BY <1>7, <1>10, <1>11
<1>13. /\ page' = "starting" => user' = None /\ \A g \in UnderWay' : req'[g].op = "me"
       /\ page' # "starting" => Agree' /\ \A g \in UnderWay' : req'[g].op # "logout"
  BY <1>1, <1>2, <1>5, <1>6, <1>7, <1>8 DEF TabOK, Agree
<1> QED BY <1>9, <1>12, <1>13 DEF TabOK

LEMMA LogoutTab ==
  ASSUME IInv, TabOK, Logout
  PROVE  TabOK'
<1> DEFINE r == Request("logout", "ok", None, "user", None, 0)
<1>0. r.op = "logout" /\ r.step = "ok"
  BY DEF Request
<1>1. /\ Ask(r) /\ user' = None /\ page # "starting"
      /\ UNCHANGED <<cookie, page, parted>>
  BY DEF Logout
<1>2. r \in Requests
  <2>1. "logout" \in Ops /\ "ok" \in Steps /\ "user" \in Roles /\ 0 \in Nat
    BY DEF Ops, Steps, Roles
  <2> QED BY <2>1 DEF Request, Requests
<1> HIDE DEF r
<1> SUFFICES ASSUME ~tangled' PROVE TabOK'
  BY DEF TabOK
<1>3. UnderWay = {}
  <2> SUFFICES ASSUME NEW g \in UnderWay PROVE FALSE
    OBVIOUS
  <2>1. {"logout", req[g].op} \in Harmless
    BY <1>0, <1>1 DEF Ask
  <2> QED BY <2>1 DEF Harmless
<1>4. PICK h \in Watched : Asks(h, r)
  BY <1>1 DEF Ask
<1>5. h \in Handlers /\ req \in [Handlers -> Requests]
  BY SessionsAssumption DEF IInv, Shape
<1> DEFINE q == [r EXCEPT !.stood = Entitled(r, account)]
<1>6. q.op = "logout" /\ q.step = "ok"
  BY <1>0, <1>2 DEF Requests
<1>7. req'[h] = q /\ req[h].step = "idle" /\ \A g \in Handlers \ {h} : req'[g] = req[g]
  BY <1>4, <1>5 DEF Asks
<1> HIDE DEF q
<1>8. UnderWay' = {h}
  BY <1>3, <1>6, <1>7, SessionsAssumption DEF UnderWay
<1> QED BY <1>1, <1>6, <1>7, <1>8 DEF TabOK, Pairwise, AnswerOK

LEMMA AskTab ==
  ASSUME IInv, TabOK, Restore \/ Refresh \/ Login \/ Logout \/ ChangePassword \/ DeleteMe
  PROVE  TabOK'
<1>0. /\ {"me", "login", "password", "delete"} \subseteq Ops /\ "user" \in Roles
      /\ "read" \in Steps /\ 0 \in Nat
  BY DEF Ops, Roles, Steps
<1>1. ASSUME NEW op \in {"me", "password", "delete"}, NEW p \in Nat, Ask(Guarded(op, p)),
             UNCHANGED <<user, cookie, page, parted>>, page = "starting" => op = "me"
      PROVE  TabOK'
  <2> DEFINE r == Guarded(op, p)
             owner == IF cookie = None THEN None ELSE cookie.sub
  <2>1. r \in Requests
    BY <1>0, GuardedShape
  <2>2. r.op = op /\ r.step = "guard" /\ r.session = cookie /\ r.user = owner
    BY DEF Guarded, Request
  <2>3. Ask(r)
    BY <1>1
  <2> HIDE DEF r
  <2>4. AnswerOK(r)
    BY <2>2 DEF AnswerOK
  <2> QED BY <1>1, <2>1, <2>2, <2>3, <2>4, TabAsks
<1>2. CASE Restore \/ Refresh
  BY <1>0, <1>1, <1>2 DEF Restore, Refresh
<1>3. CASE ChangePassword
  <2> DEFINE p == IF cookie = None THEN 0 ELSE account[cookie.sub].password
  <2>1. p \in Nat
    BY DEF IInv, Shape, Rows, Tokens
  <2>2. Ask(Guarded("password", p)) /\ UNCHANGED <<user, cookie, page, parted>>
        /\ page = "profile"
    BY <1>3 DEF ChangePassword
  <2> HIDE DEF p
  <2> QED BY <1>1, <2>1, <2>2
<1>4. CASE DeleteMe
  BY <1>0, <1>1, <1>4 DEF DeleteMe
<1>5. CASE Login
  <2>1. PICK u \in Users : Ask(Request("login", "read", u, "user", None, account[u].password))
    BY <1>5 DEF Login
  <2> DEFINE r == Request("login", "read", u, "user", None, account[u].password)
  <2>2. account[u].password \in Nat
    BY DEF IInv, Shape, Rows
  <2>3. r \in Requests /\ r.step = "read" /\ r.op = "login"
    BY <1>0, <2>2 DEF Request, Requests
  <2>4. Ask(r) /\ UNCHANGED <<user, cookie, page, parted>> /\ page = "login"
    BY <1>5, <2>1 DEF Login
  <2> HIDE DEF r
  <2>5. AnswerOK(r)
    BY <2>3 DEF AnswerOK
  <2> QED BY <2>3, <2>4, <2>5, TabAsks
<1> QED BY <1>2, <1>3, <1>4, <1>5, LogoutTab

(* An answer is read and its request is through. *)
LEMMA AnsweredTab ==
  ASSUME IInv, TabOK, ~tangled, NEW h \in Watched, NEW op, NEW step \in {"ok", "refused"},
         Answered(h, op, step)
  PROVE  /\ ~tangled' /\ Pairwise' /\ AnswerOK(req[h]) /\ req[h] \in Requests
         /\ h \in UnderWay /\ h \notin UnderWay' /\ UnderWay' \subseteq UnderWay
         /\ req[h].op = op /\ req[h].step = step
         /\ \A g \in UnderWay' : /\ req'[g] = req[g] /\ AnswerOK(req[g])
                                 /\ req[g].op = op /\ op \in {"login", "me", "password"}
<1>1. h \in Handlers /\ req \in [Handlers -> Requests]
  BY SessionsAssumption DEF IInv, Shape
<1>2. req[h].op = op /\ req[h].step = step /\ step # "idle"
  BY <1>1 DEF Answered, At
<1>3. req'[h] = Idle /\ \A g \in Handlers \ {h} : req'[g] = req[g]
  BY <1>1 DEF Answered
<1>4. /\ h \in UnderWay /\ UnderWay' = UnderWay \ {h}
      /\ UnderWay \subseteq Handlers
  BY <1>2, <1>3, IdleShape, SessionsAssumption DEF UnderWay
<1>5. \A g \in UnderWay' : req'[g] = req[g] /\ g \in UnderWay /\ g # h
  BY <1>3, <1>4
<1> QED BY <1>1, <1>2, <1>4, <1>5 DEF TabOK, Pairwise, Answered

LEMMA ShownSome ==
  ASSUME NEW u \in Users, NEW role \in Roles
  PROVE  Shown(u, role) # None /\ Shown(u, role).id = u
BY SessionsAssumption DEF Shown

LEMMA TokenSome ==
  ASSUME NEW s \in Tokens
  PROVE  s # None /\ s.sub \in Users /\ s.sub # None /\ s.role \in Roles
BY SessionsAssumption DEF Tokens

LEMMA LoginAnswerTab ==
  ASSUME IInv, TabOK, NEW h \in Watched, LoginAnswer(h)
  PROVE  TabOK'
<1> SUFFICES ASSUME ~tangled PROVE TabOK'
  BY DEF TabOK, LoginAnswer, Answered
<1> DEFINE s == req[h].session
<1>1. /\ ~tangled' /\ Pairwise' /\ AnswerOK(req[h]) /\ h \in UnderWay
      /\ req[h].op = "login" /\ req[h].step = "ok"
      /\ \A g \in UnderWay' : req'[g] = req[g] /\ req[g].op = "login"
  BY AnsweredTab DEF LoginAnswer
<1>2. s \in Tokens
  BY <1>1 DEF AnswerOK
<1>3. page # "starting"
  BY <1>1 DEF TabOK
<1>4. cookie' = s /\ user' = Shown(s.sub, s.role) /\ page' # "starting"
  BY <1>3 DEF LoginAnswer
<1>5. user' # None /\ cookie' # None /\ cookie'.sub = user'.id
  BY <1>2, <1>4, TokenSome, ShownSome
<1>6. Agree'
  BY <1>5 DEF Agree
<1>7. \A g \in UnderWay' :
        AnswerOK(req[g])' /\ req'[g].op # "logout"
  <2> SUFFICES ASSUME NEW g \in UnderWay'
               PROVE  AnswerOK(req[g])' /\ req'[g].op # "logout"
    OBVIOUS
  <2>1. g \in UnderWay /\ AnswerOK(req[g])
    BY AnsweredTab DEF LoginAnswer
  <2> QED BY <1>1, <2>1 DEF AnswerOK
<1> QED BY <1>1, <1>4, <1>6, <1>7 DEF TabOK

LEMMA FirstPageOpens ==
  ASSUME FirstPage
  PROVE  page' # "starting" /\ (user' = None /\ page # "profile" => page' # "profile")
BY DEF FirstPage, Opens, Pages

LEMMA MeAnswerTab ==
  ASSUME IInv, TabOK, NEW h \in Watched, MeAnswer(h)
  PROVE  TabOK'
<1> SUFFICES ASSUME ~tangled PROVE TabOK'
  BY DEF TabOK, MeAnswer, Answered
<1>1. /\ ~tangled' /\ Pairwise' /\ AnswerOK(req[h]) /\ req[h] \in Requests
      /\ req[h].op = "me" /\ req[h].step = "ok"
      /\ \A g \in UnderWay' : req'[g] = req[g] /\ AnswerOK(req[g]) /\ req[g].op = "me"
  BY AnsweredTab DEF MeAnswer
<1>2. cookie \in Tokens /\ req[h].session = cookie /\ req[h].power \in Roles
  BY <1>1 DEF AnswerOK, Requests
<1>3. cookie' = cookie /\ user' = Shown(cookie.sub, req[h].power)
  BY <1>2 DEF MeAnswer
<1>4. user' # None /\ cookie' # None /\ cookie'.sub = user'.id
  BY <1>2, <1>3, TokenSome, ShownSome
<1>5. Agree'
  BY <1>4 DEF Agree
<1>6. page' # "starting"
  BY FirstPageOpens DEF MeAnswer
<1>7. \A g \in UnderWay' : AnswerOK(req[g])' /\ req'[g].op # "logout"
  BY <1>1, <1>3 DEF AnswerOK
<1> QED BY <1>1, <1>5, <1>6, <1>7 DEF TabOK

LEMMA MeFailsTab ==
  ASSUME IInv, TabOK, NEW h \in Watched, MeFails(h)
  PROVE  TabOK'
<1> SUFFICES ASSUME ~tangled PROVE TabOK'
  BY DEF TabOK, MeFails, Answered
<1>1. /\ ~tangled' /\ Pairwise'
      /\ \A g \in UnderWay' : req'[g] = req[g] /\ AnswerOK(req[g]) /\ req[g].op = "me"
  BY AnsweredTab DEF MeFails
<1>2. Agree'
  BY DEF MeFails, Agree
<1>3. page' # "starting"
  BY FirstPageOpens DEF MeFails
<1>4. \A g \in UnderWay' : AnswerOK(req[g])' /\ req'[g].op # "logout"
  BY <1>1 DEF AnswerOK, MeFails
<1> QED BY <1>1, <1>2, <1>3, <1>4 DEF TabOK

LEMMA LogoutAnswersTab ==
  ASSUME IInv, TabOK, NEW h \in Watched, LogoutAnswer(h) \/ LogoutFails(h)
  PROVE  TabOK'
<1> SUFFICES ASSUME ~tangled PROVE TabOK'
  BY DEF TabOK, LogoutAnswer, LogoutFails, Answered
<1>1. /\ ~tangled' /\ Pairwise' /\ h \in UnderWay /\ req[h].op = "logout" /\ UnderWay' = {}
  BY AnsweredTab DEF LogoutAnswer, LogoutFails
<1>2. page # "starting" /\ user = None
  BY <1>1 DEF TabOK
<1>3. page' = "map" /\ user' = None /\ (cookie' = None \/ parted' = TRUE)
  BY <1>2 DEF LogoutAnswer, LogoutFails
<1>4. Agree'
  BY <1>3 DEF Agree
<1> QED BY <1>1, <1>3, <1>4 DEF TabOK

LEMMA PasswordAnswerTab ==
  ASSUME IInv, TabOK, NEW h \in Watched, PasswordAnswer(h)
  PROVE  TabOK'
<1> SUFFICES ASSUME ~tangled PROVE TabOK'
  BY DEF TabOK, PasswordAnswer, Answered
<1> DEFINE s == req[h].session
<1>1. /\ ~tangled' /\ Pairwise' /\ AnswerOK(req[h]) /\ h \in UnderWay
      /\ req[h].op = "password" /\ req[h].step = "ok" /\ UnderWay' \subseteq UnderWay
      /\ \A g \in UnderWay' : req'[g] = req[g] /\ AnswerOK(req[g]) /\ req[g].op = "password"
  BY AnsweredTab DEF PasswordAnswer
<1>2. s \in Tokens /\ s.sub = req[h].user
  BY <1>1 DEF AnswerOK
<1>3. s # None /\ cookie # None /\ s.sub = cookie.sub
  BY <1>1, <1>2, TokenSome DEF AnswerOK
<1>4. page # "starting" /\ Agree
  BY <1>1 DEF TabOK, Pairwise
<1>5. cookie' = s /\ UNCHANGED <<user, page, parted>>
  BY DEF PasswordAnswer
<1> HIDE DEF s
<1>6. Agree'
  BY <1>3, <1>4, <1>5 DEF Agree
<1>7. \A g \in UnderWay' : AnswerOK(req[g])' /\ req'[g].op # "logout"
  BY <1>1, <1>3, <1>5 DEF AnswerOK
<1> QED BY <1>1, <1>4, <1>5, <1>6, <1>7 DEF TabOK

LEMMA DeleteAnswerTab ==
  ASSUME IInv, TabOK, NEW h \in Watched, DeleteAnswer(h)
  PROVE  TabOK'
<1> SUFFICES ASSUME ~tangled PROVE TabOK'
  BY DEF TabOK, DeleteAnswer, Answered
<1>1. ~tangled' /\ Pairwise' /\ UnderWay' = {}
  BY AnsweredTab DEF DeleteAnswer
<1>2. page' = "map" /\ Agree'
  BY DEF DeleteAnswer, Agree
<1> QED BY <1>1, <1>2 DEF TabOK

LEMMA RefusedTab ==
  ASSUME IInv, TabOK, NEW h \in Watched, Refused(h)
  PROVE  TabOK'
<1>1. PICK op \in {"login", "password", "delete"} : Answered(h, op, "refused")
  BY DEF Refused
<1> SUFFICES ASSUME ~tangled PROVE TabOK'
  BY <1>1 DEF TabOK, Answered
<1>2. /\ ~tangled' /\ Pairwise' /\ h \in UnderWay /\ req[h].op = op
      /\ \A g \in UnderWay' : req'[g] = req[g] /\ AnswerOK(req[g]) /\ req[g].op = op
  BY <1>1, AnsweredTab
<1>3. UNCHANGED <<user, cookie, page, parted>>
  BY DEF Refused
<1>4. page # "starting" /\ Agree
  BY <1>2 DEF TabOK, Pairwise
<1>5. page' # "starting" /\ Agree'
  BY <1>3, <1>4 DEF Agree
<1>6. \A g \in UnderWay' : AnswerOK(req[g])' /\ req'[g].op # "logout"
  BY <1>2, <1>3 DEF AnswerOK
<1> QED BY <1>2, <1>5, <1>6 DEF TabOK

LEMMA LostTab ==
  ASSUME IInv, TabOK, NEW h \in Watched, Lost(h)
  PROVE  TabOK'
<1> DEFINE q == Finished(h, req[h], "refused")
<1>1. h \in Handlers /\ req \in [Handlers -> Requests]
  BY SessionsAssumption DEF IInv, Shape
<1>2. q.op = req[h].op /\ q.step = "refused" /\ q.user = req[h].user /\ q.session = req[h].session
  BY FinishedWatched
<1>3. req'[h] = q /\ \A g \in Handlers \ {h} : req'[g] = req[g]
  BY <1>1 DEF Lost
<1> HIDE DEF q
<1>4. Follows(req'[h], req[h])
  BY <1>2, <1>3 DEF Follows, Lost
<1>5. ASSUME NEW g \in Watched, g # h PROVE Alike(req'[g], req[g])
  BY <1>3, <1>5, SessionsAssumption DEF Alike
<1>6. UNCHANGED tabVars
  BY DEF Lost
<1> QED BY <1>4, <1>5, <1>6, TabKept

LEMMA NavigateTab ==
  ASSUME IInv, TabOK, NEW p \in Pages, Navigate(p)
  PROVE  TabOK'
<1>1. /\ page # "starting" /\ page' # "starting" /\ UnderWay' = UnderWay
      /\ UNCHANGED <<req, user, cookie, tangled, parted>>
      /\ user = None => page' # "profile"
  BY DEF Navigate, Opens, Pages, UnderWay, serverVars
<1>2. Agree => Agree'
  BY <1>1 DEF Agree
<1>3. \A g \in UnderWay : AnswerOK(req[g]) => AnswerOK(req[g])'
  BY <1>1 DEF AnswerOK
<1>4. Pairwise => Pairwise'
  BY <1>1 DEF Pairwise
<1> QED BY <1>1, <1>2, <1>3, <1>4 DEF TabOK

LEMMA ReloadTab ==
  ASSUME Reload
  PROVE  TabOK'
<1>1. UnderWay' = {}
  BY DEF Reload, UnderWay, serverVars
<1> QED BY <1>1 DEF Reload, TabOK, Pairwise

LEMMA NextTab == IInv /\ TabOK /\ [Next]_vars => TabOK'
<1> SUFFICES ASSUME IInv, TabOK, [Next]_vars PROVE TabOK'
  OBVIOUS
<1>1. CASE SessionsNext /\ UNCHANGED tabVars
  BY <1>1, ServerFollows, TabKept
<1>2. CASE TabNext
  BY <1>2, AskTab, LoginAnswerTab, MeAnswerTab, MeFailsTab, LogoutAnswersTab, PasswordAnswerTab,
     DeleteAnswerTab, RefusedTab, LostTab, NavigateTab, ReloadTab DEF TabNext
<1>3. CASE UNCHANGED vars
  BY <1>3, TabKept DEF vars, serverVars, Alike
<1> QED BY <1>1, <1>2, <1>3 DEF Next

LEMMA InitTab == Init => TabOK
<1> SUFFICES ASSUME Init PROVE TabOK
  OBVIOUS
<1>1. \A h \in Handlers : req[h].step = "idle"
  BY IdleShape DEF Init, SessionsInit
<1>2. UnderWay = {}
  BY <1>1, SessionsAssumption DEF UnderWay
<1> QED BY <1>2 DEF Init, TabOK, Pairwise

LEMMA TabShows == TabOK => SignedInAsShown
BY DEF TabOK, Agree, SignedInAsShown

(* Whom the page shows is the owner of the cookie whenever nothing is under *)
(* way, with any number of requests of the tab in any order, whatever the   *)
(* server answers or the network loses; but for the two exceptions that are *)
(* the property's own.                                                      *)
THEOREM ShownIsSignedIn == Spec => []SignedInAsShown
<1>1. Init => IInv /\ TabOK
  BY InitInv, InitTab
<1>2. (IInv /\ TabOK) /\ [Next]_vars => (IInv /\ TabOK)'
  BY NextInv, NextTab
<1> QED BY <1>1, <1>2, TabShows, PTL DEF Spec
=============================================================================

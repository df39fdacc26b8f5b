------------------------------ MODULE Accounts ------------------------------
(***************************************************************************)
(* Accounts, their e-mail addresses and the links mailed to them           *)
(* (AuthService over UsersService): registration, verification, change of  *)
(* address, password reset, deletion of the account.                       *)
(*                                                                         *)
(* A link carries a fresh token whose hash is stored with the account; the *)
(* mail is sent without waiting for it and may be lost.  Following a link  *)
(* finds the account by the token and updates it one or two statements     *)
(* later.  Sessions play no part here, and whether a password is right, a  *)
(* token has expired or an account is banned is left open: each can end a  *)
(* request early.                                                          *)
(***************************************************************************)
EXTENDS Integers, FiniteSets

CONSTANTS
  Users,        \* ids of users rows; an id is used once
  Emails,       \* e-mail addresses
  Tokens,       \* random tokens; one is generated once
  Handlers,     \* bound: requests served at the same time
  Serves,       \* bound: [Handlers -> SUBSET Ops], what each one serves
  MayFail,      \* bound: the handlers a failure can cut short
  None

Ops == {"register", "verify", "resend", "password", "change", "confirm",
        "forgot", "reset", "account"}

ASSUME AccountsAssumption ==
  /\ Serves \in [Handlers -> SUBSET Ops]
  /\ MayFail \subseteq Handlers
  /\ None \notin Users \cup Emails \cup Tokens

VARIABLES
  users,    \* Users -> the row of the table
  used,     \* ids given out so far
  sent,     \* Tokens -> the address it was mailed to, None if it was not yet made
  req,      \* Handlers -> the request being served
  proven,   \* history: addresses at which somebody followed a mailed link
  spent     \* history: Tokens -> how often following it changed an account

vars == <<users, used, sent, req, proven, spent>>
history == <<proven, spent>>

User(email, verified, verifyToken) ==
  [email |-> email, verified |-> verified, verifyToken |-> verifyToken,
   pending |-> None, changeToken |-> None, resetToken |-> None]
Absent == User(None, FALSE, None)
Exists(u) == users[u].email # None
Holder(a) == {u \in Users : Exists(u) /\ users[u].email = a}
Made == {k \in Tokens : sent[k] # None}

Request(step, user, email, token) ==
  [step |-> step, user |-> user, email |-> email, token |-> token]
Idle == Request("idle", None, None, None)

Init ==
  /\ users = [u \in Users |-> Absent]
  /\ used = {}
  /\ sent = [k \in Tokens |-> None]
  /\ req = [h \in Handlers |-> Idle]
  /\ proven = {}
  /\ spent = [k \in Tokens |-> 0]

Answered(h) == req' = [req EXCEPT ![h] = Idle]
GoTo(h, step) == req' = [req EXCEPT ![h].step = step]

(* A fresh token mailed to address a; whether the mail arrives shows in     *)
(* whether anybody ever follows it.                                         *)
Mail(k, a) == k \in Tokens \ Made /\ sent' = [sent EXCEPT ![k] = a]

-----------------------------------------------------------------------------
Arrive(h, op, r) ==
  /\ req[h].step = "idle"
  /\ op \in Serves[h]
  /\ req' = [req EXCEPT ![h] = r]
  /\ UNCHANGED <<users, used, sent, spent>>

(* Anyone can register or ask for a reset link. *)
PostRegister(h) ==
  \E a \in Emails : /\ Arrive(h, "register", Request("register.find", None, a, None))
                    /\ UNCHANGED proven
PostForgot(h) ==
  \E a \in Emails : /\ Arrive(h, "forgot", Request("forgot.find", None, a, None))
                    /\ UNCHANGED proven

(* Following a link shows that its address is read. *)
Follow(h, op, step) ==
  \E k \in Made : /\ Arrive(h, op, Request(step, None, None, k))
                  /\ proven' = proven \cup {sent[k]}
PostVerify(h) == Follow(h, "verify", "verify.find")
PostConfirm(h) == Follow(h, "confirm", "confirm.find")
PostReset(h) == Follow(h, "reset", "reset.find")

(* JwtAuthGuard: the caller's account exists when the request arrives. *)
PostResend(h) ==
  \E u \in Users : /\ Exists(u)
                   /\ Arrive(h, "resend", Request("resend.read", u, None, None))
                   /\ UNCHANGED proven
PostPassword(h) ==
  \E u \in Users :
    /\ Exists(u)
    /\ Arrive(h, "password", Request("password.read", u, None, None))
    /\ UNCHANGED proven
PostChange(h) ==
  \E u \in Users, a \in Emails :
    /\ Exists(u)
    /\ Arrive(h, "change", Request("change.read", u, a, None))
    /\ UNCHANGED proven
DeleteMe(h) ==
  \E u \in Users : /\ Exists(u)
                   /\ Arrive(h, "account", Request("account", u, None, None))
                   /\ UNCHANGED proven

-----------------------------------------------------------------------------
RegisterFind(h) ==
  /\ req[h].step = "register.find"
  /\ IF Holder(req[h].email) = {} THEN GoTo(h, "register.save") ELSE Answered(h)
  /\ UNCHANGED <<users, used, sent, history>>

RegisterSaveWithoutIndex(h) ==      \* defect: the unique index on email is missing
  LET a == req[h].email IN
  /\ req[h].step = "register.save"
  /\ \E u \in Users \ used, k \in Tokens :
       /\ Mail(k, a)
       /\ users' = [users EXCEPT ![u] = User(a, FALSE, k)]
       /\ used' = used \cup {u}
  /\ Answered(h)
  /\ UNCHANGED history

(* The unique index on email refuses an address taken since the check. *)
RegisterSave(h) ==
  LET a == req[h].email IN
  /\ req[h].step = "register.save"
  /\ IF Holder(a) = {}
     THEN \E u \in Users \ used, k \in Tokens :
            /\ Mail(k, a)
            /\ users' = [users EXCEPT ![u] = User(a, FALSE, k)]
            /\ used' = used \cup {u}
     ELSE UNCHANGED <<users, used, sent>>
  /\ Answered(h)
  /\ UNCHANGED history

-----------------------------------------------------------------------------
(* Look an account up by the token of a link: none if it has expired.  Only *)
(* the confirmation of an address change uses the pending address read here. *)
Found(h, holders, next) ==
  /\ \/ \E u \in holders :
          req' = [req EXCEPT ![h] =
                    Request(next, u, users[u].pending, req[h].token)]
     \/ Answered(h)
  /\ UNCHANGED <<users, used, sent, history>>

VerifyFind(h) ==
  /\ req[h].step = "verify.find"
  /\ Found(h, {u \in Users : users[u].verifyToken = req[h].token}, "verify.write")

(* An UPDATE of an account that has gone changes nothing. *)
Spend(h) ==
  spent' = IF Exists(req[h].user) THEN [spent EXCEPT ![req[h].token] = @ + 1] ELSE spent

VerifyWrite(h) ==
  LET u == req[h].user IN
  /\ req[h].step = "verify.write"
  /\ users' = IF Exists(u)
              THEN [users EXCEPT ![u].verified = TRUE, ![u].verifyToken = None]
              ELSE users
  /\ Spend(h)
  /\ Answered(h)
  /\ UNCHANGED <<used, sent, proven>>

(* The address read here is the one the link goes to. *)
ResendRead(h) ==
  LET u == req[h].user IN
  /\ req[h].step = "resend.read"
  /\ IF Exists(u) /\ ~users[u].verified
     THEN req' = [req EXCEPT ![h].step = "resend.write", ![h].email = users[u].email]
     ELSE Answered(h)
  /\ UNCHANGED <<users, used, sent, history>>

ResendWriteOldLink(h) ==            \* defect: an earlier link is mailed again
  LET u == req[h].user IN
  /\ req[h].step = "resend.write"
  /\ \E k \in Made :
       /\ sent[k] = req[h].email
       /\ users' = IF Exists(u) THEN [users EXCEPT ![u].verifyToken = k] ELSE users
  /\ Answered(h)
  /\ UNCHANGED <<used, sent, history>>

ResendWrite(h) ==
  LET u == req[h].user IN
  /\ req[h].step = "resend.write"
  /\ \E k \in Tokens :
       /\ Mail(k, req[h].email)
       /\ users' = IF Exists(u) THEN [users EXCEPT ![u].verifyToken = k] ELSE users
  /\ Answered(h)
  /\ UNCHANGED <<used, history>>

-----------------------------------------------------------------------------
(* A wrong current password ends the request. *)
PasswordRead(h) ==
  /\ req[h].step = "password.read"
  /\ \/ Exists(req[h].user) /\ GoTo(h, "password.write")
     \/ Answered(h)
  /\ UNCHANGED <<users, used, sent, history>>

(* A new password withdraws the reset link, and no other. *)
PasswordWrite(h) ==
  LET u == req[h].user IN
  /\ req[h].step = "password.write"
  /\ users' = IF Exists(u) THEN [users EXCEPT ![u].resetToken = None] ELSE users
  /\ Answered(h)
  /\ UNCHANGED <<used, sent, history>>

(* A wrong password ends the request, as does the present address. *)
ChangeRead(h) ==
  LET u == req[h].user IN
  /\ req[h].step = "change.read"
  /\ \/ /\ Exists(u) /\ users[u].email # req[h].email
        /\ GoTo(h, "change.find")
     \/ Answered(h)
  /\ UNCHANGED <<users, used, sent, history>>

ChangeFind(h) ==
  /\ req[h].step = "change.find"
  /\ IF Holder(req[h].email) \subseteq {req[h].user}
     THEN GoTo(h, "change.write") ELSE Answered(h)
  /\ UNCHANGED <<users, used, sent, history>>

ChangeWrite(h) ==
  LET u == req[h].user
      a == req[h].email
  IN
  /\ req[h].step = "change.write"
  /\ \E k \in Tokens :
       /\ Mail(k, a)
       /\ users' = IF Exists(u)
                   THEN [users EXCEPT ![u].pending = a, ![u].changeToken = k]
                   ELSE users
  /\ Answered(h)
  /\ UNCHANGED <<used, history>>

(* The pending address read here is the one that becomes the account's. *)
ConfirmFind(h) ==
  /\ req[h].step = "confirm.find"
  /\ Found(h, {u \in Users : /\ users[u].changeToken = req[h].token
                             /\ users[u].pending # None}, "confirm.other")

ConfirmOther(h) ==
  /\ req[h].step = "confirm.other"
  /\ IF Holder(req[h].email) \subseteq {req[h].user}
     THEN GoTo(h, "confirm.write") ELSE Answered(h)
  /\ UNCHANGED <<users, used, sent, history>>

ConfirmWriteCurrent(h) ==           \* defect: takes the address pending by now
  LET u == req[h].user IN
  /\ req[h].step = "confirm.write"
  /\ IF Exists(u) /\ users[u].pending # None /\ Holder(users[u].pending) = {}
     THEN /\ users' = [users EXCEPT ![u] = User(users[u].pending, TRUE, None)]
          /\ Spend(h)
     ELSE UNCHANGED <<users, spent>>
  /\ Answered(h)
  /\ UNCHANGED <<used, sent, proven>>

ConfirmWrite(h) ==
  LET u == req[h].user IN
  /\ req[h].step = "confirm.write"
  /\ IF Exists(u) /\ Holder(req[h].email) \subseteq {u}
     THEN /\ users' = [users EXCEPT ![u].email = req[h].email, ![u].verified = TRUE,
                         ![u].verifyToken = None, ![u].pending = None,
                         ![u].changeToken = None]
          /\ Spend(h)
     ELSE UNCHANGED <<users, spent>>
  /\ Answered(h)
  /\ UNCHANGED <<used, sent, proven>>

-----------------------------------------------------------------------------
(* Nothing happens for an address without an account, or of a banned one. *)
ForgotFind(h) ==
  /\ req[h].step = "forgot.find"
  /\ \/ \E u \in Holder(req[h].email) :
          req' = [req EXCEPT ![h].step = "forgot.write", ![h].user = u]
     \/ Answered(h)
  /\ UNCHANGED <<users, used, sent, history>>

ForgotWrite(h) ==
  LET u == req[h].user IN
  /\ req[h].step = "forgot.write"
  /\ \E k \in Tokens :
       /\ Mail(k, req[h].email)
       /\ users' = IF Exists(u) THEN [users EXCEPT ![u].resetToken = k] ELSE users
  /\ Answered(h)
  /\ UNCHANGED <<used, history>>

ResetFind(h) ==
  /\ req[h].step = "reset.find"
  /\ Found(h, {u \in Users : users[u].resetToken = req[h].token}, "reset.write")

(* A reset also verifies the address: "Receiving the reset email proves     *)
(* ownership of the address".                                               *)
ResetWrite(h) ==
  LET u == req[h].user IN
  /\ req[h].step = "reset.write"
  /\ users' = IF Exists(u)
              THEN [users EXCEPT ![u].verified = TRUE, ![u].verifyToken = None,
                                 ![u].resetToken = None]
              ELSE users
  /\ Spend(h)
  /\ Answered(h)
  /\ UNCHANGED <<used, sent, proven>>

-----------------------------------------------------------------------------
DeleteUser(h) ==
  /\ req[h].step = "account"
  /\ users' = [users EXCEPT ![req[h].user] = Absent]
  /\ Answered(h)
  /\ UNCHANGED <<used, sent, history>>

(* A statement fails or the process is restarted: what was committed stays. *)
Fail(h) ==
  /\ h \in MayFail
  /\ req[h].step # "idle"
  /\ Answered(h)
  /\ UNCHANGED <<users, used, sent, history>>

Next ==
  \E h \in Handlers :
    \/ PostRegister(h) \/ PostForgot(h) \/ PostVerify(h) \/ PostConfirm(h)
    \/ PostReset(h) \/ PostResend(h) \/ PostPassword(h) \/ PostChange(h)
    \/ DeleteMe(h)
    \/ RegisterFind(h) \/ RegisterSave(h)
    \/ VerifyFind(h) \/ VerifyWrite(h) \/ ResendRead(h) \/ ResendWrite(h)
    \/ PasswordRead(h) \/ PasswordWrite(h)
    \/ ChangeRead(h) \/ ChangeFind(h) \/ ChangeWrite(h)
    \/ ConfirmFind(h) \/ ConfirmOther(h) \/ ConfirmWrite(h)
    \/ ForgotFind(h) \/ ForgotWrite(h) \/ ResetFind(h) \/ ResetWrite(h)
    \/ DeleteUser(h) \/ Fail(h)

Spec == Init /\ [][Next]_vars

-----------------------------------------------------------------------------
Steps ==
  {"idle", "register.find", "register.save", "verify.find", "verify.write",
   "resend.read", "resend.write", "password.read", "password.write",
   "change.read", "change.find", "change.write",
   "confirm.find", "confirm.other", "confirm.write", "forgot.find",
   "forgot.write", "reset.find", "reset.write", "account"}
Rows == [email : Emails \cup {None}, verified : BOOLEAN,
         verifyToken : Tokens \cup {None}, pending : Emails \cup {None},
         changeToken : Tokens \cup {None}, resetToken : Tokens \cup {None}]
Requests == [step : Steps, user : Users \cup {None}, email : Emails \cup {None},
             token : Tokens \cup {None}]

(* The shape of the table and requests; an address is pending exactly while *)
(* there is a token to confirm it.                                          *)
TypeOK ==
  /\ users \in [Users -> Rows]
  /\ \A u \in Users : users[u].pending = None <=> users[u].changeToken = None
  /\ used \subseteq Users
  /\ sent \in [Tokens -> Emails \cup {None}]
  /\ req \in [Handlers -> Requests]
  /\ proven \subseteq Emails
  /\ spent \in [Tokens -> Nat]

(* emailVerified is set by three handlers, statements after each has found  *)
(* the account, while another may be changing the address: even so it is    *)
(* only ever set while somebody has followed a link mailed to the address   *)
(* that the account has.                                                    *)
VerifiedIsProven == \A u \in Users : users[u].verified => users[u].email \in proven

(* Two requests can both find an address free; no two accounts end up with  *)
(* it, by registration or by a change of address.                           *)
OneAccountPerEmail ==
  \A u, v \in Users : Exists(u) /\ users[u].email = users[v].email => u = v

(* What an account's row holds, and what requests under way have found.     *)
TokensOf(u) == {users[u].verifyToken, users[u].changeToken, users[u].resetToken}
Finding == {"verify.write", "confirm.other", "confirm.write", "reset.write"}
Followed(k) == {h \in Handlers : req[h].token = k /\ req[h].step \in Finding}
Dead(k) == /\ k \in Made
           /\ \A u \in Users : k \notin TokensOf(u)
           /\ Followed(k) = {}

(* A link that was used, replaced or cleared, and that no request under way *)
(* has found, never works again: nothing stores it or acts on it.           *)
DeadLinksStayDead ==
  [][\A k \in Tokens : Dead(k) => Dead(k)' /\ spent'[k] = spent[k]]_vars

(* Why VerifiedIsProven holds.  Whoever reads address a may verify u: it is *)
(* the account's address, or the account's address is proven anyway.        *)
Reaches(u, a) == users[u].email \in {a} \cup proven

(* A row that is gone is empty, and its id stays given out. *)
RowsOK == \A u \in Users :
  /\ ~Exists(u) => users[u] = Absent
  /\ Exists(u) => u \in used

(* A stored link was mailed where following it proves what it will set. *)
LinksOK == \A u \in Users :
  /\ TokensOf(u) \subseteq Made \cup {None}
  /\ \A k \in Made :
       /\ k \in {users[u].verifyToken, users[u].resetToken} => Reaches(u, sent[k])
       /\ k = users[u].changeToken => sent[k] = users[u].pending

(* What a handler may rely on between two statements. *)
Following == {"verify.find", "confirm.find", "reset.find"}
Nameless == Following \cup {"idle", "register.find", "register.save", "forgot.find"}
Addressed == {"register.find", "register.save", "forgot.find", "change.read",
              "change.find", "change.write", "resend.write", "forgot.write",
              "confirm.other", "confirm.write"}
RequestOK(q) ==
  /\ q.step \notin Nameless => q.user \in used
  /\ q.step \in Addressed => q.email \in Emails
  /\ q.step \in Following \cup Finding => q.token \in Tokens
  /\ q.step \in Following => sent[q.token] \in proven
  /\ q.step \in {"confirm.other", "confirm.write"} => q.email \in proven
  /\ q.step \in {"resend.write", "forgot.write"} /\ Exists(q.user) =>
       Reaches(q.user, q.email)
  /\ q.step \in {"verify.write", "reset.write"} /\ Exists(q.user) =>
       users[q.user].email \in proven
RequestsOK == \A h \in Handlers : RequestOK(req[h])

IInv == /\ TypeOK /\ RowsOK /\ LinksOK /\ RequestsOK
        /\ VerifiedIsProven /\ OneAccountPerEmail
=============================================================================

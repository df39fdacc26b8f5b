--------------------------- MODULE AccountsProofs ---------------------------
(***************************************************************************)
(* Accounts and their mailed links, proved for every number of accounts,   *)
(* addresses, links and concurrent requests.                               *)
(***************************************************************************)
EXTENDS Accounts, TLAPS

Counts == [Tokens -> Nat]

(* Mailing gives a fresh token an address and leaves the others theirs. *)
MailsOn == /\ sent' \in [Tokens -> Emails \cup {None}]
           /\ \A k \in Made : sent'[k] = sent[k]

LEMMA IdleOK ==
  /\ Idle \in Requests /\ RequestOK(Idle) /\ RequestOK(Idle)'
  /\ Idle.step = "idle"
BY DEF Idle, Request, Requests, Steps, RequestOK, Nameless, Following, Addressed,
       Finding

LEMMA MailOK ==
  ASSUME TypeOK, NEW a \in Emails, NEW k \in Tokens, Mail(k, a)
  PROVE  MailsOn /\ k \in Made' /\ sent'[k] = a /\ k \notin Made
BY AccountsAssumption DEF TypeOK, Mail, MailsOn, Made

LEMMA MadeGrows ==
  ASSUME MailsOn
  PROVE  Made \subseteq Made'
BY DEF MailsOn, Made

LEMMA LinkKept ==
  ASSUME TypeOK, MailsOn, NEW q \in Requests, RequestOK(q), q.step \in Following
  PROVE  sent'[q.token] = sent[q.token]
<1>1. q.token \in Tokens /\ sent[q.token] \in proven
  BY DEF RequestOK
<1>2. q.token \in Made
  BY <1>1, AccountsAssumption DEF Made, TypeOK
<1> QED BY <1>2 DEF MailsOn

(* A request that was fine stays fine as long as its account's row is left  *)
(* alone and links and proofs are only added.                               *)
LEMMA RequestKept ==
  ASSUME IInv, NEW q \in Requests, RequestOK(q), MailsOn,
         proven \subseteq proven', used \subseteq used',
         q.user \in used => users'[q.user] = users[q.user]
  PROVE  RequestOK(q)'
<1>1. q.step \in Following => sent'[q.token] = sent[q.token]
  BY LinkKept DEF IInv
<1>2. q.step \notin Nameless => users'[q.user] = users[q.user]
  BY DEF RequestOK
<1> QED
  BY <1>1, <1>2
  DEF RequestOK, Reaches, Exists, Nameless, Following, Addressed, Finding

LinkOK(v) ==
  /\ TokensOf(v) \subseteq Made \cup {None}
  /\ \A k \in Made :
       /\ k \in {users[v].verifyToken, users[v].resetToken} => Reaches(v, sent[k])
       /\ k = users[v].changeToken => sent[k] = users[v].pending

LEMMA NoneNotMade ==
  None \notin Made /\ None \notin Made'
BY AccountsAssumption DEF Made

(* The links of an account whose row is left alone. *)
LEMMA LinksKept ==
  ASSUME LinksOK, NEW v \in Users, users'[v] = users[v], MailsOn,
         proven \subseteq proven'
  PROVE  LinkOK(v)'
<1>1. TokensOf(v) \subseteq Made \cup {None}
  BY DEF LinksOK
<1>2. TokensOf(v)' \subseteq Made' \cup {None}
  BY <1>1, MadeGrows DEF TokensOf
<1>3. ASSUME NEW k \in Made'
      PROVE  /\ k \in {users'[v].verifyToken, users'[v].resetToken}
                  => users'[v].email \in {sent'[k]} \cup proven'
             /\ k = users'[v].changeToken => sent'[k] = users'[v].pending
  <2>1. CASE k \in TokensOf(v)
    <3>1. k \in Made /\ sent'[k] = sent[k]
      BY <1>1, <2>1, NoneNotMade DEF MailsOn
    <3> QED BY <3>1 DEF LinksOK, Reaches
  <2>2. CASE k \notin TokensOf(v)
    BY <2>2 DEF TokensOf
  <2> QED BY <2>1, <2>2
<1> QED BY <1>2, <1>3 DEF LinkOK, Reaches

(* Steps that change no account: a request arrives, goes on or is answered, *)
(* a link is mailed or followed.                                            *)
LEMMA MoveKeeps ==
  ASSUME IInv, NEW h \in Handlers, NEW r \in Requests,
         req' = [req EXCEPT ![h] = r], RequestOK(r)',
         UNCHANGED <<users, used>>, MailsOn,
         proven \subseteq proven', proven' \subseteq Emails, spent' \in Counts
  PROVE  IInv'
<1> USE DEF IInv
<1>1. TypeOK'
  BY DEF TypeOK, MailsOn, Counts
<1>2. RowsOK'
  BY DEF RowsOK, Exists
<1>3. LinksOK'
  <2>1. \A v \in Users : LinkOK(v)'
    BY LinksKept
  <2> QED BY <2>1 DEF LinksOK, LinkOK
<1>4. RequestsOK'
  <2> SUFFICES ASSUME NEW g \in Handlers PROVE RequestOK(req[g])'
    BY DEF RequestsOK
  <2>1. CASE g = h
    BY <2>1 DEF TypeOK
  <2>2. CASE g # h
    <3>1. req'[g] = req[g] /\ req[g] \in Requests /\ RequestOK(req[g])
      BY <2>2 DEF TypeOK, RequestsOK
    <3>2. RequestOK(req[g])'
      BY <3>1, RequestKept, IInv
    <3> QED BY <3>1, <3>2
  <2> QED BY <2>1, <2>2
<1>5. VerifiedIsProven' /\ OneAccountPerEmail'
  BY DEF VerifiedIsProven, OneAccountPerEmail, Exists
<1> QED BY <1>1, <1>2, <1>3, <1>4, <1>5

(* What a row that is written must satisfy. *)
RowFits(u, row) ==
  /\ row \in Rows /\ row.email # None
  /\ row.pending = None <=> row.changeToken = None
  /\ \A v \in Users : v # u => users[v].email # row.email
  /\ row.verified => row.email \in proven
  /\ {row.verifyToken, row.changeToken, row.resetToken} \subseteq Made' \cup {None}
  /\ \A k \in {row.verifyToken, row.resetToken} :
       k # None => row.email \in {sent'[k]} \cup proven
  /\ row.changeToken # None => sent'[row.changeToken] = row.pending

(* A handler's last statement, when it writes an account: the row fits, and *)
(* the account is new, keeps its address or takes a proven one.             *)
LEMMA WriteKeeps ==
  ASSUME IInv, NEW h \in Handlers, Answered(h),
         NEW u \in Users, NEW row, RowFits(u, row),
         users' = [users EXCEPT ![u] = row], used' = used \cup {u},
         \/ u \notin used
         \/ row.email \in {users[u].email} \cup proven,
         Exists(u) \/ u \notin used,
         MailsOn, UNCHANGED proven, spent' \in Counts
  PROVE  IInv'
<1> USE DEF IInv
<1>1. TypeOK'
  BY IdleOK DEF TypeOK, MailsOn, Counts, Answered, RowFits
<1>0. users'[u] = row /\ \A v \in Users : v # u => users'[v] = users[v]
  BY DEF TypeOK
<1>2. RowsOK'
  BY <1>0 DEF RowsOK, Exists, RowFits
<1>3. LinksOK'
  <2> SUFFICES ASSUME NEW v \in Users PROVE LinkOK(v)'
    BY DEF LinksOK, LinkOK
  <2>1. CASE v = u
    <3>1. TokensOf(v)' \subseteq Made' \cup {None}
      BY <2>1, <1>0 DEF RowFits, TokensOf
    <3>2. ASSUME NEW k \in Made', k \in {row.verifyToken, row.resetToken}
          PROVE  row.email \in {sent'[k]} \cup proven'
      BY <3>2, NoneNotMade DEF RowFits
    <3>3. ASSUME NEW k \in Made', k = row.changeToken
          PROVE  sent'[k] = row.pending
      BY <3>3, NoneNotMade DEF RowFits
    <3> QED BY <2>1, <1>0, <3>1, <3>2, <3>3 DEF LinkOK, Reaches
  <2>2. CASE v # u
    BY <1>0, <2>2, LinksKept
  <2> QED BY <2>1, <2>2
<1>4. RequestsOK'
  <2> SUFFICES ASSUME NEW g \in Handlers PROVE RequestOK(req[g])'
    BY DEF RequestsOK
  <2>1. CASE g = h
    BY <2>1, IdleOK DEF TypeOK, Answered
  <2>2. CASE g # h
    <3>1. PICK q \in Requests : q = req'[g] /\ RequestOK(q)
      BY <2>2 DEF TypeOK, RequestsOK, Answered
    <3>2. CASE q.user = u /\ u \in used
      <4>1. Exists(u) /\ row.email \in {users[u].email} \cup proven
        BY <3>2
      <4>2. q.step \in Following => sent'[q.token] = sent[q.token]
        BY <3>1, LinkKept
      <4>3. RequestOK(q)'
        BY <3>1, <3>2, <4>1, <4>2, <1>0
        DEF RequestOK, Reaches, Exists, Nameless, Following, Addressed, Finding
      <4> QED BY <3>1, <4>3
    <3>3. CASE ~(q.user = u /\ u \in used)
      <4>0. used \subseteq Users
        BY DEF TypeOK
      <4>1. q.user \in used => users'[q.user] = users[q.user]
        BY <3>3, <1>0, <4>0
      <4>2. RequestOK(q)'
        BY <3>1, <4>1, RequestKept, IInv
      <4> QED BY <3>1, <4>2
    <3> QED BY <3>2, <3>3
  <2> QED BY <2>1, <2>2
<1>5. VerifiedIsProven'
  BY <1>0 DEF VerifiedIsProven, RowFits
<1>6. OneAccountPerEmail'
  BY <1>0 DEF OneAccountPerEmail, RowFits, Exists
<1> QED BY <1>1, <1>2, <1>3, <1>4, <1>5, <1>6
LEMMA AbsentIsEmpty ==
  /\ Absent \in Rows /\ Absent.email = None /\ Absent.verified = FALSE
  /\ Absent.verifyToken = None /\ Absent.resetToken = None
  /\ Absent.changeToken = None /\ Absent.pending = None
BY DEF Absent, User, Rows

(* A handler's last statement, when it deletes an account. *)
LEMMA RemovalKeeps ==
  ASSUME IInv, NEW h \in Handlers, Answered(h), NEW u \in Users,
         users' = [users EXCEPT ![u] = Absent],
         UNCHANGED <<used, sent, proven, spent>>
  PROVE  IInv'
<1> USE DEF IInv
<1>0. /\ users'[u] = Absent
      /\ \A v \in Users : v # u => users'[v] = users[v]
      /\ MailsOn /\ UNCHANGED Made
  BY DEF TypeOK, MailsOn, Made
<1>1. TypeOK'
  BY <1>0, IdleOK, AbsentIsEmpty DEF TypeOK, Answered
<1>2. RowsOK'
  BY <1>0, AbsentIsEmpty DEF RowsOK, Exists
<1>3. LinksOK'
  <2> SUFFICES ASSUME NEW v \in Users PROVE LinkOK(v)'
    BY DEF LinksOK, LinkOK
  <2>1. CASE v = u
    BY <2>1, <1>0, AbsentIsEmpty, NoneNotMade DEF LinkOK, TokensOf
  <2>2. CASE v # u
    BY <1>0, <2>2, LinksKept
  <2> QED BY <2>1, <2>2
<1>4. RequestsOK'
  <2> SUFFICES ASSUME NEW g \in Handlers PROVE RequestOK(req[g])'
    BY DEF RequestsOK
  <2>1. CASE g = h
    BY <2>1, IdleOK DEF TypeOK, Answered
  <2>2. CASE g # h
    <3>1. PICK q \in Requests : q = req'[g] /\ RequestOK(q)
      BY <2>2 DEF TypeOK, RequestsOK, Answered
    <3>2. q.step \notin Nameless => q.user \in Users
      BY <3>1 DEF RequestOK, TypeOK
    <3>3. RequestOK(q)'
      BY <1>0, <3>1, <3>2, AbsentIsEmpty
      DEF RequestOK, Reaches, Exists, Nameless, Following, Addressed, Finding
    <3> QED BY <3>1, <3>3
  <2> QED BY <2>1, <2>2
<1>5. VerifiedIsProven' /\ OneAccountPerEmail'
  BY <1>0, AbsentIsEmpty DEF VerifiedIsProven, OneAccountPerEmail, Exists
<1> QED BY <1>1, <1>2, <1>3, <1>4, <1>5

-----------------------------------------------------------------------------
(* The arrivals: what the request says holds when it is made. *)
LEMMA AskKeeps ==
  ASSUME IInv, NEW h \in Handlers, NEW op, NEW r \in Requests, Arrive(h, op, r),
         RequestOK(r)', proven \subseteq proven', proven' \subseteq Emails
  PROVE  IInv'
BY MoveKeeps DEF Arrive, IInv, TypeOK, MailsOn, Counts

Plain == {"register.find", "forgot.find"}
Own == {"resend.read", "password.read", "change.read", "account"}

LEMMA FollowKeeps ==
  ASSUME IInv, NEW h \in Handlers, NEW op, NEW step \in Following,
         Follow(h, op, step)
  PROVE  IInv'
<1>1. PICK k \in Made : /\ Arrive(h, op, Request(step, None, None, k))
                        /\ proven' = proven \cup {sent[k]}
  BY DEF Follow
<1>2. sent[k] \in Emails /\ k \in Tokens /\ UNCHANGED sent
  BY <1>1 DEF Made, IInv, TypeOK, Arrive
<1> DEFINE r == Request(step, None, None, k)
<1>3. r \in Requests /\ RequestOK(r)'
  BY <1>1, <1>2
  DEF Request, Requests, Steps, RequestOK, Nameless, Following, Addressed, Finding
<1>4. proven \subseteq proven' /\ proven' \subseteq Emails
  BY <1>1, <1>2 DEF IInv, TypeOK
<1> HIDE DEF r
<1>5. Arrive(h, op, r)
  BY <1>1 DEF r
<1> QED BY <1>3, <1>4, <1>5, AskKeeps

LEMMA ArrivalKeeps ==
  ASSUME IInv, NEW h \in Handlers,
         \/ PostRegister(h) \/ PostForgot(h) \/ PostVerify(h) \/ PostConfirm(h)
         \/ PostReset(h) \/ PostResend(h) \/ PostPassword(h) \/ PostChange(h)
         \/ DeleteMe(h)
  PROVE  IInv'
<1>1. CASE PostVerify(h)
  BY <1>1, FollowKeeps DEF PostVerify, Following
<1>2. CASE PostConfirm(h)
  BY <1>2, FollowKeeps DEF PostConfirm, Following
<1>3. CASE PostReset(h)
  BY <1>3, FollowKeeps DEF PostReset, Following
<1>4. CASE ~(PostVerify(h) \/ PostConfirm(h) \/ PostReset(h))
  <2>1. PICK op \in Ops, step \in Plain \cup Own, u \in Users \cup {None},
             a \in Emails \cup {None} :
          /\ step \in Plain => u = None /\ a \in Emails
          /\ step \in Own => u \in Users /\ Exists(u)
          /\ step = "change.read" => a \in Emails
          /\ Arrive(h, op, Request(step, u, a, None))
          /\ UNCHANGED proven
    <3> USE DEF Plain, Own, Ops
    <3>1. CASE PostRegister(h)
      BY <3>1 DEF PostRegister
    <3>2. CASE PostForgot(h)
      BY <3>2 DEF PostForgot
    <3>3. CASE PostResend(h)
      BY <3>3 DEF PostResend
    <3>4. CASE PostPassword(h)
      BY <3>4 DEF PostPassword
    <3>5. CASE PostChange(h)
      BY <3>5 DEF PostChange
    <3>6. CASE DeleteMe(h)
      BY <3>6 DEF DeleteMe
    <3> QED BY <1>4, <3>1, <3>2, <3>3, <3>4, <3>5, <3>6
  <2> DEFINE r == Request(step, u, a, None)
  <2>2. step \in Own => u \in used /\ UNCHANGED used
    BY <2>1 DEF IInv, RowsOK, Arrive
  <2>3. r \in Requests /\ RequestOK(r)'
    BY <2>1, <2>2
    DEF Request, Requests, Steps, Plain, Own, RequestOK, Nameless, Following,
        Addressed, Finding
  <2>4. proven \subseteq proven' /\ proven' \subseteq Emails
    BY <2>1 DEF IInv, TypeOK
  <2> HIDE DEF r
  <2>5. Arrive(h, op, r)
    BY <2>1 DEF r
  <2> QED BY <2>3, <2>4, <2>5, AskKeeps
<1> QED BY <1>1, <1>2, <1>3, <1>4

-----------------------------------------------------------------------------
(* Steps that read: the request is answered or goes on with what it read. *)
LEMMA ReadKeeps ==
  ASSUME IInv, NEW h \in Handlers, NEW r \in Requests, RequestOK(r),
         req' = [req EXCEPT ![h] = r], UNCHANGED <<users, used, sent, history>>
  PROVE  IInv'
<1>1. RequestOK(r)'
  BY DEF RequestOK, Exists, Reaches, history
<1> QED BY <1>1, MoveKeeps DEF history, IInv, TypeOK, MailsOn, Counts

LEMMA AnswerKeeps ==
  ASSUME IInv, NEW h \in Handlers, Answered(h),
         UNCHANGED <<users, used, sent, history>>
  PROVE  IInv'
BY ReadKeeps, IdleOK DEF Answered

(* An answer after a mail that no account's row goes with. *)
LEMMA MailedKeeps ==
  ASSUME IInv, NEW h \in Handlers, Answered(h), UNCHANGED <<users, used, proven>>,
         MailsOn, spent' \in Counts
  PROVE  IInv'
BY MoveKeeps, IdleOK DEF Answered, IInv, TypeOK

Reading(h) ==
  \/ RegisterFind(h) \/ VerifyFind(h) \/ ResendRead(h) \/ PasswordRead(h)
  \/ ChangeRead(h) \/ ChangeFind(h) \/ ConfirmFind(h) \/ ConfirmOther(h)
  \/ ForgotFind(h) \/ ResetFind(h) \/ Fail(h)

LEMMA GoToShape ==
  ASSUME TypeOK, NEW h \in Handlers, NEW s \in Steps, GoTo(h, s)
  PROVE  \E r \in Requests :
           /\ req' = [req EXCEPT ![h] = r]
           /\ r.step = s /\ r.user = req[h].user
           /\ r.email = req[h].email /\ r.token = req[h].token
<1> DEFINE r == [req[h] EXCEPT !.step = s]
<1>1. req[h] \in Requests
  BY DEF TypeOK
<1>2. /\ r \in Requests
      /\ r.step = s /\ r.user = req[h].user
      /\ r.email = req[h].email /\ r.token = req[h].token
  BY <1>1 DEF Requests
<1>3. req' = [req EXCEPT ![h] = r]
  BY DEF GoTo
<1> QED BY <1>2, <1>3

(* A request that found the account of its link by that link. *)
LEMMA FoundKeeps ==
  ASSUME IInv, NEW h \in Handlers, req[h].step \in Following,
         NEW next \in {"verify.write", "confirm.other", "reset.write"},
         NEW found \in SUBSET Users, Found(h, found, next),
         \A u \in found :
           \/ /\ next \in {"verify.write", "reset.write"}
              /\ req[h].token \in {users[u].verifyToken, users[u].resetToken}
           \/ /\ next = "confirm.other"
              /\ req[h].token = users[u].changeToken /\ users[u].pending # None
  PROVE  IInv'
<1>0. req[h] \in Requests /\ RequestOK(req[h])
  BY DEF IInv, TypeOK, RequestsOK
<1>1. CASE Answered(h)
  BY <1>1, AnswerKeeps DEF Found
<1>2. ASSUME NEW u \in found,
             req' = [req EXCEPT ![h] =
                       Request(next, u, users[u].pending, req[h].token)]
      PROVE  IInv'
  <2> DEFINE k == req[h].token
             r == Request(next, u, users[u].pending, k)
  <2>1. k \in Made /\ k \in Tokens /\ sent[k] \in proven
    BY <1>0, AccountsAssumption DEF RequestOK, Made, IInv, TypeOK
  <2>2. users[u] \in Rows
    BY DEF IInv, TypeOK
  <2>3. Exists(u) /\ u \in used
    <3>1. k \in TokensOf(u)
      BY DEF TokensOf
    <3>2. users[u] # Absent
      BY <2>1, <3>1, NoneNotMade DEF TokensOf, Absent, User
    <3> QED BY <3>2 DEF IInv, RowsOK
  <2>4. next \in {"verify.write", "reset.write"} => users[u].email \in proven
    BY <2>1 DEF IInv, LinksOK, Reaches
  <2>5. next = "confirm.other" => users[u].pending \in proven /\ users[u].pending \in Emails
    BY <2>1, <2>2 DEF IInv, LinksOK, Rows
  <2>6. r \in Requests
    BY <2>1, <2>2 DEF Request, Requests, Steps, Rows
  <2>7. r.step = next /\ r.user = u /\ r.email = users[u].pending /\ r.token = k
    BY DEF Request
  <2> HIDE DEF r
  <2>8. RequestOK(r)
    BY <2>1, <2>3, <2>4, <2>5, <2>7
    DEF RequestOK, Nameless, Following, Addressed, Finding
  <2>9. req' = [req EXCEPT ![h] = r]
    BY <1>2 DEF r
  <2> QED BY <2>6, <2>8, <2>9, ReadKeeps DEF Found
<1> QED BY <1>1, <1>2 DEF Found

(* A request that goes on with nothing but what it came with. *)
LEMMA GoOnKeeps ==
  ASSUME IInv, NEW h \in Handlers,
         NEW s \in {"register.save", "password.write", "change.find",
                    "change.write", "confirm.write"},
         req[h].step \in {"register.find", "password.read", "change.read",
                          "change.find", "confirm.other"},
         s = "register.save" => req[h].step = "register.find",
         s # "register.save" => req[h].step # "register.find",
         s \in {"change.find", "change.write"} =>
           req[h].step \in {"change.read", "change.find"},
         s = "confirm.write" => req[h].step = "confirm.other",
         GoTo(h, s), UNCHANGED <<users, used, sent, history>>
  PROVE  IInv'
<1>1. PICK r \in Requests :
        /\ req' = [req EXCEPT ![h] = r]
        /\ r.step = s /\ r.user = req[h].user
        /\ r.email = req[h].email /\ r.token = req[h].token
  BY GoToShape DEF IInv, Steps
<1>2. RequestOK(req[h])
  BY DEF IInv, RequestsOK
<1>3. RequestOK(r)
  BY <1>1, <1>2 DEF RequestOK, Nameless, Following, Addressed, Finding
<1> QED BY <1>1, <1>3, ReadKeeps

LEMMA ReadingKeeps ==
  ASSUME IInv, NEW h \in Handlers, Reading(h)
  PROVE  IInv'
<1>0. req[h] \in Requests /\ RequestOK(req[h]) /\ used \subseteq Users
  BY DEF IInv, TypeOK, RequestsOK
<1>1. CASE RegisterFind(h)
  BY <1>1, GoOnKeeps, AnswerKeeps DEF RegisterFind
<1>2. CASE PasswordRead(h)
  BY <1>2, GoOnKeeps, AnswerKeeps DEF PasswordRead
<1>3. CASE ChangeRead(h)
  BY <1>3, GoOnKeeps, AnswerKeeps DEF ChangeRead
<1>4. CASE ChangeFind(h)
  BY <1>4, GoOnKeeps, AnswerKeeps DEF ChangeFind
<1>5. CASE ConfirmOther(h)
  BY <1>5, GoOnKeeps, AnswerKeeps DEF ConfirmOther
<1>6. CASE VerifyFind(h)
  BY <1>6, FoundKeeps DEF VerifyFind, Following
<1>7. CASE ResetFind(h)
  BY <1>7, FoundKeeps DEF ResetFind, Following
<1>8. CASE ConfirmFind(h)
  BY <1>8, FoundKeeps DEF ConfirmFind, Following
<1>9. CASE ResendRead(h)
  <2>1. CASE Answered(h)
    BY <1>9, <2>1, AnswerKeeps DEF ResendRead
  <2>2. CASE ~Answered(h)
    <3> DEFINE u == req[h].user
               r == [req[h] EXCEPT !.step = "resend.write", !.email = users[u].email]
    <3>1. Exists(u) /\ u \in used /\ users[u].email \in Emails
      BY <1>0, <1>9, <2>2
      DEF ResendRead, RequestOK, Nameless, Following, Exists, IInv, TypeOK, Rows
    <3>2. r \in Requests /\ r.step = "resend.write" /\ r.user = u /\ r.email = users[u].email
      BY <1>0, <3>1 DEF Requests, Steps
    <3>3. req' = [req EXCEPT ![h] = r]
      BY <1>9, <2>2 DEF ResendRead
    <3> HIDE DEF r
    <3>4. RequestOK(r)
      BY <3>1, <3>2 DEF RequestOK, Reaches, Nameless, Following, Addressed, Finding
    <3> QED BY <1>9, <3>2, <3>3, <3>4, ReadKeeps DEF ResendRead
  <2> QED BY <2>1, <2>2
<1>10. CASE ForgotFind(h)
  <2>1. CASE Answered(h)
    BY <1>10, <2>1, AnswerKeeps DEF ForgotFind
  <2>2. ASSUME NEW u \in Holder(req[h].email),
               req' = [req EXCEPT ![h].step = "forgot.write", ![h].user = u]
        PROVE  IInv'
    <3> DEFINE r == [req[h] EXCEPT !.step = "forgot.write", !.user = u]
    <3>1. u \in Users /\ Exists(u) /\ u \in used /\ users[u].email = req[h].email
      BY DEF Holder, IInv, RowsOK
    <3>2. /\ r \in Requests /\ r.step = "forgot.write"
          /\ r.user = u /\ r.email = req[h].email
      BY <1>0, <3>1 DEF Requests, Steps
    <3>3. req' = [req EXCEPT ![h] = r]
      BY <2>2
    <3> HIDE DEF r
    <3>4. RequestOK(r)
      BY <1>0, <1>10, <3>1, <3>2
      DEF ForgotFind, RequestOK, Reaches, Nameless, Following, Addressed, Finding
    <3> QED BY <1>10, <3>2, <3>3, <3>4, ReadKeeps DEF ForgotFind
  <2> QED BY <1>10, <2>1, <2>2 DEF ForgotFind
<1>11. CASE Fail(h)
  BY <1>11, AnswerKeeps DEF Fail
<1> QED
  BY <1>1, <1>2, <1>3, <1>4, <1>5, <1>6, <1>7, <1>8, <1>9, <1>10, <1>11 DEF Reading
-----------------------------------------------------------------------------
(* What holds of the account a handler is about to write. *)
LEMMA Writing ==
  ASSUME IInv, NEW h \in Handlers, req[h].step \notin Nameless
  PROVE  /\ req[h].user \in Users /\ req[h].user \in used
         /\ users[req[h].user] \in Rows
         /\ RequestOK(req[h])
         /\ Exists(req[h].user) =>
              /\ users[req[h].user].email # None
              /\ \A v \in Users :
                   v # req[h].user => users[v].email # users[req[h].user].email
BY DEF IInv, TypeOK, RequestsOK, RequestOK, OneAccountPerEmail, Exists

LEMMA SpendOK ==
  ASSUME IInv, NEW h \in Handlers, req[h].step \in Finding, Spend(h)
  PROVE  spent' \in Counts
<1>1. req[h].token \in Tokens /\ spent \in Counts
  BY DEF IInv, RequestsOK, RequestOK, TypeOK, Counts
<1>2. spent[req[h].token] + 1 \in Nat
  BY <1>1 DEF Counts
<1> QED BY <1>1, <1>2 DEF Spend, Counts

LEMMA StillMade ==
  ASSUME UNCHANGED sent, IInv
  PROVE  MailsOn /\ Made' = Made
BY DEF IInv, TypeOK, MailsOn, Made

(* Two of the three links of an account, unchanged or cleared. *)
LEMMA StoredLinks ==
  ASSUME IInv, NEW u \in Users, MailsOn
  PROVE  /\ TokensOf(u) \subseteq Made' \cup {None}
         /\ \A k \in {users[u].verifyToken, users[u].resetToken} :
              k # None => users[u].email \in {sent'[k]} \cup proven
         /\ users[u].changeToken # None =>
              sent'[users[u].changeToken] = users[u].pending
<1>1. TokensOf(u) \subseteq Made \cup {None}
  BY DEF IInv, LinksOK
<1>2. \A k \in TokensOf(u) : k # None => k \in Made /\ sent'[k] = sent[k]
  BY <1>1 DEF MailsOn
<1> QED BY <1>1, <1>2, MadeGrows DEF IInv, LinksOK, Reaches, TokensOf

LEMMA WritesKeep ==
  ASSUME IInv, NEW h \in Handlers,
         \/ RegisterSave(h) \/ VerifyWrite(h) \/ ResendWrite(h)
         \/ PasswordWrite(h) \/ ChangeWrite(h) \/ ConfirmWrite(h)
         \/ ForgotWrite(h) \/ ResetWrite(h) \/ DeleteUser(h)
  PROVE  IInv'
<1> DEFINE u == req[h].user
<1>0. TypeOK /\ RowsOK /\ VerifiedIsProven /\ req[h] \in Requests /\ spent \in Counts
  BY DEF IInv, TypeOK, Counts
<1>1. CASE VerifyWrite(h) \/ ResetWrite(h)
  <2>1. spent' \in Counts /\ Answered(h) /\ UNCHANGED <<used, sent, proven>>
    BY <1>1, SpendOK DEF VerifyWrite, ResetWrite, Finding
  <2>2. MailsOn /\ Made' = Made
    BY <2>1, StillMade
  <2>3. CASE ~Exists(u)
    <3>1. UNCHANGED users
      BY <1>1, <2>3 DEF VerifyWrite, ResetWrite
    <3> QED BY <2>1, <2>2, <3>1, MailedKeeps
  <2>4. CASE Exists(u)
    <3> DEFINE row == [users[u] EXCEPT !.verified = TRUE, !.verifyToken = None,
                         !.resetToken = IF VerifyWrite(h) THEN @ ELSE None]
    <3>1. /\ u \in Users /\ u \in used /\ users[u] \in Rows
          /\ users[u].email \in proven
          /\ users[u].email # None
          /\ \A v \in Users : v # u => users[v].email # users[u].email
      BY <1>1, <2>4, Writing DEF VerifyWrite, ResetWrite, Nameless, Following, RequestOK
    <3>2. users' = [users EXCEPT ![u] = row]
      BY <1>1, <2>4, <1>0, <3>1 DEF VerifyWrite, ResetWrite, TypeOK, Rows
    <3>3. /\ row \in Rows /\ row.email = users[u].email /\ row.verified
          /\ row.pending = users[u].pending /\ row.changeToken = users[u].changeToken
          /\ row.verifyToken = None
          /\ row.resetToken \in {users[u].resetToken, None}
      BY <3>1 DEF Rows
    <3> HIDE DEF row
    <3>4. RowFits(u, row)
      BY <1>0, <2>2, <3>1, <3>3, StoredLinks DEF RowFits, TypeOK, TokensOf
    <3> QED BY <2>1, <2>2, <2>4, <3>1, <3>2, <3>3, <3>4, WriteKeeps
  <2> QED BY <2>3, <2>4
<1>2. CASE ConfirmWrite(h)
  <2>1. Answered(h) /\ UNCHANGED <<used, sent, proven>>
    BY <1>2 DEF ConfirmWrite
  <2>2. MailsOn /\ Made' = Made
    BY <2>1, StillMade
  <2>3. CASE ~(Exists(u) /\ Holder(req[h].email) \subseteq {u})
    <3>1. UNCHANGED <<users, spent>>
      BY <1>2, <2>3 DEF ConfirmWrite
    <3> QED BY <1>0, <2>1, <2>2, <3>1, MailedKeeps
  <2>4. CASE Exists(u) /\ Holder(req[h].email) \subseteq {u}
    <3> DEFINE a == req[h].email
               row == [users[u] EXCEPT !.email = a, !.verified = TRUE,
                         !.verifyToken = None, !.pending = None,
                         !.changeToken = None]
    <3>1. /\ u \in Users /\ u \in used /\ users[u] \in Rows
          /\ a \in proven /\ a \in Emails
      BY <1>2, Writing
      DEF ConfirmWrite, Nameless, Following, Addressed, RequestOK
    <3>2. users' = [users EXCEPT ![u] = row] /\ spent' \in Counts
      BY <1>2, <2>4, <1>0, <3>1, SpendOK DEF ConfirmWrite, Finding, TypeOK, Rows
    <3>3. /\ row \in Rows /\ row.email = a /\ row.pending = None
          /\ row.changeToken = None /\ row.verifyToken = None
          /\ row.resetToken = users[u].resetToken
      BY <3>1 DEF Rows
    <3> HIDE DEF row
    <3>4. a # None /\ \A v \in Users : v # u => users[v].email # a
      BY <2>4, <3>1, AccountsAssumption DEF Holder, Exists
    <3>5. RowFits(u, row)
      BY <2>2, <3>1, <3>3, <3>4, StoredLinks DEF RowFits, TokensOf
    <3> QED BY <2>1, <2>2, <2>4, <3>1, <3>2, <3>3, <3>5, WriteKeeps
  <2> QED BY <2>3, <2>4
<1>3. CASE ResendWrite(h) \/ ForgotWrite(h) \/ ChangeWrite(h)
  <2>0. u \in Users /\ u \in used /\ users[u] \in Rows /\ RequestOK(req[h])
    BY <1>3, Writing
    DEF ResendWrite, ForgotWrite, ChangeWrite, Nameless, Following
  <2>1. Answered(h) /\ UNCHANGED <<used, proven, spent>> /\ req[h].email \in Emails
    BY <1>3, <2>0
    DEF ResendWrite, ForgotWrite, ChangeWrite, RequestOK, Addressed, history
  <2>2. PICK k \in Tokens :
          /\ Mail(k, req[h].email)
          /\ users' = IF ~Exists(u) THEN users
                      ELSE IF ResendWrite(h)
                      THEN [users EXCEPT ![u].verifyToken = k]
                      ELSE IF ForgotWrite(h)
                      THEN [users EXCEPT ![u].resetToken = k]
                      ELSE [users EXCEPT ![u].pending = req[h].email,
                                         ![u].changeToken = k]
    BY <1>3 DEF ResendWrite, ForgotWrite, ChangeWrite
  <2>3. MailsOn /\ k \in Made' /\ sent'[k] = req[h].email /\ None \notin Made'
    BY <1>0, <2>1, <2>2, MailOK, NoneNotMade
  <2>4. CASE ~Exists(u)
    BY <1>0, <2>1, <2>2, <2>3, <2>4, MailedKeeps
  <2>5. CASE Exists(u)
    <3>1. /\ users[u].email # None
          /\ \A v \in Users : v # u => users[v].email # users[u].email
          /\ users[u].verified => users[u].email \in proven
          /\ users[u].pending = None <=> users[u].changeToken = None
      BY <1>0, <1>3, <2>0, <2>5, Writing
      DEF ResendWrite, ForgotWrite, ChangeWrite, Nameless, Following,
          VerifiedIsProven, TypeOK
    <3>2. /\ TokensOf(u) \subseteq Made' \cup {None}
          /\ \A l \in {users[u].verifyToken, users[u].resetToken} :
               l # None => users[u].email \in {sent'[l]} \cup proven
          /\ users[u].changeToken # None =>
               sent'[users[u].changeToken] = users[u].pending
      BY <2>0, <2>3, StoredLinks
    <3>3. CASE ResendWrite(h)
      <4> DEFINE row == [users[u] EXCEPT !.verifyToken = k]
      <4>1. users' = [users EXCEPT ![u] = row]
        BY <2>2, <2>5, <3>3
      <4>2. /\ row \in Rows /\ row.verifyToken = k
            /\ row.email = users[u].email /\ row.verified = users[u].verified
            /\ row.pending = users[u].pending
            /\ row.changeToken = users[u].changeToken
            /\ row.resetToken = users[u].resetToken
        BY <2>0, <2>2 DEF Rows
      <4>3. users[u].email \in {sent'[k]} \cup proven
        BY <2>0, <2>3, <2>5, <3>3 DEF ResendWrite, RequestOK, Reaches
      <4> HIDE DEF row
      <4>4. RowFits(u, row)
        BY <2>3, <3>1, <3>2, <4>2, <4>3 DEF RowFits, TokensOf
      <4> QED BY <1>0, <2>0, <2>1, <2>3, <2>5, <4>1, <4>2, <4>4, WriteKeeps
    <3>4. CASE ForgotWrite(h) /\ ~ResendWrite(h)
      <4> DEFINE row == [users[u] EXCEPT !.resetToken = k]
      <4>1. users' = [users EXCEPT ![u] = row]
        BY <2>2, <2>5, <3>4
      <4>2. /\ row \in Rows /\ row.resetToken = k
            /\ row.email = users[u].email /\ row.verified = users[u].verified
            /\ row.pending = users[u].pending
            /\ row.changeToken = users[u].changeToken
            /\ row.verifyToken = users[u].verifyToken
        BY <2>0, <2>2 DEF Rows
      <4>3. users[u].email \in {sent'[k]} \cup proven
        BY <2>0, <2>3, <2>5, <3>4 DEF ForgotWrite, RequestOK, Reaches
      <4> HIDE DEF row
      <4>4. RowFits(u, row)
        BY <2>3, <3>1, <3>2, <4>2, <4>3 DEF RowFits, TokensOf
      <4> QED BY <1>0, <2>0, <2>1, <2>3, <2>5, <4>1, <4>2, <4>4, WriteKeeps
    <3>5. CASE ~ForgotWrite(h) /\ ~ResendWrite(h)
      <4> DEFINE a == req[h].email
                 row == [users[u] EXCEPT !.pending = a, !.changeToken = k]
      <4>1. users' = [users EXCEPT ![u] = row]
        BY <2>0, <2>2, <2>5, <3>5, <1>0 DEF TypeOK, Rows
      <4>2. /\ row \in Rows /\ row.changeToken = k /\ row.pending = a
            /\ row.email = users[u].email /\ row.verified = users[u].verified
            /\ row.resetToken = users[u].resetToken
            /\ row.verifyToken = users[u].verifyToken
        BY <2>0, <2>1, <2>2 DEF Rows
      <4> HIDE DEF row
      <4>4. RowFits(u, row)
        BY <2>1, <2>3, <3>1, <3>2, <4>2, AccountsAssumption DEF RowFits, TokensOf
      <4> QED BY <1>0, <2>0, <2>1, <2>3, <2>5, <4>1, <4>2, <4>4, WriteKeeps
    <3> QED BY <3>3, <3>4, <3>5
  <2> QED BY <2>4, <2>5
<1>4. CASE PasswordWrite(h)
  <2>0. u \in Users /\ u \in used /\ users[u] \in Rows
    BY <1>4, Writing DEF PasswordWrite, Nameless, Following
  <2>1. Answered(h) /\ UNCHANGED <<used, sent, proven, spent>>
    BY <1>4 DEF PasswordWrite, history
  <2>2. MailsOn /\ Made' = Made
    BY <2>1, StillMade
  <2>3. CASE ~Exists(u)
    BY <1>0, <1>4, <2>1, <2>2, <2>3, MailedKeeps DEF PasswordWrite
  <2>4. CASE Exists(u)
    <3> DEFINE row == [users[u] EXCEPT !.resetToken = None]
    <3>1. users' = [users EXCEPT ![u] = row]
      BY <1>4, <2>4 DEF PasswordWrite
    <3>2. /\ row \in Rows /\ row.resetToken = None
          /\ row.email = users[u].email /\ row.verified = users[u].verified
          /\ row.pending = users[u].pending
          /\ row.changeToken = users[u].changeToken
          /\ row.verifyToken = users[u].verifyToken
      BY <2>0 DEF Rows
    <3>3. /\ users[u].email # None
          /\ \A v \in Users : v # u => users[v].email # users[u].email
          /\ users[u].verified => users[u].email \in proven
          /\ users[u].pending = None <=> users[u].changeToken = None
      BY <1>0, <1>4, <2>0, <2>4, Writing
      DEF PasswordWrite, Nameless, Following, VerifiedIsProven, TypeOK
    <3> HIDE DEF row
    <3>4. RowFits(u, row)
      BY <2>0, <2>2, <3>2, <3>3, StoredLinks DEF RowFits, TokensOf
    <3> QED BY <1>0, <2>0, <2>1, <2>2, <2>4, <3>1, <3>2, <3>4, WriteKeeps
  <2> QED BY <2>3, <2>4
<1>5. CASE RegisterSave(h)
  <2> DEFINE a == req[h].email
  <2>1. Answered(h) /\ UNCHANGED <<proven, spent>> /\ a \in Emails
    BY <1>5 DEF RegisterSave, history, IInv, RequestsOK, RequestOK, Addressed
  <2>2. CASE Holder(a) # {}
    <3>1. UNCHANGED <<users, used, sent, history>>
      BY <1>5, <2>1, <2>2 DEF RegisterSave
    <3> QED BY <2>1, <3>1, AnswerKeeps
  <2>3. CASE Holder(a) = {}
    <3>1. PICK v \in Users \ used, k \in Tokens :
            /\ Mail(k, a)
            /\ users' = [users EXCEPT ![v] = User(a, FALSE, k)]
            /\ used' = used \cup {v}
      BY <1>5, <2>3 DEF RegisterSave
    <3>2. MailsOn /\ k \in Made' /\ sent'[k] = a
      BY <1>0, <2>1, <3>1, MailOK
    <3> DEFINE row == User(a, FALSE, k)
    <3>3. /\ row \in Rows /\ row.email = a /\ ~row.verified /\ row.verifyToken = k
          /\ row.pending = None /\ row.changeToken = None /\ row.resetToken = None
      BY <2>1, <3>1 DEF User, Rows
    <3>4. a # None /\ \A w \in Users : users[w].email # a
      BY <2>1, <2>3, AccountsAssumption DEF Holder, Exists
    <3>5. users' = [users EXCEPT ![v] = row]
      BY <3>1
    <3> HIDE DEF row
    <3>6. RowFits(v, row)
      BY <3>2, <3>3, <3>4 DEF RowFits
    <3> QED BY <1>0, <2>1, <3>1, <3>2, <3>5, <3>6, WriteKeeps
  <2> QED BY <2>2, <2>3
<1>6. CASE DeleteUser(h)
  <2>0. u \in Users /\ u \in used
    BY <1>6, Writing DEF DeleteUser, Nameless, Following
  <2>1. Answered(h) /\ UNCHANGED <<used, sent, proven, spent>>
    BY <1>6 DEF DeleteUser, history
  <2>2. MailsOn /\ Made' = Made
    BY <2>1, StillMade
  <2> QED BY <1>0, <1>6, <2>0, <2>1, <2>2, RemovalKeeps DEF DeleteUser
<1> QED BY <1>1, <1>2, <1>3, <1>4, <1>5, <1>6
-----------------------------------------------------------------------------
LEMMA StepCases ==
  ASSUME Next
  PROVE  \E h \in Handlers :
           \/ Reading(h)
           \/ PostRegister(h) \/ PostForgot(h) \/ PostVerify(h) \/ PostConfirm(h)
           \/ PostReset(h) \/ PostResend(h) \/ PostPassword(h) \/ PostChange(h)
           \/ DeleteMe(h)
           \/ RegisterSave(h) \/ VerifyWrite(h) \/ ResendWrite(h)
           \/ PasswordWrite(h) \/ ChangeWrite(h) \/ ConfirmWrite(h)
           \/ ForgotWrite(h) \/ ResetWrite(h) \/ DeleteUser(h)
BY DEF Next, Reading

LEMMA Initially == Init => IInv
<1> SUFFICES ASSUME Init PROVE IInv
  OBVIOUS
<1>1. TypeOK
  BY AbsentIsEmpty, IdleOK DEF Init, TypeOK
<1>2. RowsOK /\ VerifiedIsProven /\ OneAccountPerEmail
  BY AbsentIsEmpty DEF Init, RowsOK, Exists, VerifiedIsProven, OneAccountPerEmail
<1>3. LinksOK
  BY AbsentIsEmpty DEF Init, LinksOK, TokensOf, Made
<1>4. RequestsOK
  BY IdleOK DEF Init, RequestsOK
<1> QED BY <1>1, <1>2, <1>3, <1>4 DEF IInv

LEMMA Inductive == IInv /\ [Next]_vars => IInv'
<1> SUFFICES ASSUME IInv, [Next]_vars PROVE IInv'
  OBVIOUS
<1>1. CASE Next
  BY <1>1, StepCases, ReadingKeeps, ArrivalKeeps, WritesKeep
<1>2. CASE UNCHANGED vars
  BY <1>2 DEF vars, history, IInv, TypeOK, RowsOK, LinksOK, RequestsOK, RequestOK,
     VerifiedIsProven, OneAccountPerEmail, Exists, TokensOf, Made, Reaches
<1> QED BY <1>1, <1>2

LEMMA Invariance == Spec => []IInv
BY Initially, Inductive, PTL DEF Spec

(* The table and every request keep their shape, and an address is pending  *)
(* exactly while a link can confirm it.                                     *)
THEOREM TypeCorrect == Spec => []TypeOK
<1>1. IInv => TypeOK
  BY DEF IInv
<1> QED BY <1>1, Invariance, PTL

(* AuthService sets emailVerified only for an address at which somebody     *)
(* followed a mailed link, whatever changes of address run beside it.       *)
THEOREM VerificationIsEarned == Spec => []VerifiedIsProven
<1>1. IInv => VerifiedIsProven
  BY DEF IInv
<1> QED BY <1>1, Invariance, PTL

(* No two accounts ever share an address. *)
THEOREM AddressesAreUnique == Spec => []OneAccountPerEmail
<1>1. IInv => OneAccountPerEmail
  BY DEF IInv
<1> QED BY <1>1, Invariance, PTL

-----------------------------------------------------------------------------
(* What one step can do to a link that is dead. *)
Spared(k, h) ==
  /\ \A u \in Users : k \notin TokensOf(u)'
  /\ \E r \in Requests : /\ req' = [req EXCEPT ![h] = r]
                         /\ r.step \in Finding => r.token # k
  /\ MailsOn
  /\ spent'[k] = spent[k]

LEMMA SparedStaysDead ==
  ASSUME TypeOK, NEW k \in Tokens, Dead(k), NEW h \in Handlers, Spared(k, h)
  PROVE  Dead(k)' /\ spent'[k] = spent[k]
<1>1. k \in Made'
  BY MadeGrows DEF Dead, Spared
<1>2. PICK r \in Requests : /\ req' = [req EXCEPT ![h] = r]
                            /\ r.step \in Finding => r.token # k
  BY DEF Spared
<1>3. ASSUME NEW g \in Handlers, req'[g].token = k, req'[g].step \in Finding
      PROVE  FALSE
  <2>1. CASE g = h
    BY <1>2, <1>3, <2>1 DEF TypeOK
  <2>2. CASE g # h
    BY <1>2, <1>3, <2>2 DEF TypeOK, Dead, Followed
  <2> QED BY <2>1, <2>2
<1>4. Followed(k)' = {}
  BY <1>3 DEF Followed
<1> QED BY <1>1, <1>4 DEF Spared, Dead

LEMMA DeadIsSpared ==
  ASSUME IInv, NEW k \in Tokens, Dead(k), NEW h \in Handlers,
         \/ Reading(h)
         \/ PostRegister(h) \/ PostForgot(h) \/ PostVerify(h) \/ PostConfirm(h)
         \/ PostReset(h) \/ PostResend(h) \/ PostPassword(h) \/ PostChange(h)
         \/ DeleteMe(h)
         \/ RegisterSave(h) \/ VerifyWrite(h) \/ ResendWrite(h)
         \/ PasswordWrite(h) \/ ChangeWrite(h) \/ ConfirmWrite(h)
         \/ ForgotWrite(h) \/ ResetWrite(h) \/ DeleteUser(h)
  PROVE  Spared(k, h)
<1>0. /\ TypeOK /\ req[h] \in Requests /\ spent \in Counts
      /\ req[h].step \in Finding => req[h].token # k
      /\ k \in Made /\ k # None
      /\ \A u \in Users : k \notin TokensOf(u)
  BY AccountsAssumption DEF IInv, TypeOK, Counts, Dead, Followed
<1>m. UNCHANGED sent => MailsOn
  BY StillMade
<1>a. Answered(h) => \E r \in Requests : /\ req' = [req EXCEPT ![h] = r]
                                         /\ r.step \in Finding => r.token # k
  BY IdleOK DEF Answered, Finding
<1>1. CASE Reading(h)
  <2>1. UNCHANGED <<users, used, sent, history>>
    BY <1>1 DEF Reading, RegisterFind, VerifyFind, ResendRead, PasswordRead,
       ChangeRead, ChangeFind, ConfirmFind, ConfirmOther, ForgotFind, ResetFind,
       Found, Fail
  <2>2. \E r \in Requests : /\ req' = [req EXCEPT ![h] = r]
                            /\ r.step \in Finding => r.token # k
    <3>1. CASE Answered(h)
      BY <3>1, <1>a
    <3>2. CASE ~Answered(h) /\ \E s \in Steps : GoTo(h, s) /\ (s \in Finding => req[h].step \in Finding)
      BY <1>0, <3>2, GoToShape
    <3>3. CASE ~Answered(h) /\ (VerifyFind(h) \/ ConfirmFind(h) \/ ResetFind(h))
      <4>1. PICK u \in Users, next \in Steps :
              /\ req[h].token \in TokensOf(u)
              /\ req' = [req EXCEPT ![h] =
                           Request(next, u, users[u].pending, req[h].token)]
        BY <3>3 DEF VerifyFind, ConfirmFind, ResetFind, Found, TokensOf, Steps
      <4> DEFINE r == Request(next, u, users[u].pending, req[h].token)
      <4>2. r \in Requests /\ r.token = req[h].token
        BY <1>0, <4>1 DEF Request, Requests, TypeOK, Rows
      <4> HIDE DEF r
      <4>3. req' = [req EXCEPT ![h] = r]
        BY <4>1 DEF r
      <4> QED BY <1>0, <4>1, <4>2, <4>3
    <3>4. CASE ~Answered(h) /\ ResendRead(h)
      <4> DEFINE r == [req[h] EXCEPT !.step = "resend.write",
                                     !.email = users[req[h].user].email]
      <4>1. users[req[h].user] \in Rows
        BY <3>4, Writing DEF ResendRead, Nameless, Following
      <4>2. r \in Requests /\ r.step \notin Finding
        BY <1>0, <4>1 DEF Requests, Rows, Steps, Finding
      <4>3. req' = [req EXCEPT ![h] = r]
        BY <3>4 DEF ResendRead
      <4> QED BY <4>2, <4>3
    <3>5. CASE ~Answered(h) /\ ForgotFind(h)
      <4>1. PICK u \in Users :
              req' = [req EXCEPT ![h].step = "forgot.write", ![h].user = u]
        BY <3>5 DEF ForgotFind, Holder
      <4> DEFINE r == [req[h] EXCEPT !.step = "forgot.write", !.user = u]
      <4>2. r \in Requests /\ r.step \notin Finding
        BY <1>0 DEF Requests, Steps, Finding
      <4>3. req' = [req EXCEPT ![h] = r]
        BY <4>1
      <4> QED BY <4>2, <4>3
    <3> QED
      BY <1>1, <3>1, <3>2, <3>3, <3>4, <3>5
      DEF Reading, RegisterFind, PasswordRead, ChangeRead, ChangeFind, ConfirmOther,
          Fail, Steps, Finding
  <2>3. \A u \in Users : k \notin TokensOf(u)'
    BY <1>0, <2>1 DEF TokensOf
  <2>4. MailsOn /\ spent'[k] = spent[k]
    BY <1>m, <2>1 DEF history
  <2> QED BY <2>2, <2>3, <2>4 DEF Spared
<1>2. CASE \/ PostRegister(h) \/ PostForgot(h) \/ PostVerify(h) \/ PostConfirm(h)
           \/ PostReset(h) \/ PostResend(h) \/ PostPassword(h) \/ PostChange(h)
           \/ DeleteMe(h)
  <2>1. UNCHANGED <<users, used, sent, spent>> /\ req'[h].step \notin Finding
        /\ \E r : req' = [req EXCEPT ![h] = r]
    BY <1>0, <1>2
    DEF TypeOK, PostRegister, PostForgot, PostVerify, PostConfirm, PostReset, Follow,
        PostResend, PostPassword, PostChange, DeleteMe, Arrive, Request, Finding
  <2>2. req'[h] \in Requests /\ req' = [req EXCEPT ![h] = req'[h]]
    <3>1. TypeOK'
      BY <1>2, ArrivalKeeps DEF IInv
    <3> QED BY <1>0, <2>1, <3>1 DEF TypeOK
  <2>3. \A u \in Users : k \notin TokensOf(u)'
    BY <1>0, <2>1 DEF TokensOf
  <2> QED BY <1>m, <2>1, <2>2, <2>3 DEF Spared
<1>3. CASE \/ RegisterSave(h) \/ VerifyWrite(h) \/ ResendWrite(h)
           \/ PasswordWrite(h) \/ ChangeWrite(h) \/ ConfirmWrite(h)
           \/ ForgotWrite(h) \/ ResetWrite(h) \/ DeleteUser(h)
  <2>1. Answered(h)
    BY <1>3 DEF RegisterSave, VerifyWrite, ResendWrite, PasswordWrite, ChangeWrite,
       ConfirmWrite, ForgotWrite, ResetWrite, DeleteUser
  <2>2. spent'[k] = spent[k]
    <3>1. UNCHANGED spent \/ (Spend(h) /\ req[h].step \in Finding)
      BY <1>3 DEF RegisterSave, VerifyWrite, ResendWrite, PasswordWrite, ChangeWrite,
         ConfirmWrite, ForgotWrite, ResetWrite, DeleteUser, history, Finding
    <3> QED BY <1>0, <3>1 DEF Spend, Counts
  <2>3. MailsOn
    <3>1. UNCHANGED sent
          \/ \E l \in Tokens, a \in Emails : Mail(l, a)
      <4>1. req[h].step \in Addressed => req[h].email \in Emails
        BY DEF IInv, RequestsOK, RequestOK
      <4> QED
        BY <1>3, <4>1
        DEF RegisterSave, VerifyWrite, ResendWrite, PasswordWrite, ChangeWrite,
            ConfirmWrite, ForgotWrite, ResetWrite, DeleteUser, Addressed
    <3> QED BY <1>0, <1>m, <3>1, MailOK
  <2>4. \A v \in Users : k \notin TokensOf(v)'
    <3> DEFINE u == req[h].user
    <3>1. ASSUME NEW w \in Users, NEW row, users' = [users EXCEPT ![w] = row],
                 k \notin {row.verifyToken, row.changeToken, row.resetToken}
          PROVE  \A v \in Users : k \notin TokensOf(v)'
      BY <1>0, <3>1 DEF TokensOf, TypeOK
    <3>2. CASE UNCHANGED users
      BY <1>0, <3>2 DEF TokensOf
    <3>3. \A l \in Tokens : \A a : Mail(l, a) => l # k
      BY <1>0 DEF Mail
    <3>4. CASE RegisterSave(h) /\ ~UNCHANGED users
      <4>1. PICK w \in Users, l \in Tokens, a \in {req[h].email} :
              Mail(l, a) /\ users' = [users EXCEPT ![w] = User(a, FALSE, l)]
        BY <3>4 DEF RegisterSave
      <4>2. k \notin {User(a, FALSE, l).verifyToken, User(a, FALSE, l).changeToken,
                      User(a, FALSE, l).resetToken}
        BY <1>0, <3>3, <4>1 DEF User
      <4> QED BY <3>1, <4>1, <4>2
    <3>5. ASSUME ~RegisterSave(h)
          PROVE  /\ u \in Users /\ users[u] \in Rows
                 /\ k \notin {users[u].verifyToken, users[u].changeToken,
                              users[u].resetToken}
      BY <1>0, <1>3, <3>5, Writing
      DEF VerifyWrite, ResendWrite, PasswordWrite, ChangeWrite, ConfirmWrite,
          ForgotWrite, ResetWrite, DeleteUser, Nameless, Following, TokensOf
    <3>6. CASE DeleteUser(h) /\ ~RegisterSave(h)
      BY <1>0, <3>1, <3>5, <3>6, AbsentIsEmpty DEF DeleteUser
    <3>7. CASE ~UNCHANGED users /\ ~RegisterSave(h) /\ ~DeleteUser(h)
      <4>0. /\ u \in Users /\ users[u] \in Rows /\ k # None
            /\ k \notin {users[u].verifyToken, users[u].changeToken,
                         users[u].resetToken}
        BY <1>0, <3>5, <3>7, AccountsAssumption
      <4>1. CASE VerifyWrite(h)
        <5> DEFINE row == [users[u] EXCEPT !.verified = TRUE, !.verifyToken = None]
        <5>1. users' = [users EXCEPT ![u] = row]
          BY <3>7, <4>1 DEF VerifyWrite
        <5>2. /\ row.verifyToken = None
              /\ row.changeToken = users[u].changeToken
              /\ row.resetToken = users[u].resetToken
          BY <4>0 DEF Rows
        <5> HIDE DEF row
        <5> QED BY <3>1, <4>0, <5>1, <5>2
      <4>2. CASE ResendWrite(h)
        <5>1. PICK l \in Tokens :
                /\ l # k
                /\ users' = [users EXCEPT ![u] = [users[u] EXCEPT !.verifyToken = l]]
          BY <3>3, <3>7, <4>2 DEF ResendWrite
        <5> DEFINE row == [users[u] EXCEPT !.verifyToken = l]
        <5>2. /\ row.verifyToken = l
              /\ row.changeToken = users[u].changeToken
              /\ row.resetToken = users[u].resetToken
          BY <4>0 DEF Rows
        <5> HIDE DEF row
        <5>3. users' = [users EXCEPT ![u] = row]
          BY <5>1 DEF row
        <5> QED BY <3>1, <4>0, <5>1, <5>2, <5>3
      <4>3. CASE PasswordWrite(h)
        <5> DEFINE row == [users[u] EXCEPT !.resetToken = None]
        <5>1. users' = [users EXCEPT ![u] = row]
          BY <3>7, <4>3 DEF PasswordWrite
        <5>2. /\ row.verifyToken = users[u].verifyToken
              /\ row.changeToken = users[u].changeToken
              /\ row.resetToken = None
          BY <4>0 DEF Rows
        <5> HIDE DEF row
        <5> QED BY <3>1, <4>0, <5>1, <5>2
      <4>4. CASE ChangeWrite(h)
        <5>1. PICK l \in Tokens :
                /\ l # k
                /\ users' = [users EXCEPT ![u] = [users[u] EXCEPT !.pending = req[h].email, !.changeToken = l]]
          BY <3>3, <3>7, <4>4 DEF ChangeWrite
        <5> DEFINE row == [users[u] EXCEPT !.pending = req[h].email, !.changeToken = l]
        <5>2. /\ row.verifyToken = users[u].verifyToken
              /\ row.changeToken = l
              /\ row.resetToken = users[u].resetToken
          BY <4>0 DEF Rows
        <5> HIDE DEF row
        <5>3. users' = [users EXCEPT ![u] = row]
          BY <5>1 DEF row
        <5> QED BY <3>1, <4>0, <5>1, <5>2, <5>3
      <4>5. CASE ConfirmWrite(h)
        <5> DEFINE row == [users[u] EXCEPT !.email = req[h].email, !.verified = TRUE,
                                   !.verifyToken = None, !.pending = None,
                                   !.changeToken = None]
        <5>1. users' = [users EXCEPT ![u] = row]
          BY <3>7, <4>5 DEF ConfirmWrite
        <5>2. /\ row.verifyToken = None
              /\ row.changeToken = None
              /\ row.resetToken = users[u].resetToken
          BY <4>0 DEF Rows
        <5> HIDE DEF row
        <5> QED BY <3>1, <4>0, <5>1, <5>2
      <4>6. CASE ForgotWrite(h)
        <5>1. PICK l \in Tokens :
                /\ l # k
                /\ users' = [users EXCEPT ![u] = [users[u] EXCEPT !.resetToken = l]]
          BY <3>3, <3>7, <4>6 DEF ForgotWrite
        <5> DEFINE row == [users[u] EXCEPT !.resetToken = l]
        <5>2. /\ row.verifyToken = users[u].verifyToken
              /\ row.changeToken = users[u].changeToken
              /\ row.resetToken = l
          BY <4>0 DEF Rows
        <5> HIDE DEF row
        <5>3. users' = [users EXCEPT ![u] = row]
          BY <5>1 DEF row
        <5> QED BY <3>1, <4>0, <5>1, <5>2, <5>3
      <4>7. CASE ResetWrite(h)
        <5> DEFINE row == [users[u] EXCEPT !.verified = TRUE, !.verifyToken = None,
                                   !.resetToken = None]
        <5>1. users' = [users EXCEPT ![u] = row]
          BY <3>7, <4>7 DEF ResetWrite
        <5>2. /\ row.verifyToken = None
              /\ row.changeToken = users[u].changeToken
              /\ row.resetToken = None
          BY <4>0 DEF Rows
        <5> HIDE DEF row
        <5> QED BY <3>1, <4>0, <5>1, <5>2
      <4> QED BY <1>3, <3>7, <4>1, <4>2, <4>3, <4>4, <4>5, <4>6, <4>7
    <3> QED BY <3>2, <3>4, <3>6, <3>7
  <2> QED BY <1>a, <2>1, <2>2, <2>3, <2>4 DEF Spared
<1> QED BY <1>1, <1>2, <1>3

(* A link that nothing stores and no request under way has found is never   *)
(* stored or acted on again.                                                *)
THEOREM DeadLinks == Spec => DeadLinksStayDead
<1> DEFINE Step == \A k \in Tokens : Dead(k) => Dead(k)' /\ spent'[k] = spent[k]
<1>1. IInv /\ [Next]_vars => [Step]_vars
  <2> SUFFICES ASSUME IInv, Next, NEW k \in Tokens, Dead(k)
               PROVE  Dead(k)' /\ spent'[k] = spent[k]
    OBVIOUS
  <2>1. TypeOK
    BY DEF IInv
  <2> QED BY <2>1, StepCases, DeadIsSpared, SparedStaysDead
<1> QED BY <1>1, Invariance, PTL DEF Spec, DeadLinksStayDead
=============================================================================

---------------------------- MODULE ClientSession ----------------------------
(***************************************************************************)
(* Being signed in, as a tab of the browser sees it (frontend              *)
(* core/auth.service.ts, guards.ts, the login and profile pages), on top   *)
(* of the sessions of the backend.                                         *)
(*                                                                         *)
(* The cookie is the browser's and cannot be read by the page, so the page *)
(* keeps the user it was last told of.  Answers set the one or the other   *)
(* or both, whatever has happened since they were asked for, and an answer *)
(* can be lost when the server has already done its part.                  *)
(***************************************************************************)
EXTENDS Sessions

VARIABLES
  user,     \* the user shown, [id, role], or None
  cookie,   \* the session in the browser, or None
  page,     \* the page that is open; "starting" until restoreSession is through
  tangled,  \* history: two requests overlapped that do not go together
  parted    \* history: an answer the page had to act on did not say who is signed in

tabVars == <<user, cookie, page, tangled, parted>>
vars == <<serverVars, tabVars>>

Pages == {"map", "login", "link", "profile"}

Init ==
  /\ SessionsInit
  /\ cookie \in {None} \cup sessions
  /\ user = None /\ page = "starting" /\ tangled = FALSE /\ parted = FALSE

UnderWay == {h \in Watched : req[h].step # "idle"}

(* Two that leave the page and the cookie together in whatever order the    *)
(* answers come in.                                                         *)
Harmless == {{"login"}, {"me"}, {"password"}}

Ask(r) ==
  /\ r.op \in scene.tab
  /\ tangled' = (tangled \/ \E g \in UnderWay : {r.op, req[g].op} \notin Harmless)
  /\ \E h \in Watched : Asks(h, r)

Shown(u, role) == [id |-> u, role |-> role]
Guarded(op, p) == Request(op, "guard", IF cookie = None THEN None ELSE cookie.sub, "user", cookie, p)

-----------------------------------------------------------------------------
(* The app starts: restoreSession, before the first route. *)
Restore ==
  /\ page = "starting" /\ UnderWay = {}
  /\ Ask(Guarded("me", 0))
  /\ UNCHANGED <<user, cookie, page, parted>>

(* A reload, or a link out of a mail.  What was under way is through. *)
Reload ==
  /\ page # "starting" /\ UnderWay = {}
  /\ page' = "starting" /\ user' = None
  /\ tangled' = FALSE /\ parted' = FALSE
  /\ UNCHANGED <<serverVars, cookie>>

(* authGuard: the profile is for users, others are sent to the login page. *)
Opens(p, u) == IF p = "profile" /\ u = None THEN "login" ELSE p

Navigate(p) ==
  /\ page # "starting" /\ p # "link"
  /\ page' = Opens(p, user)
  /\ UNCHANGED <<serverVars, user, cookie, tangled, parted>>

(* A new login page does not know of the request the one before has sent. *)
Login ==
  /\ page = "login"
  /\ \E u \in Users : Ask(Request("login", "read", u, "user", None, account[u].password))
  /\ UNCHANGED <<user, cookie, page, parted>>

(* Once a mailed link is verified the user is read again. *)
Refresh ==
  /\ page = "link" /\ user # None
  /\ Ask(Guarded("me", 0))
  /\ UNCHANGED <<user, cookie, page, parted>>

Logout ==
  /\ page # "starting" /\ user # None
  /\ user' = None
  /\ Ask(Request("logout", "ok", None, "user", None, 0))
  /\ UNCHANGED <<cookie, page, parted>>

ChangePassword ==
  /\ page = "profile"
  /\ Ask(Guarded("password", IF cookie = None THEN 0 ELSE account[cookie.sub].password))
  /\ UNCHANGED <<user, cookie, page, parted>>

DeleteMe ==
  /\ page = "profile"
  /\ Ask(Guarded("delete", 0))
  /\ UNCHANGED <<user, cookie, page, parted>>

-----------------------------------------------------------------------------
(* Answers.  Set-Cookie is obeyed as the answer comes in. *)
Answered(h, op, step) ==
  /\ h \in Watched /\ At(h, {op}, step)
  /\ req' = [req EXCEPT ![h] = Idle]
  /\ UNCHANGED <<scene, now, account, sessions, passwords, asked, tangled>>

LoginAnswer(h) ==
  /\ Answered(h, "login", "ok")
  /\ cookie' = req[h].session
  /\ user' = Shown(req[h].session.sub, req[h].session.role)
  /\ page' \in IF page = "login" THEN {"map", "profile"} ELSE {page}
  /\ parted' = FALSE

(* Where the app goes once it knows who is signed in. *)
FirstPage == page' \in IF page = "starting" THEN {Opens(p, user') : p \in Pages} ELSE {page}

MeAnswer(h) ==
  /\ Answered(h, "me", "ok")
  /\ user' = Shown(req[h].session.sub, req[h].power)
  /\ FirstPage
  /\ parted' = FALSE /\ UNCHANGED cookie

(* catchError: nobody is signed in, whatever went wrong. *)
MeFails(h) ==
  /\ Answered(h, "me", "refused")
  /\ user' = None /\ parted' = TRUE
  /\ FirstPage
  /\ UNCHANGED cookie

LogoutAnswerKeepingCookie(h) ==    \* defect: the options do not match, the cookie stays
  /\ Answered(h, "logout", "ok")
  /\ page' = "map"
  /\ parted' = FALSE /\ UNCHANGED <<user, cookie>>

LogoutAnswer(h) ==
  /\ Answered(h, "logout", "ok")
  /\ cookie' = None /\ page' = "map"
  /\ parted' = FALSE /\ UNCHANGED user

LogoutFails(h) ==
  /\ Answered(h, "logout", "refused")
  /\ page' = "map" /\ parted' = TRUE
  /\ UNCHANGED <<user, cookie>>

PasswordAnswer(h) ==
  /\ Answered(h, "password", "ok")
  /\ cookie' = req[h].session
  /\ UNCHANGED <<user, page, parted>>

DeleteAnswer(h) ==
  /\ Answered(h, "delete", "ok")
  /\ cookie' = None /\ user' = None /\ page' = "map"
  /\ parted' = FALSE

(* A refusal is shown in the form. *)
Refused(h) ==
  /\ \E op \in {"login", "password", "delete"} : Answered(h, op, "refused")
  /\ UNCHANGED <<user, cookie, page, parted>>

(* The request or the answer is lost: to the page both are a failure. *)
Lost(h) ==
  /\ h \in Watched /\ req[h].step \in {"guard", "ok"}
  /\ req' = [req EXCEPT ![h] = Finished(h, req[h], "refused")]
  /\ UNCHANGED <<scene, now, account, sessions, passwords, asked, tabVars>>

TabNext ==
  \/ Restore \/ Reload \/ Login \/ Refresh \/ Logout \/ ChangePassword \/ DeleteMe
  \/ \E p \in Pages : Navigate(p)
  \/ \E h \in Watched :
       \/ LoginAnswer(h) \/ MeAnswer(h) \/ MeFails(h) \/ LogoutAnswer(h) \/ LogoutFails(h)
       \/ PasswordAnswer(h) \/ DeleteAnswer(h) \/ Refused(h) \/ Lost(h)

Next ==
  \/ SessionsNext /\ UNCHANGED tabVars
  \/ TabNext

Spec == Init /\ [][Next]_vars

-----------------------------------------------------------------------------
(* When nothing is under way, the user shown is the owner of the cookie,    *)
(* and the profile is open for a user only; unless two requests overlapped  *)
(* that do not go together, or the last word about the session was a        *)
(* failure.  A reload sets both right.                                      *)
SignedInAsShown ==
  page # "starting" /\ UnderWay = {} /\ ~tangled
    => /\ user # None => cookie # None /\ cookie.sub = user.id
       /\ user = None /\ ~parted => cookie = None /\ page # "profile"
=============================================================================

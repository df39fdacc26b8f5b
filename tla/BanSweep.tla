------------------------------ MODULE BanSweep ------------------------------
(***************************************************************************)
(* Banning an account and hiding what it submitted.                        *)
(*                                                                         *)
(* UsersService.setBanStatus is three statements: the account's flag, then *)
(* the flag of its rows in pois, then in districts.  Every public listing  *)
(* (findApproved, findByStatus) filters on the row's own flag and never    *)
(* looks at the owner's, and a new row starts with the flag down.  Only    *)
(* JwtAuthGuard looks at the account, once, when a request arrives.        *)
(***************************************************************************)
EXTENDS Integers, FiniteSets

CONSTANTS
  Pois, Districts,   \* ids the two tables can hold; an id is used once
  Accounts,          \* user accounts
  Admins,            \* accounts whose role is at least admin
  Handlers,          \* bound: requests served at the same time
  Serves,            \* bound: [Handlers -> SUBSET Ops], what each one serves
  MayFail,           \* bound: the handlers a failure can cut short
  None

Targets == Pois \cup Districts
Ops == {"create", "ban", "unban", "account"}

ASSUME BanAssumption ==
  /\ Pois \cap Districts = {}
  /\ Admins \subseteq Accounts
  /\ Serves \in [Handlers -> SUBSET Ops]
  /\ MayFail \subseteq Handlers
  /\ None \notin Accounts

VARIABLES
  owner,     \* Targets -> createdById of the row, None where there is no row
  hidden,    \* Targets -> the row's banned flag
  used,      \* ids given out so far
  live,      \* accounts that exist
  banned,    \* accounts whose banned flag is set
  req,       \* Handlers -> the request being served
  clean,     \* history: accounts whose last sweep ended with no other under way
  late       \* history: rows a banned account added and no sweep has passed yet

vars == <<owner, hidden, used, live, banned, req, clean, late>>
history == <<clean, late>>
tables == <<owner, hidden, used, live, banned>>

Request(step, who, subject, ban) ==
  [step |-> step, who |-> who, subject |-> subject, ban |-> ban, alone |-> TRUE]
Idle == Request("idle", None, None, FALSE)

Init ==
  /\ owner = [t \in Targets |-> None]
  /\ hidden = [t \in Targets |-> FALSE]
  /\ used = {}
  /\ live = Accounts
  /\ banned = {}
  /\ req = [h \in Handlers |-> Idle]
  /\ clean = Accounts
  /\ late = {}

Owned(u) == {t \in Targets : owner[t] = u}
Answered(h) == req' = [req EXCEPT ![h] = Idle]
GoTo(h, step) == req' = [req EXCEPT ![h].step = step]

-----------------------------------------------------------------------------
ArriveUnchecked(h, op, r) ==        \* defect: a token of a banned account passes
  /\ req[h].step = "idle"
  /\ op \in Serves[h]
  /\ r.who \in live
  /\ req' = [req EXCEPT ![h] = r]
  /\ UNCHANGED <<tables, history>>

(* JwtStrategy.validate: the account must exist and not be banned. *)
Arrive(h, op, r) ==
  /\ req[h].step = "idle"
  /\ op \in Serves[h]
  /\ r.who \in live \ banned
  /\ req' = [req EXCEPT ![h] = r]
  /\ UNCHANGED <<tables, history>>

PostSubmission(h) ==
  \E u \in Accounts : Arrive(h, "create", Request("create", u, None, FALSE))

(* An admin cannot ban their own account; unban has no such check. *)
PatchBan(h) ==
  \E a \in Admins, u \in Accounts :
    a # u /\ Arrive(h, "ban", Request("ban.find", a, u, TRUE))

PatchUnban(h) ==
  \E a \in Admins, u \in Accounts :
    Arrive(h, "unban", Request("ban.find", a, u, FALSE))
DeleteMe(h) ==
  \E u \in Accounts : Arrive(h, "account", Request("account", u, None, FALSE))

-----------------------------------------------------------------------------
(* The row of a new submission: its flag is down, whatever the owner's. *)
Create(h, T) ==
  LET u == req[h].who IN
  /\ req[h].step = "create"
  /\ IF u \in live
     THEN \E t \in T \ used :
            /\ owner' = [owner EXCEPT ![t] = u]
            /\ hidden' = [hidden EXCEPT ![t] = FALSE]
            /\ used' = used \cup {t}
            /\ late' = IF u \in banned THEN late \cup {t} ELSE late
     ELSE UNCHANGED <<owner, hidden, used, late>>
  /\ Answered(h)
  /\ UNCHANGED <<live, banned, clean>>

PoiCreate(h) == Create(h, Pois)
DistrictCreate(h) == Create(h, Districts)

FindSubject(h) ==
  /\ req[h].step = "ban.find"
  /\ IF req[h].subject \in live THEN GoTo(h, "ban.user") ELSE Answered(h)
  /\ UNCHANGED <<tables, history>>

Sweeping(u) == {g \in Handlers : /\ req[g].subject = u
                                 /\ req[g].step \in {"ban.pois", "ban.districts"}}

FlagUser(h) ==
  LET u == req[h].subject IN
  /\ req[h].step = "ban.user"
  /\ banned' = IF u \notin live THEN banned
               ELSE IF req[h].ban THEN banned \cup {u} ELSE banned \ {u}
  /\ clean' = clean \ {u}
  /\ req' = [g \in Handlers |->
       IF g = h THEN [req[h] EXCEPT !.step = "ban.pois", !.alone = Sweeping(u) = {}]
       ELSE IF g \in Sweeping(u) THEN [req[g] EXCEPT !.alone = FALSE]
       ELSE req[g]]
  /\ UNCHANGED <<owner, hidden, used, live, late>>

FlagOnlyBans(h, T) ==               \* defect: unbanning leaves the rows hidden
  /\ hidden' = [t \in Targets |->
                  IF t \in T /\ owner[t] = req[h].subject /\ req[h].ban
                  THEN TRUE ELSE hidden[t]]
  /\ late' = late \ (T \cap Owned(req[h].subject))

FlagNewestOnly(h, T) ==             \* defect: the sweep stops after one row
  /\ \/ \E t \in T \cap Owned(req[h].subject) :
          hidden' = [hidden EXCEPT ![t] = req[h].ban]
     \/ T \cap Owned(req[h].subject) = {} /\ UNCHANGED hidden
  /\ late' = late \ (T \cap Owned(req[h].subject))

(* UPDATE ... WHERE "createdById" = subject, in one table. *)
Flag(h, T) ==
  /\ hidden' = [t \in Targets |->
                  IF t \in T /\ owner[t] = req[h].subject
                  THEN req[h].ban ELSE hidden[t]]
  /\ late' = late \ (T \cap Owned(req[h].subject))

FlagPois(h) ==
  /\ req[h].step = "ban.pois"
  /\ Flag(h, Pois)
  /\ GoTo(h, "ban.districts")
  /\ UNCHANGED <<owner, used, live, banned, clean>>

FlagDistricts(h) ==
  /\ req[h].step = "ban.districts"
  /\ Flag(h, Districts)
  /\ clean' = IF req[h].alone THEN clean \cup {req[h].subject} ELSE clean
  /\ Answered(h)
  /\ UNCHANGED <<owner, used, live, banned>>

(* The account goes, and its rows with it; its votes play no part here. *)
DeleteUser(h) ==
  LET u == req[h].who IN
  /\ req[h].step = "account"
  /\ live' = live \ {u}
  /\ banned' = banned \ {u}
  /\ owner' = [t \in Targets |-> IF owner[t] = u THEN None ELSE owner[t]]
  /\ hidden' = [t \in Targets |-> IF owner[t] = u THEN FALSE ELSE hidden[t]]
  /\ Answered(h)
  /\ UNCHANGED <<used, history>>

(* A statement fails or the process is restarted: what was committed stays. *)
Fail(h) ==
  /\ h \in MayFail
  /\ req[h].step # "idle"
  /\ Answered(h)
  /\ UNCHANGED <<tables, history>>

Next ==
  \E h \in Handlers :
    \/ PostSubmission(h) \/ PatchBan(h) \/ PatchUnban(h) \/ DeleteMe(h)
    \/ PoiCreate(h) \/ DistrictCreate(h)
    \/ FindSubject(h) \/ FlagUser(h) \/ FlagPois(h) \/ FlagDistricts(h)
    \/ DeleteUser(h) \/ Fail(h)

Spec == Init /\ [][Next]_vars

-----------------------------------------------------------------------------
Steps == {"idle", "create", "ban.find", "ban.user", "ban.pois",
          "ban.districts", "account"}
Requests == [step : Steps, who : Accounts \cup {None},
             subject : Accounts \cup {None}, ban : BOOLEAN, alone : BOOLEAN]

(* The shape of the tables and of every request being served. *)
TypeOK ==
  /\ owner \in [Targets -> Accounts \cup {None}]
  /\ hidden \in [Targets -> BOOLEAN]
  /\ used \subseteq Targets
  /\ live \subseteq Accounts
  /\ banned \subseteq live
  /\ req \in [Handlers -> Requests]
  /\ clean \subseteq Accounts
  /\ late \subseteq used

(* setBanStatus is not atomic and a request of the account may still be     *)
(* adding rows.  When the last sweep over an account ran to its end with no *)
(* other sweep beside it, all the account's rows agree with its flag except *)
(* those it added, already banned, behind the sweep.                        *)
SweepSettles ==
  \A t \in Targets :
    owner[t] \in clean /\ t \notin late => (hidden[t] <=> owner[t] \in banned)

(* Why SweepSettles holds: a sweep that is still alone is the only one over *)
(* its account, carries the flag the account has, and once past pois every  *)
(* one of the account's places agrees with it; a swept account has no sweep *)
(* under way.                                                               *)
AloneOK(h) ==
  LET q == req[h]
      u == q.subject
  IN
  q.step \in {"ban.pois", "ban.districts"} /\ q.alone =>
    /\ Sweeping(u) = {h}
    /\ u \in live => (q.ban <=> u \in banned)
    /\ q.step = "ban.districts" =>
         \A t \in Pois : owner[t] = u /\ t \notin late => hidden[t] = q.ban
SweepsOK == \A h \in Handlers : AloneOK(h)
CleanOK == \A u \in clean : Sweeping(u) = {}

(* Only an account that exists owns rows, under ids given out. *)
OwnersOK == \A t \in Targets : owner[t] # None => owner[t] \in live /\ t \in used

(* A request acts for an account; a ban request names its subject. *)
RequestsOK == \A h \in Handlers :
  /\ req[h].step # "idle" => req[h].who \in Accounts
  /\ req[h].step \in {"ban.find", "ban.user", "ban.pois", "ban.districts"} =>
       req[h].subject \in Accounts

IInv == TypeOK /\ RequestsOK /\ OwnersOK /\ SweepsOK /\ CleanOK /\ SweepSettles

(* The guard runs once per request.  Once the requests that got past it     *)
(* before the ban have ended, a banned account adds nothing.                *)
Adding(u) == {h \in Handlers : req[h].who = u /\ req[h].step = "create"}
BannedFallSilent ==
  [][\A u \in Accounts :
       u \in banned /\ u \in banned' /\ Adding(u) = {}
         => Adding(u)' = {} /\ Owned(u)' \subseteq Owned(u)]_vars
=============================================================================

----------------------------- MODULE Moderation -----------------------------
(***************************************************************************)
(* The life of a submitted place (table pois) or area (table districts) in *)
(* the backend: create, community vote, review, owner update, removal, and *)
(* the deletion of an account.                                             *)
(*                                                                         *)
(* Every `await` of a handler is one statement that PostgreSQL commits by  *)
(* itself: there is no transaction around a handler.  A handler is a small *)
(* state machine: `step` names the statement it issues next, the other     *)
(* fields of its record are what it read earlier and still relies on.      *)
(* Handlers interleave between any two statements.                         *)
(*                                                                         *)
(* Bans are in BanSweep, edits to published entries in Edits: neither the  *)
(* vote nor the review handlers look at them.                              *)
(***************************************************************************)
EXTENDS Integers, FiniteSets

CONSTANTS
  Pois, Districts,   \* ids the two tables can hold; an id is used once
  Accounts,          \* user accounts
  Reviewers,         \* accounts whose role is at least reviewer
  Admins,            \* accounts whose role is at least admin
  Ips,               \* client addresses, hashed
  Texts,             \* the contents a submission can have
  Handlers,          \* bound: requests served at the same time
  Serves,            \* bound: [Handlers -> SUBSET Ops], what each one serves
  MayFail,           \* bound: the handlers a failure can cut short
  MaxCast,           \* bound: no vote request arrives once this many are cast
  MaxRows,           \* bound: submissions ever stored, in both tables together
  Threshold,         \* VOTE_AUTO_APPROVE_THRESHOLD
  None               \* null

Targets == Pois \cup Districts
Ops == {"create", "vote", "review", "update", "delete", "account"}

ASSUME ModerationAssumption ==
  /\ Pois \cap Districts = {}
  /\ Admins \subseteq Reviewers
  /\ Reviewers \subseteq Accounts
  /\ Serves \in [Handlers -> SUBSET Ops]
  /\ MayFail \subseteq Handlers
  /\ Threshold \in Nat \ {0}
  /\ MaxCast \in Nat /\ MaxRows \in Nat
  /\ None \notin Accounts \cup Ips \cup Targets \cup Texts

VARIABLES
  row,        \* Targets -> the row of pois or districts
  ballots,    \* the votes table: a set of <<target, user, ipHash>>
  live,       \* accounts that exist
  req,        \* Handlers -> the request being served
  cast,       \* history: Targets -> votes ever inserted
  endorsed    \* history: Targets -> a reviewer has approved it at least once

vars == <<row, ballots, live, req, cast, endorsed>>
history == <<cast, endorsed>>

Stored == {"pending", "approved", "rejected"}   \* review-status.enum.ts
Decided == Stored \ {"pending"}
Absent == [status |-> "absent", owner |-> None, votes |-> 0, text |-> None]
Gone == [status |-> "gone", owner |-> None, votes |-> 0, text |-> None]
Exists(t) == row[t].status \in Stored
RoomLeft == Cardinality({t \in Targets : row[t] # Absent}) < MaxRows

Request(step, who, ip, target, verdict) ==
  [step |-> step, who |-> who, ip |-> ip, target |-> target, seen |-> 0,
   verdict |-> verdict]
Idle == Request("idle", None, None, None, "none")

Init ==
  /\ row = [t \in Targets |-> Absent]
  /\ ballots = {}
  /\ live = Accounts
  /\ req = [h \in Handlers |-> Idle]
  /\ cast = [t \in Targets |-> 0]
  /\ endorsed = [t \in Targets |-> FALSE]

-----------------------------------------------------------------------------
(* A handler's answer, whether a result or an exception, frees its slot. *)
Answered(h) == req' = [req EXCEPT ![h] = Idle]
GoTo(h, step) == req' = [req EXCEPT ![h].step = step]

(* JwtAuthGuard reads the account once, before the handler runs; the rest   *)
(* of r comes with the request.  Clients know the ids of stored rows only.  *)
Arrive(h, op, r) ==
  /\ req[h].step = "idle"
  /\ op \in Serves[h]
  /\ r.who \in live
  /\ r.target # None => row[r.target].status # "absent"
  /\ req' = [req EXCEPT ![h] = r]
  /\ UNCHANGED <<row, ballots, live, history>>

PostSubmission(h) ==
  \E u \in Accounts :
    Arrive(h, "create", Request("create", u, None, None, "none"))

PostVote(h) ==
  \E u \in Accounts, i \in Ips, t \in Targets :
    /\ cast[t] < MaxCast
    /\ Arrive(h, "vote", Request("vote.read", u, i, t, "none"))

PatchReview(h) ==
  \E u \in Reviewers, t \in Targets, d \in Decided :
    Arrive(h, "review", Request("review.read", u, None, t, d))

PutSubmission(h) ==
  \E u \in Accounts, t \in Targets :
    Arrive(h, "update", Request("update.read", u, None, t, "none"))

DeleteSubmission(h) ==
  \E u \in Admins, t \in Targets :
    Arrive(h, "delete", Request("delete.read", u, None, t, "none"))

DeleteMe(h) ==
  \E u \in Accounts :
    Arrive(h, "account", Request("account.votes", u, None, None, "none"))

-----------------------------------------------------------------------------
(* Defects the properties at the end are tested against: each stands for    *)
(* the definition whose name it extends.                                    *)
CreateWithoutDefault(h, T) ==       \* voteCount has no default in the table
  /\ req[h].step = "create"
  /\ \E t \in T, x \in Texts :
       /\ row[t] = Absent
       /\ row' = [row EXCEPT ![t] = [status |-> "pending",
                    owner |-> req[h].who, votes |-> None, text |-> x]]
  /\ Answered(h)
  /\ UNCHANGED <<ballots, live, history>>

(* PoisService and DistrictsService share one shape; T is the service's     *)
(* table.  The foreign key on createdById refuses a creator who is gone.    *)
Create(h, T) ==
  /\ req[h].step = "create"
  /\ IF req[h].who \in live
     THEN \E t \in T, x \in Texts :
            /\ row[t] = Absent
            /\ RoomLeft
            /\ row' = [row EXCEPT ![t] = [status |-> "pending",
                         owner |-> req[h].who, votes |-> 0, text |-> x]]
     ELSE UNCHANGED row
  /\ Answered(h)
  /\ UNCHANGED <<ballots, live, history>>

ReviewRead(h, T) ==
  /\ req[h].step = "review.read" /\ req[h].target \in T
  /\ IF Exists(req[h].target) THEN GoTo(h, "review.write") ELSE Answered(h)
  /\ UNCHANGED <<row, ballots, live, history>>

(* The status read is not looked at: any stored row can be reviewed again. *)
(* An UPDATE of a row that is gone affects nothing; reviewedById must name  *)
(* an account that still exists.                                            *)
ReviewWrite(h, T) ==
  LET t == req[h].target
      d == req[h].verdict
  IN
  /\ req[h].step = "review.write" /\ t \in T
  /\ IF Exists(t) /\ req[h].who \in live
     THEN /\ row' = [row EXCEPT ![t].status = d]
          /\ endorsed' = [endorsed EXCEPT ![t] = @ \/ d = "approved"]
     ELSE UNCHANGED <<row, endorsed>>
  /\ Answered(h)
  /\ UNCHANGED <<ballots, live, cast>>

UpdateRead(h, T) ==
  LET t == req[h].target IN
  /\ req[h].step = "update.read" /\ t \in T
  /\ IF row[t].status = "pending" /\ row[t].owner = req[h].who
     THEN GoTo(h, "update.write") ELSE Answered(h)
  /\ UNCHANGED <<row, ballots, live, history>>

(* The votes already counted for the previous text are kept. *)
UpdateWrite(h, T) ==
  LET t == req[h].target IN
  /\ req[h].step = "update.write" /\ t \in T
  /\ IF Exists(t)
     THEN \E x \in Texts : row' = [row EXCEPT ![t].text = x]
     ELSE UNCHANGED row
  /\ Answered(h)
  /\ UNCHANGED <<ballots, live, history>>

(* The route asks for the admin role, so everyone who gets here is elevated *)
(* and the 403 of the last branch is out of reach.                          *)
DeleteRead(h, T) ==
  LET t == req[h].target IN
  /\ req[h].step = "delete.read" /\ t \in T
  /\ CASE ~Exists(t) -> Answered(h)
       [] Exists(t) /\ row[t].owner = req[h].who /\ row[t].status = "pending"
            -> GoTo(h, "delete.row")
       [] OTHER -> GoTo(h, "delete.reject")
  /\ UNCHANGED <<row, ballots, live, history>>

DeleteRow(h, T) ==
  LET t == req[h].target IN
  /\ req[h].step = "delete.row" /\ t \in T
  /\ row' = IF Exists(t) THEN [row EXCEPT ![t] = Gone] ELSE row
  /\ Answered(h)
  /\ UNCHANGED <<ballots, live, history>>

DeleteReject(h, T) ==
  LET t == req[h].target IN
  /\ req[h].step = "delete.reject" /\ t \in T
  /\ row' = IF Exists(t) /\ req[h].who \in live
            THEN [row EXCEPT ![t].status = "rejected"] ELSE row
  /\ Answered(h)
  /\ UNCHANGED <<ballots, live, history>>

PoisService(h) ==
  \/ Create(h, Pois)
  \/ ReviewRead(h, Pois) \/ ReviewWrite(h, Pois)
  \/ UpdateRead(h, Pois) \/ UpdateWrite(h, Pois)
  \/ DeleteRead(h, Pois) \/ DeleteRow(h, Pois) \/ DeleteReject(h, Pois)

DistrictsService(h) ==
  \/ Create(h, Districts)
  \/ ReviewRead(h, Districts) \/ ReviewWrite(h, Districts)
  \/ UpdateRead(h, Districts) \/ UpdateWrite(h, Districts)
  \/ DeleteRead(h, Districts) \/ DeleteRow(h, Districts)
  \/ DeleteReject(h, Districts)

-----------------------------------------------------------------------------
(* Some stored vote for the target has this user or this address. *)
HasVoted(u, i, t) == \E b \in ballots : b[1] = t /\ (b[2] = u \/ b[3] = i)

VoteReadAnyStatus(h, T) ==          \* the check for "pending" is lost
  /\ req[h].step = "vote.read" /\ req[h].target \in T
  /\ IF Exists(req[h].target)
     THEN req' = [req EXCEPT ![h].step = "vote.check",
                             ![h].seen = row[req[h].target].votes]
     ELSE Answered(h)
  /\ UNCHANGED <<row, ballots, live, history>>

VoteInsertWithoutIndex(h) ==        \* the unique indexes are missing
  LET q == req[h] IN
  /\ q.step = "vote.insert"
  /\ ballots' = ballots \cup {<<q.target, q.who, q.ip>>}
  /\ cast' = [cast EXCEPT ![q.target] = @ + 1]
  /\ GoTo(h, "vote.count")
  /\ UNCHANGED <<row, live, endorsed>>

VoteCheckFallsThrough(h) ==         \* a repeated vote is not stored, and still counted
  /\ req[h].step = "vote.check"
  /\ GoTo(h, IF HasVoted(req[h].who, req[h].ip, req[h].target)
             THEN "vote.count" ELSE "vote.insert")
  /\ UNCHANGED <<row, ballots, live, history>>

VoteCountOffByOne(h) ==             \* approves one vote early
  LET t == req[h].target
      n == req[h].seen + 1
  IN
  /\ req[h].step = "vote.count"
  /\ row' = IF Exists(t)
            THEN [row EXCEPT ![t].votes = n,
                    ![t].status = IF n + 1 >= Threshold THEN "approved" ELSE @]
            ELSE row
  /\ Answered(h)
  /\ UNCHANGED <<ballots, live, history>>

VoteCountBySave(h) ==               \* save() of the entity re-inserts a deleted row
  LET t == req[h].target
      n == req[h].seen + 1
  IN
  /\ req[h].step = "vote.count"
  /\ row' = [row EXCEPT ![t].votes = n,
               ![t].status = IF n >= Threshold THEN "approved" ELSE "pending"]
  /\ Answered(h)
  /\ UNCHANGED <<ballots, live, history>>

(* Reading the target: the count read here is the one written back later. *)
VoteRead(h, T) ==
  LET t == req[h].target IN
  /\ req[h].step = "vote.read" /\ t \in T
  /\ IF row[t].status = "pending"
     THEN req' = [req EXCEPT ![h].step = "vote.check", ![h].seen = row[t].votes]
     ELSE Answered(h)
  /\ UNCHANGED <<row, ballots, live, history>>

VoteOnPoi(h) == VoteRead(h, Pois)
VoteOnDistrict(h) == VoteRead(h, Districts)

VoteCheck(h) ==
  /\ req[h].step = "vote.check"
  /\ IF HasVoted(req[h].who, req[h].ip, req[h].target)
     THEN Answered(h) ELSE GoTo(h, "vote.insert")
  /\ UNCHANGED <<row, ballots, live, history>>

(* The unique indexes on (target, user) and (target, ip) decide a race that *)
(* both requests passed VoteCheck in; the loser ends with an error.  The    *)
(* votes table references neither users nor the target.                     *)
VoteInsert(h) ==
  LET q == req[h] IN
  /\ q.step = "vote.insert"
  /\ IF HasVoted(q.who, q.ip, q.target)
     THEN Answered(h) /\ UNCHANGED <<ballots, cast>>
     ELSE /\ ballots' = ballots \cup {<<q.target, q.who, q.ip>>}
          /\ cast' = [cast EXCEPT ![q.target] = @ + 1]
          /\ GoTo(h, "vote.count")
  /\ UNCHANGED <<row, live, endorsed>>

(* Writes back the count read by VoteRead plus one, and approves when that  *)
(* reaches the threshold, whatever status the row has by now.               *)
VoteCount(h) ==
  LET t == req[h].target
      n == req[h].seen + 1
  IN
  /\ req[h].step = "vote.count"
  /\ row' = IF ~Exists(t) THEN row
            ELSE IF n >= Threshold
            THEN [row EXCEPT ![t].votes = n, ![t].status = "approved"]
            ELSE [row EXCEPT ![t].votes = n]
  /\ Answered(h)
  /\ UNCHANGED <<ballots, live, history>>

VotesService(h) ==
  VoteOnPoi(h) \/ VoteOnDistrict(h) \/ VoteCheck(h) \/ VoteInsert(h) \/ VoteCount(h)

-----------------------------------------------------------------------------
(* UsersService.deleteAccount: the votes first, no count is corrected... *)
DeleteVotes(h) ==
  /\ req[h].step = "account.votes"
  /\ ballots' = {b \in ballots : b[2] # req[h].who}
  /\ GoTo(h, "account.user")
  /\ UNCHANGED <<row, live, history>>

(* ... then the account, which takes the submissions it created with it     *)
(* (createdById is ON DELETE CASCADE in both tables).                       *)
DeleteUser(h) ==
  /\ req[h].step = "account.user"
  /\ live' = live \ {req[h].who}
  /\ row' = [t \in Targets |->
               IF row[t].owner = req[h].who THEN Gone ELSE row[t]]
  /\ Answered(h)
  /\ UNCHANGED <<ballots, history>>

(* A statement fails or the process is restarted: what was committed stays. *)
Fail(h) ==
  /\ h \in MayFail
  /\ req[h].step # "idle"
  /\ Answered(h)
  /\ UNCHANGED <<row, ballots, live, history>>

Next ==
  \E h \in Handlers :
    \/ PostSubmission(h) \/ PostVote(h) \/ PatchReview(h)
    \/ PutSubmission(h) \/ DeleteSubmission(h) \/ DeleteMe(h)
    \/ PoisService(h) \/ DistrictsService(h) \/ VotesService(h)
    \/ DeleteVotes(h) \/ DeleteUser(h)
    \/ Fail(h)

Spec == Init /\ [][Next]_vars

-----------------------------------------------------------------------------
Steps == {"idle", "create", "vote.read", "vote.check", "vote.insert",
          "vote.count", "review.read", "review.write", "update.read",
          "update.write", "delete.read", "delete.row", "delete.reject",
          "account.votes", "account.user"}

Rows == [status : Stored \cup {"absent", "gone"}, owner : Accounts \cup {None},
         votes : Nat, text : Texts \cup {None}]

Requests == [step : Steps, who : Accounts \cup {None}, ip : Ips \cup {None},
             target : Targets \cup {None}, seen : Nat,
             verdict : Decided \cup {"none"}]

(* The shape of the tables and of every request being served. *)
TypeOK ==
  /\ row \in [Targets -> Rows]
  /\ ballots \subseteq Targets \X Accounts \X Ips
  /\ live \subseteq Accounts
  /\ req \in [Handlers -> Requests]
  /\ cast \in [Targets -> Nat]
  /\ endorsed \in [Targets -> BOOLEAN]

(* VotesService.voteOnTarget writes a count that may be stale, so votes can *)
(* be lost; none is ever invented: voteCount never exceeds the votes cast.  *)
NoVoteInvented == \A t \in Targets : row[t].votes <= cast[t]

(* However stale the count a vote adds to, a submission is only approved    *)
(* because a reviewer approved it or because Threshold votes were cast.     *)
ApprovalIsEarned ==
  \A t \in Targets :
    row[t].status = "approved" => endorsed[t] \/ cast[t] >= Threshold

(* Two requests can pass the "already voted" check together: still no user  *)
(* and no address ever has two stored votes for one submission.             *)
OneVotePerVoter ==
  \A a, b \in ballots :
    a[1] = b[1] /\ (a[2] = b[2] \/ a[3] = b[3]) => a = b

VoteSteps == {"vote.read", "vote.check", "vote.insert", "vote.count"}
TargetSteps == Steps \ {"idle", "create", "account.votes", "account.user"}

(* What a handler may rely on between two statements.  The count a vote     *)
(* read is at most the votes cast so far, and its own vote comes on top:    *)
(* this is what makes NoVoteInvented and ApprovalIsEarned inductive.        *)
RequestOK(q) ==
  /\ q.step # "idle" => q.who \in Accounts
  /\ q.step \in TargetSteps =>
       q.target \in Targets /\ row[q.target].status # "absent"
  /\ q.step \in VoteSteps => q.ip \in Ips
  /\ q.step \in {"review.read", "review.write"} => q.verdict \in Decided
  /\ q.step \in {"vote.check", "vote.insert"} => q.seen <= cast[q.target]
  /\ q.step = "vote.count" => q.seen < cast[q.target]
RequestsOK == \A h \in Handlers : RequestOK(req[h])

(* Only a stored row has an owner. *)
OwnersOK == \A t \in Targets : row[t].owner # None => Exists(t)

IInv == TypeOK /\ RequestsOK /\ OwnersOK /\ NoVoteInvented /\ ApprovalIsEarned

(* Requests that read the row while it was pending and have yet to act.     *)
PendingOnly == {"vote.check", "vote.insert", "vote.count", "update.write",
                "delete.row"}
Racing(t) == {h \in Handlers : req[h].target = t /\ req[h].step \in PendingOnly}
Settled(t) == row[t].status \in Decided /\ Racing(t) = {}

(* Votes, owner updates and owner deletions check for "pending" and act one *)
(* statement later.  Once a submission is decided and the requests that     *)
(* were under way have ended, they never touch it again: its text and its   *)
(* count stay, and it stays decided until its owner's account goes.         *)
SettledStays ==
  [][\A t \in Targets :
       Settled(t) => \/ row'[t] = Gone /\ row[t].owner \notin live'
                     \/ /\ row'[t].status \in Decided
                        /\ Racing(t)' = {}
                        /\ row'[t].text = row[t].text
                        /\ row'[t].votes = row[t].votes]_vars

(* Every behaviour is one of the abstract life cycle. *)
Lifecycle == INSTANCE SubmissionLifecycle WITH
  phase <- [t \in Targets |-> row[t].status], backing <- cast
LifecycleSpec == Lifecycle!Spec
=============================================================================

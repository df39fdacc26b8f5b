------------------------------ MODULE Ratings ------------------------------
(***************************************************************************)
(* Community ratings of published places and the summary cached on each    *)
(* place (RatingsService).                                                 *)
(*                                                                         *)
(* A rating or its removal is followed by refreshSummary: one statement    *)
(* that aggregates the ratings of authors who are not banned, and one that *)
(* writes the result to the place.  Bans and the deletion of accounts      *)
(* change what the aggregate would be and refresh nothing.                 *)
(***************************************************************************)
EXTENDS Integers, FiniteSets, FiniteSetsExt

CONSTANTS
  Places,       \* rows of pois
  Owner,        \* [Places -> Accounts \cup {None}]; imports have no owner
  Accounts,     \* user accounts
  Moderators,   \* accounts whose role is at least reviewer
  Stars,        \* the ratings a place can be given
  Ids,          \* ids of place_ratings rows
  Handlers,     \* bound: requests served at the same time
  Serves,       \* bound: [Handlers -> SUBSET Ops], what each one serves
  MayFail,      \* bound: the handlers a failure can cut short
  Bannable,     \* bound: the accounts that get banned and unbanned
  Leaving,      \* bound: the accounts that get deleted
  None

Ops == {"rate", "remove"}

ASSUME RatingsAssumption ==
  /\ Owner \in [Places -> Accounts \cup {None}]
  /\ Moderators \subseteq Accounts
  /\ Stars \subseteq 1..5
  /\ Serves \in [Handlers -> SUBSET Ops]
  /\ MayFail \subseteq Handlers
  /\ Bannable \subseteq Accounts /\ Leaving \subseteq Accounts
  /\ None \notin Accounts \cup Places \cup Ids \cup Stars \cup (10..50)

VARIABLES
  ratings,     \* the place_ratings table
  present,     \* places whose row exists
  published,   \* places that are approved and not hidden by a ban
  summary,     \* Places -> the cached ratingCount and communityRating
  live,        \* accounts that exist
  banned,      \* accounts whose banned flag is set
  used,        \* rating ids given out so far
  req,         \* Handlers -> the request being served
  drifted      \* history: places whose summary no undisturbed refresh wrote last

vars == <<ratings, present, published, summary, live, banned, used, req, drifted>>
accounts == <<live, banned>>
places == <<present, published>>

Request(step, who, place, stars, id) ==
  [step |-> step, who |-> who, place |-> place, stars |-> stars, id |-> id,
   read |-> [count |-> 0, mean |-> None], fresh |-> TRUE]
Idle == Request("idle", None, None, None, None)

Init ==
  /\ ratings = {}
  /\ present = Places
  /\ published = Places
  /\ summary = [p \in Places |-> [count |-> 0, mean |-> None]]
  /\ live = Accounts
  /\ banned = {}
  /\ used = {}
  /\ req = [h \in Handlers |-> Idle]
  /\ drifted = {}

Answered(h) == req' = [req EXCEPT ![h] = Idle]
GoTo(h, step) == req' = [req EXCEPT ![h].step = step]

-----------------------------------------------------------------------------
(* Mean in tenths, rounded half up: Math.round(avg * 10) / 10. *)
SummaryOf(rows) ==
  LET n == Cardinality(rows)
      total == MapThenSumSet(LAMBDA r : r.stars, rows)
  IN [count |-> n, mean |-> IF n = 0 THEN None ELSE (20 * total + n) \div (2 * n)]

RatingsOf(p) == {r \in ratings : r.place = p}

(* What list shows: the ratings of authors who are not banned. *)
Listed(p) == {r \in RatingsOf(p) : r.author \notin banned}

(* Requests between the two statements of a refresh of p. *)
Refreshing(p) == {h \in Handlers : /\ req[h].place = p
                                   /\ req[h].step \in {"sum.read", "sum.write"}}

(* h goes on to `step`; refreshes of p that have read are now out of date.  *)
GoOnStaling(h, step, p) ==
  req' = [g \in Handlers |->
            IF g = h THEN [req[h] EXCEPT !.step = step]
            ELSE IF req[g].place = p /\ req[g].step = "sum.write"
            THEN [req[g] EXCEPT !.fresh = FALSE] ELSE req[g]]

-----------------------------------------------------------------------------
(* JwtAuthGuard looks at the account once, before the handler runs. *)
Arrive(h, op, r) ==
  /\ req[h].step = "idle"
  /\ op \in Serves[h]
  /\ r.who \in live \ banned
  /\ req' = [req EXCEPT ![h] = r]
  /\ UNCHANGED <<ratings, places, summary, accounts, used, drifted>>

PutRating(h) ==
  \E u \in Accounts, p \in Places, s \in Stars :
    Arrive(h, "rate", Request("rate.place", u, p, s, None))

DeleteRating(h) ==
  \E u \in Accounts, p \in Places, i \in used :
    Arrive(h, "remove", Request("drop.find", u, p, None, i))

FindPublishedOrNot(h) ==            \* defect: the place need not be published
  /\ req[h].step = "rate.place"
  /\ IF req[h].place \in present THEN GoTo(h, "rate.find") ELSE Answered(h)
  /\ UNCHANGED <<ratings, places, summary, accounts, used, drifted>>

(* findPublishedPoi *)
FindPublished(h) ==
  /\ req[h].step = "rate.place"
  /\ IF req[h].place \in published \cap present
     THEN GoTo(h, "rate.find") ELSE Answered(h)
  /\ UNCHANGED <<ratings, places, summary, accounts, used, drifted>>

(* The author's earlier rating, if any, is the row that save will write. *)
FindExisting(h) ==
  LET q == req[h] IN
  /\ q.step = "rate.find"
  /\ \E i \in Ids \cup {None} :
       /\ IF \E r \in RatingsOf(q.place) : r.author = q.who
          THEN \E r \in RatingsOf(q.place) : r.author = q.who /\ i = r.id
          ELSE i = None
       /\ req' = [req EXCEPT ![h].step = "rate.save", ![h].id = i]
  /\ UNCHANGED <<ratings, places, summary, accounts, used, drifted>>

Rating(i, q) == [id |-> i, place |-> q.place, author |-> q.who, stars |-> q.stars]

SaveWithoutIndex(h) ==              \* defect: the unique index is missing
  LET q == req[h] IN
  /\ q.step = "rate.save"
  /\ IF q.place \in present /\ q.who \in live
     THEN \E i \in IF q.id = None THEN Ids \ used ELSE {q.id} :
            /\ ratings' = {r \in ratings : r.id # i} \cup {Rating(i, q)}
            /\ used' = used \cup {i}
            /\ GoOnStaling(h, "sum.read", q.place)
     ELSE Answered(h) /\ UNCHANGED <<ratings, used>>
  /\ UNCHANGED <<places, summary, accounts, drifted>>

(* Repository.save: an UPDATE of the row that was found or, when it is gone *)
(* by now, an INSERT under its old id; an INSERT under a new id when none   *)
(* was found.  The index on (poiId, authorId) and the foreign keys refuse.  *)
Save(h) ==
  LET q == req[h]
      mine == {r \in RatingsOf(q.place) : r.author = q.who}
  IN
  /\ q.step = "rate.save"
  /\ IF /\ q.place \in present /\ q.who \in live
        /\ \A r \in mine : r.id = q.id
     THEN \E i \in IF q.id = None THEN Ids \ used ELSE {q.id} :
            /\ ratings' = (ratings \ mine) \cup {Rating(i, q)}
            /\ used' = used \cup {i}
            /\ GoOnStaling(h, "sum.read", q.place)
     ELSE Answered(h) /\ UNCHANGED <<ratings, used>>
  /\ UNCHANGED <<places, summary, accounts, drifted>>

(* Authors remove their own ratings, moderators remove any. *)
FindRating(h) ==
  LET q == req[h] IN
  /\ q.step = "drop.find"
  /\ IF \E r \in RatingsOf(q.place) :
          r.id = q.id /\ (r.author = q.who \/ q.who \in Moderators)
     THEN GoTo(h, "drop.row") ELSE Answered(h)
  /\ UNCHANGED <<ratings, places, summary, accounts, used, drifted>>

DropRow(h) ==
  LET q == req[h] IN
  /\ q.step = "drop.row"
  /\ ratings' = {r \in ratings : r.id # q.id}
  /\ GoOnStaling(h, "sum.read", q.place)
  /\ UNCHANGED <<places, summary, accounts, used, drifted>>

-----------------------------------------------------------------------------
ReadAllAuthors(h) ==                \* defect: banned authors are counted
  LET q == req[h] IN
  /\ q.step = "sum.read"
  /\ req' = [req EXCEPT ![h].step = "sum.write", ![h].fresh = TRUE,
                        ![h].read = SummaryOf(RatingsOf(q.place))]
  /\ UNCHANGED <<ratings, places, summary, accounts, used, drifted>>

(* refreshSummary: the aggregate ... *)
ReadSummary(h) ==
  LET q == req[h] IN
  /\ q.step = "sum.read"
  /\ req' = [req EXCEPT ![h].step = "sum.write", ![h].fresh = TRUE,
                        ![h].read = SummaryOf(Listed(q.place))]
  /\ UNCHANGED <<ratings, places, summary, accounts, used, drifted>>

WriteSummaryKeepsMean(h) ==         \* defect: without ratings the old mean stays
  LET p == req[h].place  s == req[h].read
      mean == IF s.count = 0 THEN summary[p].mean ELSE s.mean
  IN
  /\ req[h].step = "sum.write"
  /\ summary' = IF p \in present
                THEN [summary EXCEPT ![p].count = s.count, ![p].mean = mean] ELSE summary
  /\ drifted' = IF req[h].fresh THEN drifted \ {p} ELSE drifted \cup {p}
  /\ Answered(h)
  /\ UNCHANGED <<ratings, places, accounts, used>>

(* ... and the UPDATE of the place. *)
WriteSummary(h) ==
  LET p == req[h].place IN
  /\ req[h].step = "sum.write"
  /\ summary' = IF p \in present THEN [summary EXCEPT ![p] = req[h].read] ELSE summary
  /\ drifted' = IF req[h].fresh THEN drifted \ {p} ELSE drifted \cup {p}
  /\ Answered(h)
  /\ UNCHANGED <<ratings, places, accounts, used>>

-----------------------------------------------------------------------------
(* What the other services do to the rows a summary depends on.  Summaries  *)
(* of places the account rated are out of date from then on.                *)
RatedBy(u) == {r.place : r \in {s \in ratings : s.author = u}}
Stale(P) ==
  /\ drifted' = drifted \cup P
  /\ req' = [g \in Handlers |->
               IF req[g].place \in P /\ req[g].step = "sum.write"
               THEN [req[g] EXCEPT !.fresh = FALSE] ELSE req[g]]

SetBanStatus(u) ==
  /\ u \in Bannable \cap live
  /\ banned' = IF u \in banned THEN banned \ {u} ELSE banned \cup {u}
  /\ Stale(RatedBy(u))
  /\ UNCHANGED <<ratings, places, summary, live, used>>

(* Ratings and places reference the account with ON DELETE CASCADE. *)
DeleteUser(u) ==
  /\ u \in Leaving \cap live
  /\ live' = live \ {u}
  /\ banned' = banned \ {u}
  /\ present' = {p \in present : Owner[p] # u}
  /\ ratings' = {r \in ratings : r.author # u /\ Owner[r.place] # u}
  /\ Stale(RatedBy(u))
  /\ UNCHANGED <<published, summary, used>>

(* A review or a ban of the owner publishes a place or takes it back. *)
SetPublished(p) ==
  /\ p \in present
  /\ published' = IF p \in published THEN published \ {p} ELSE published \cup {p}
  /\ UNCHANGED <<ratings, present, summary, accounts, used, req, drifted>>

(* A statement fails or the process is restarted: what was committed stays. *)
Fail(h) ==
  /\ h \in MayFail
  /\ req[h].step # "idle"
  /\ Answered(h)
  /\ drifted' = drifted \cup {p \in Places : h \in Refreshing(p)}
  /\ UNCHANGED <<ratings, places, summary, accounts, used>>

Next ==
  \/ \E h \in Handlers :
       \/ PutRating(h) \/ DeleteRating(h)
       \/ FindPublished(h) \/ FindExisting(h) \/ Save(h)
       \/ FindRating(h) \/ DropRow(h)
       \/ ReadSummary(h) \/ WriteSummary(h)
       \/ Fail(h)
  \/ \E u \in Accounts : SetBanStatus(u) \/ DeleteUser(u)
  \/ \E p \in Places : SetPublished(p)

Spec == Init /\ [][Next]_vars

-----------------------------------------------------------------------------
Steps == {"idle", "rate.place", "rate.find", "rate.save", "drop.find",
          "drop.row", "sum.read", "sum.write"}
Rows == [id : Ids, place : Places, author : Accounts, stars : Stars]
Summaries == [count : Nat, mean : (10..50) \cup {None}]
Requests == [step : Steps, who : Accounts \cup {None}, place : Places \cup {None},
             stars : Stars \cup {None}, id : Ids \cup {None},
             read : Summaries, fresh : BOOLEAN]

(* The shape of the tables, and the scale: no mean leaves 1.0 to 5.0, and   *)
(* there is a mean exactly when something is counted.                       *)
TypeOK ==
  /\ ratings \subseteq Rows
  /\ \A r \in ratings : r.place \in present /\ r.author \in live
  /\ present \subseteq Places /\ published \subseteq Places
  /\ summary \in [Places -> Summaries]
  /\ \A p \in Places : summary[p].mean = None <=> summary[p].count = 0
  /\ live \subseteq Accounts /\ banned \subseteq live
  /\ used \subseteq Ids
  /\ req \in [Handlers -> Requests]
  /\ drifted \subseteq Places

(* place-rating.entity.ts: "One per person per place; rating again updates   *)
(* it", though two requests can both find no earlier rating, and a stale    *)
(* save can bring a removed row back beside a newer one.                    *)
OneRatingPerPerson ==
  \A r, s \in ratings :
    r.id = s.id \/ (r.place = s.place /\ r.author = s.author) => r = s

(* However refreshes raced before: once a refresh has run with nothing      *)
(* changing between its two statements, and none is under way, the summary  *)
(* on the place is that of the ratings a visitor is shown.                  *)
SummaryHeals ==
  \A p \in present :
    Refreshing(p) = {} /\ p \notin drifted => summary[p] = SummaryOf(Listed(p))

(* Requests that found the place published and have yet to write. *)
Saving(p) == {h \in Handlers : /\ req[h].place = p
                                /\ req[h].step \in {"rate.find", "rate.save"}}

(* The place is looked at once, statements before the rating is saved.      *)
(* Once a place is withdrawn and the requests under way have ended, no      *)
(* rating of it is added or changed until it is published again.            *)
WithdrawnIsLeftAlone ==
  [][\A p \in Places :
       p \notin published /\ p \notin published' /\ Saving(p) = {}
         => Saving(p)' = {} /\ RatingsOf(p)' \subseteq RatingsOf(p)]_vars
=============================================================================

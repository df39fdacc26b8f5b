# Colours of Safety in TLA+

A specification of the parts of Colours of Safety that can go wrong in ways a
test hardly reaches: what its NestJS backend does to shared PostgreSQL tables
when requests overlap, fail half-way or lose the account they act for; what the
weekly import does when it is killed and run again; and what the Angular client
shows when answers come late, out of order or not at all. Each module is
translated from the code under `src/`; TLC checks it on small instances, and
TLAPS proves for every instance every safety property that a passing run checks,
of the backend, the import and the client alike.

## 1. The system

People put queer-friendly **places** (`pois`) and **areas** (`districts`) on a
map. Submissions wait in a queue until a reviewer decides or enough community
votes arrive; published entries collect ratings, edit proposals and reports.
A NestJS backend (`src/backend`) serves an Angular client (`src/frontend`); all
shared state is in one PostgreSQL database. A cron job imports places from
public data.

Two facts make this hard:

- **Every `await` on a repository is a statement that commits by itself.** No
  handler opens a transaction or takes a lock, several run at once (Node
  interleaves them at every `await`), and a failure or restart leaves whatever
  was committed. A handler that reads, checks and writes acts on what was true
  some statements ago. What the database does decide atomically is one
  statement, with its unique indexes and foreign keys; those are in the models
  exactly where a statement meets them.
- **The client cancels nothing.** Every click may send a request, several are
  under way at once, and each answer runs its callback against whatever the
  page holds by then. An answer can be lost after the server has done its part.

| Component | State | Operations | Talks to | Hard behaviour | Correct when |
|---|---|---|---|---|---|
| Submissions (`pois`, `districts` services) | `pois`, `districts`: status, text, owner, voteCount, reviewer | create, review, update, delete, listings | votes and bans write the same rows; accounts cascade | owner's check for "pending" is a statement before the write | what is decided is left alone; a row never comes back |
| Votes (`common/votes.service.ts`) | `votes`, `voteCount`, `status` | vote, hasVoted | submissions, accounts | count and status are read two statements before they are written | counts and approvals are backed by votes; one vote each |
| Bans (`users.service.ts`, `users.controller.ts`, `auth/jwt.strategy.ts`) | `users.banned`, `pois.banned`, `districts.banned` | ban, unban | every guarded request, every public list | three updates, other sweeps, submissions under way | rows agree with the account; a banned account is silent |
| Edit proposals (`edits`) | `edit_proposals`, fields of the target | propose, review | submissions, accounts | up to four statements, two reviewers, failure between apply and close | outcome and target agree; edits compose |
| Ratings (`ratings`) | `place_ratings`, `pois.ratingCount`, `pois.communityRating` | upsert, remove, list | submissions, bans, accounts | cached aggregate refreshed by read-then-write | one rating per person; the cache heals |
| Accounts (`auth.service.ts`, `users`) | `users`: address, verified flag, three hashed tokens with their expiry | register, verify, resend, change password, change address, confirm, forgot, reset, delete | mail, every table with an owner | account found by link, written a statement (and a bcrypt) later | verified means proven; addresses unique; dead links stay dead |
| Sessions (`auth.service.ts`, `jwt.strategy.ts`) | a JWT in a cookie, `passwordChangedAt` | login, logout, me, password change, reset | accounts | whole-second comparison, login racing a password change | a password change ends every earlier session |
| Roles (`users.controller.ts`, `roles.guard.ts`) | `users.role` | assignRole, guard | every moderated route | role read by the guard, used later | whoever changes an account had the right to |
| Reports (`reports`, `report-dialog.ts`, `reports-queue.ts`) | `reports`; the dialog; the list of a tab | create, resolve, list; open, send; load, decide | submissions, ratings | check and update apart; tabs racing loads; dialog reopened | one outcome per report; the list follows the reports it was asked for |
| Public view (`public-serializer.ts`, `findVisibleById`) | none | who sees which row and author | all reads | anonymity and owner exceptions | nobody sees what is hidden from them |
| Geo-data import (`seed/geo-data-seed.service.ts`) | a set of keys in memory, `pois`, `districts` | curated lists, Overpass, Wikidata, batches, retries | the same tables; external services | reruns after a crash, partial failure of a round, back-off | no place twice; one failing city costs nothing else |
| Client: session (`core/auth.service.ts`, guards, login, profile) | the user shown, the cookie, the page | restore, refresh, login, logout, password change, deletion | sessions | answers out of order or lost | the user shown is the owner of the cookie |
| Client: review queue (`review/review-queue.ts`) | two copies of the queue, selection, busy flags | load, filter, note, decide, bulk | the backend | copies drift, bulk beside single decisions | no open item dropped, no decided one left; buttons disabled only for a request under way |
| Client: map (`map/map.ts`) | loaded lists, layers, view and list of places, drawing mode, draft, edit form | load, filter, vote, remove, move, search, draw, submit, propose | the backend | lists, answers and gestures in any order; forms that stay open while sent | layers and list match what is loaded; nothing lost or stored twice |
| Client: own submissions (`submissions/my-submissions.ts`) | rows, one form for all of them | load, edit, save, delete | the backend | pairs of lists and saves that cross | the page agrees with the table |
| Other pages, profile, mail, seeded accounts, shell, wiring, migrations, deployment | | | | | see section 5 |

The hazards, each at its line and with the properties that watch it, are listed
in `PROJECT.json`.

## 2. What is modelled, and how

The backend's modules share one shape. `Handlers` are the requests in service at
one time; `req[h].step` names the statement that handler issues next and the
rest of the record holds what it read earlier and still relies on. One action is
one statement together with the pure code around it, up to the next `await`: its
guard is the code's conditions and early returns, its primed variables what the
statement writes. Actions named after controller methods (`PostVote`,
`PatchReview`, ...) are the arrival of a request past its guard; `Arrive` is
what `JwtStrategy.validate` looks at. `Fail` ends a request between any two
statements, which stands for an error of the database, a lost connection and
the restart of the process alike: nothing in memory matters except the
requests themselves.

The client's modules have the other shape. JavaScript runs an event handler or a
callback to its end, so each is one action; what interleaves are clicks, answers
and the server. A request is a record in a set (`loads`, `clicks`, `posts`,
`decides`, `requests`, `call`) with what the callback remembers of the moment it
was sent; it is served, then answered, or either part fails.

Variables marked *history* record what happened for the properties to speak of;
no guard of the code's actions reads them (the bounds and the flags `alone`,
`fresh` are bookkeeping of the same kind).

| Module | Models | State | One action per |
|---|---|---|---|
| `Moderation` | submissions and votes | `row` (both tables), `ballots`, `live`, `req`; history `cast`, `endorsed` | statement of create, review, update, delete, vote, deleteAccount |
| `SubmissionLifecycle` | the abstract promise of `Moderation` | `phase`, `backing`, `endorsed` | atomic event in the life of a submission |
| `BanSweep` | bans | `owner`, `hidden`, `used`, `live`, `banned`, `req`; history `clean`, `late` | update of setBanStatus; creation; deletion |
| `Edits` | edit proposals | `entry`, `present`, `proposal`, `live`, `req`; history `applied`, `disturbed` | statement of create and review |
| `Ratings` | ratings and their summary | `ratings`, `present`, `published`, `summary`, `live`, `banned`, `used`, `req`; history `drifted` | statement of upsert, remove, refreshSummary; one each for what bans, deletions and reviews do to them |
| `Accounts` | addresses and mailed links | `users`, `used`, `sent`, `req`; history `proven`, `spent` | statement of the nine operations |
| `Sessions` | sessions, passwords, roles, bans of accounts | `now`, `account`, `sessions`, `req`, `passwords` | guard, statement of login, change, reset, assignRole, setBanStatus, deleteAccount; tick of the clock |
| `ClientSession` | being signed in, in a tab; extends `Sessions` | `user`, `cookie`, `page`; history `tangled`, `parted` | click and answer of the session's pages; lost answers; reload |
| `GeoSeed` | the import | `phase`, `existingPoiKeys`, `round`, `fetch`, `queue`; the tables `imported`, `unpublished`, `submitted`; history `owed`, `gone` | read, query, retry, claim of a round, insert of a batch; kill and restart; what people do meanwhile |
| `Reports` | reports, the dialog and the moderator's list | `report`, `visible`, `serving`; dialog `target`, `sent`, `filing`; list `status`, `rows`, `loads`, `decides`; history `listed`, `estranged`, `overtaken` | statement of create and resolve; click and answer of both screens |
| `MySubmissions` | the page of a person's submissions, the handlers it calls, who sees the author | `row`; page `rows`, `editing`, `form`, `deleting`; `loads`, `requests`; history `estranged` | click and answer of the page; statement of update and delete |
| `ReviewQueue` | the reviewer's screen | `items`, `shown` (filteredItems), `filter`, `selected`, `bulkBusy`, the loading lists, `call` (requests under way), `row` (the backend); history `offered`, `failedSince` | event handler and callback; decision and refusal of the backend |
| `MapLayers` | lists, filters, votes and removals on the map | `stored` (the server), `filter`, `all`, `publicLayer`, `pendingLayer`, `loads`, `clicks`, `timers` | event handler, callback, timer |
| `MapView` | what the map shows and the list of places in view; extends `MapLayers` | `view`, `goal`, `located`, `searching`, `pendingAnnouncement`, `visiblePlaces`, `visibleTotal` | movement and its end, position, search, opening of a place |
| `MapEditor` | drawing, drafts and edit proposals; extends `MapView` | `drawing`, `draft`, `editingTarget`, `editGeometry`, `pin`, `posts`; the server `saved`, `proposals`; history `dropped`, `crossed`, `lost` | gesture, button, answer |

How they compose: `ClientSession` runs its tab against the very requests of
`Sessions` (a handler in `Watched` keeps its answer until the tab reads it);
`MapEditor` on top of `MapView` on top of `MapLayers` is one component of the
client in three parts, where a stored draft makes the layers load again and
every rebuilding of the layers makes the list anew; `Reports` and
`MySubmissions` hold both sides of their requests; `Moderation` is checked and
proved to implement `SubmissionLifecycle`.

`MC*` modules give TLC its instances (who serves what, visits, scenes,
symmetry); `*Proofs` modules hold the theorems, three of them for two components
each, whose names are kept apart for that (`ReportsSpec`, `MapSpec` and `PageSpec`
beside `Spec`). Definitions with a comment
`defect: ...` are variants of the definition they are named after with one
plausible mistake in it (a check lost, an index missing, one vote too few);
`PROJECT.json` pairs each with the property that tells it from the code.

Choices a reader should know:

- *Places and areas.* The two services have one shape, so `Moderation` has one
  set of actions with the table as a parameter; `PoisService` and
  `DistrictsService` instantiate it.
- *Removal.* `delete` is open to admins only (`RolesGuard`), so its last branch,
  a 403 for others, is out of reach. An admin who owns a pending row deletes it;
  every other removal is a rejection.
- *Votes.* `/vote` has the guard, so a vote always has a user. The default
  threshold is 5 in the code and 10 in `docs/PRD.md:143`; `Threshold` is a
  constant here.
- *Foreign keys.* A creator, author or reviewer who has been deleted makes the
  statement that names them fail. Votes and edit targets reference nothing, so
  a vote or an edit can outlive what it is for. UPDATE and DELETE of a row that
  is gone affect nothing.
- *Ids* are used once, as UUIDs are; a row that is deleted is "gone" for ever.
  (A rating is the exception: `save` of a rating removed meanwhile inserts it
  again under its old id, and `Ratings` does so.)
- *Tokens* are used once, as 256 random bits are. Mail is not awaited: a link
  exists from the statement that mails it on, and a lost mail is a link nobody
  follows. Expiry, wrong passwords and bans show in `Accounts` as a request
  that may end early.
- *Passwords and time.* In `Sessions` a password is the serial number of its
  choice, and the clock runs in fractions of a second because tokens are dated
  in whole ones. A session records which password it was got with and which
  passwords were written while it was being got; that is what
  `OldPasswordSessionsEnd` compares. Sessions last days, so none expires. `Scenes`
  chooses what goes on in one behaviour, so that one run has several small mixes
  of requests in place of one large one.
- *Edits* starts from published entries. A proposal can also be made for a
  pending one, whose owner may still be changing it; that is left out.
  `Trim` stands for what `applyProposal` stores for a value (addresses,
  websites and opening hours are trimmed, blank ones become null).
- *Ratings.* `SummaryOf` computes what the SQL aggregate and `Math.round` do,
  in tenths. Bans, deletions and reviews happen there in one step; their own
  statements are in `BanSweep` and `Moderation`.
- *The import.* A key stands for what `poiKey` makes of a name and a position.
  Only Overpass answers "busy"; the delays between attempts have no length, they
  end some time. `concurrencyPolicy: Forbid` in `k8s/seed-cronjob.yml` is why two
  runs never overlap, its deadline is why one can be killed at any `await`.
- *The review screen.* `decide` and `bulkAction` are translated as they are, both
  verdicts alike: the screen does with either the same. `applyFilter` sorts the
  array of `items` in place when the tab is "all"; the two copies then share
  entries, but every later change makes new ones, so they drift as copies do.
- *The list of reports.* `findByStatus` takes 200 reports at most, the oldest of
  the open ones or the newest of the handled ones; `Limit` stands for the 200, and
  a report's number for the moment it was made. Reports are never deleted, so a tab
  can hold more. (No two are made at the same moment here.)
- *The list of places.* `ByDistance` lets places at the same distance come in any
  order. The sort of the code keeps them in the order of the loaded list, which is
  one of these.
- *The map.* The page is that of an administrator who is signed in; everybody
  else sees and does part of it. Of the Leaflet library, which is external, this
  is taken: `setView` jumps, or glides and reports the end of the move later; a
  move that is overtaken ends where it is. Popups, colours and the blending of
  overlapping areas are left out.

## 3. What TLC checks

The type invariants of `Moderation`, `Edits`, `GeoSeed` and `Ratings` are checked in
their runs and proved, those of `BanSweep`, `Accounts` and `ReviewQueue` are left to
their proofs. The remaining modules have none of their own: a value out of its set
there shows as a property violated or an expression TLC cannot evaluate. What
their proofs need of the shape of the state is part of the inductive invariants.
`CHECK_DEADLOCK FALSE` is set throughout because instances run out of ids,
votes, links, loads or clicks to give out; the system itself only waits for
requests. (The review screen rests when its load has failed or its queue is
done.)

*Fairness.* Two modules state it. `ReviewQueue` is weakly fair in what the browser
and the backend do by themselves: a request is answered or fails, and what is
settled runs its callback. `GeoSeed` is weakly fair in `Import`: a run goes on by
itself, every query settles (they have time limits) and every delay ends. No
click and no person is fair, and the job need not be started. The other runs
assume none and ask for none. *Symmetry* is used in `voting`, `edits`, `ratings`,
`accounts`, `reports` (of targets only, for reports are in order) and `sessions`,
for sets whose members no definition tells apart; not in the two runs with
liveness properties.

| Run | Instance | Shows |
|---|---|---|
| `voting` | 1 place and 1 area of which one is submitted, 2 accounts (one an admin), 2 addresses, 2 texts, 3 handlers (create and vote; vote, review, update and delete; account deletion), threshold 2, at most 3 votes arriving, all can fail: about 1,380,000 states | `NoVoteInvented`, `ApprovalIsEarned`, `OneVotePerVoter`, `SettledStays`, `LifecycleSpec` |
| `owners` | the submissions of one owner, from two sides in turn. Bans: 2 places, 1 area, 3 handlers, two of them sweeping, failures. Their page: 1 place and 1 area, one anonymous, 2 saves or deletions, 1 decision of a moderator, pairs of lists that cross and fail: about 1,722,000 states | `SweepSettles`, `BannedFallSilent`; `ListAgrees`, `TypedForThisRow` |
| `edits` | 1 imported and 1 owned entry, 2 fields, a trimmed and a refused value, 2 proposals, 2 reviewing handlers and the author: about 4,310,000 states | `EditsCompose`, `ApprovedIsApplied`, `UndisturbedRejection`, `ClosedStays` |
| `ratings` | 1 place, 2 accounts, 2 ratings on the scale, 3 row ids, 2 handlers of both kinds, bans, departures and withdrawals at any time: about 4,650,000 states | `OneRatingPerPerson`, `SummaryHeals`, `WithdrawnIsLeftAlone` |
| `accounts` | 2 accounts, 2 addresses, 3 links, 2 handlers of all nine kinds: about 224,000 states | `VerifiedIsProven`, `OneAccountPerEmail`, `DeadLinksStayDead` |
| `sessions` | 2 accounts, 2 handlers of a tab and 2 others, half-second ticks; four scenes: logins, changes and resets over two seconds; roles, bans and deletions among administrators; a tab in which everything is done; a tab while a ban or a reset comes from elsewhere; 3 or 4 requests each: about 535,000 states | `OldPasswordSessionsEnd`, `ActsAreEntitled`, `SignedInAsShown` |
| `geo_seed` | 2 cities in one round and a Wikidata class, whose answers overlap with each other and with the curated places, 4 keys, 2 areas, batches of 2, 2 attempts, 2 runs, people touching one place and one area: about 742,000 states | `NothingImportedTwice`, `CompleteRunIsComplete`; with fairness `RunsEnd` |
| `reports` | 2 targets, 2 reports, lists of at most 1, 2 loads and 2 decisions of the list, a colleague; three meetings of moderator, colleague, reporter and author: about 897,000 states | `ListSettles`, `ThanksAreDue`, `OutcomeStands` |
| `review_queue` | a place and an edit proposal, each with a single and a bulk decision under way, all four tabs, lost answers, another reviewer: about 141,000 states | `ScreenAgrees`, `BusyIsAnswered`, `GoneIsDecided`; with fairness `ScreenSettles` |
| `review_retry` | the same screen | expects `FailureFreesTheCard` violated, see below |
| `map_editor` | 3 places, 1 area, 2 filters, 2 views and what lies between, a list of at most 2; five visits: filters, votes and removals; two pieces of work, each sent up to twice; some of each with a second load; moving, searching and asking for the position among three places, with filters; the same among two, with removals: about 2,221,000 states | `PublicLayerMatches`, `NothingLostOrDoubled`, `EditGoesToItsTarget`, `ListIsOfView` |
| `anonymity` | the page of `owners` | expects `AnonymityKept` violated, see below |

Why these bounds are enough to be interesting: every race in the backend needs
two requests on one row and at most one more event (a decision, a ban, a
departure). Two handlers of the racing kind, and a third for the event where it
is not one of the two, give all of their interleavings; thresholds and ids are
chosen so that the limit (the last vote, the unique index, the last attempt) is
reached. In the client, two requests of a kind are enough for one answer to
overtake another, and a second target, row or view for it to be about the wrong
one. A list of one report is full with the other left out, and a list of two
places has an order and leaves out a third. An editing visit has one place and one
area to confuse; two places or two areas are left to the theorem
`EditsKeepTheirTarget`. The proofs of section 4 remove the bounds where they exist.

`owners` joins two instances in one run: its variable `at` says which of them a
behaviour belongs to, and the other one stands still. They share no variable, so
the run checks what two runs would.

In words:

- `NoVoteInvented`, `ApprovalIsEarned`. Counts are written stale, so votes get
  lost; but no race invents one, and nothing is approved without a reviewer or
  a full set of votes cast.
- `SettledStays`, `ClosedStays`, `OutcomeStands`, `WithdrawnIsLeftAlone`,
  `BannedFallSilent`, `DeadLinksStayDead`. A check that is made once, statements
  before it is relied on, still protects a row from every request that starts
  after the fact: once those under way have ended, it is over.
- `SweepSettles`, `SummaryHeals`. What the code repairs by running again is
  right after one undisturbed run, whatever happened before.
- `EditsCompose`. Fields that an edit does not propose are not touched by it,
  in any order of reviews. `ApprovedIsApplied`: the order of the statements of a
  review is the safe one.
- `OneVotePerVoter`, `OneRatingPerPerson`, `OneAccountPerEmail`. The checks race; the
  indexes decide.
- `VerifiedIsProven`. Three handlers set `emailVerified` on an account they found
  earlier while others change its address; each time the address it gets set on
  is one at which somebody has followed a link.
- `OldPasswordSessionsEnd`. A login, a change and a reset overlap in every way;
  a session of the old password outlives the change only if it was being signed
  while the new one was being written, or was signed in that very second.
- `ActsAreEntitled`. The guard reads once; a demotion, a ban or a new password
  that comes later is not noticed any more, one that came earlier always is.
- `NothingImportedTwice`, `CompleteRunIsComplete`, `RunsEnd`. A run that is killed
  anywhere and repeated stores nothing twice and misses nothing it was answered
  with; retries end.
- `SignedInAsShown`, `ListSettles`, `ThanksAreDue`, `ListAgrees`, `TypedForThisRow`,
  `PublicLayerMatches`, `ListIsOfView`, `NothingLostOrDoubled`, `EditGoesToItsTarget`.
  When answers have come in, whatever their order, the page shows what holds; what
  was typed or drawn goes where it belongs. Each names its exceptions: the
  behaviours in which the code really does not keep the promise.
- Of these, `ListSettles` speaks of whichever list of reports came last: its rows
  have the status that list was asked for, and a report of that status without a
  row came after a full answer. Left out are reports that somebody else changed, or
  that were being decided, since. An older list that comes last stays, under the
  tab chosen since: the property says only which list is of the tab.
- `ScreenAgrees`, `BusyIsAnswered`, `GoneIsDecided`, `ScreenSettles`. The queue is
  kept twice and decisions overlap; nothing open is dropped, nothing decided
  lingers and no bulk action hangs. A card's buttons, drawn by the copy on the
  screen, are disabled only for a request under way or one that failed since the
  cards were last drawn. The second part is a fault, see `review_retry`; in the
  other copy, the busy mark ends with the requests.
- `LifecycleSpec`. `Moderation` implements `SubmissionLifecycle`, with
  `phase <- row[t].status` and `backing <- cast`.

### Where code and documents disagree

Two runs expect a violation. `review_retry`: when a decision fails, the screen
says "Could not save your decision. Please try again." (`review.ts:169`). The error
callback takes the busy mark back in `items` only (`review.ts:168`, `174-176`), and
`review.html:157`, `165` disable the buttons by the copy in `filteredItems`. If
another tab was chosen while the request was under way, that copy was made with
the mark on: the buttons stay disabled, with no request outstanding, until
`applyFilter` runs again (`BusyIsAnswered`).

`anonymity`: `public-serializer.ts:61` says that
`isAnonymous` hides the author from everyone but the author and moderators. The
form on the page of own submissions leaves the flag out of what it sends
(`my-submissions.ts:146`), and both services write a missing flag as false
(`pois.service.ts:106`, `districts.service.ts:111`): whoever edits a pending
anonymous submission is named from then on.

Others met on the way have no run of their own; where a passing property says
what does hold, it is named.

| The statement | What happens | What holds |
|---|---|---|
| `docs/PRD.md:143`: reaching the threshold triggers approval | two votes read one count; both are stored, one is counted | `NoVoteInvented`, `ApprovalIsEarned` |
| `docs/PRD.md:140`: everything a banned user owns is hidden | a submission under way is inserted behind the sweep | `SweepSettles`, `BannedFallSilent` |
| `poi.entity.ts:86`: "kept in sync by RatingsService" | two refreshes write in the opposite order of their reads | `SummaryHeals` |
| `token.util.ts:3`: "single-use token"; `mail.service.ts:116`: "can be used once" | two requests with one link both get through | `DeadLinksStayDead` |
| `docs/PRD.md:137`: a reviewer's "optional note saved" | a single decision sends the note of the copy on the screen, not the one typed | |
| `docs/PRD.md:147`: on rejection the target is unchanged | an approval and a rejection that cross leave a proposal rejected and applied | `UndisturbedRejection` |
| `docs/TODO.md:369`: regular admins cannot change admin and super admin roles | `assignRole` looks at the role given, not at the one taken: an admin can demote a super admin, and two super admins each other; the admin page offers "admin", which the backend refuses | `ActsAreEntitled` |
| `docs/TODO.md:370`: the submitter deletes while pending | the route asks for the role of an admin, so others are always refused | `ListAgrees` |

The exceptions in the client's properties are of the same kind. A place that was
removed comes back when a filter changes and stays in the list beside the map,
because `allPois` keeps it (`map.ts:1206-1230`). The list of reports
is not filled up when rows go: with the last row of a full one it says that there
are no open reports, while more are waiting for a tab to be chosen again; and an
older list that arrives last stays under the tab chosen since. The success of an
earlier submission clears a newer draft. Saves on the page of own submissions are not
locked, so a second press saves twice, and the success of one closes the form
opened for another row. A lost answer to a logout leaves the cookie while the
page shows nobody, and two tabs share one cookie. The import adds a place again
when its name or position was edited since, because its key is made of both.
`deleteAccount` removes an account's votes and then the account: a failure in
between, or a new account from another address, lets one person count twice
(`cast` counts votes, not people).

## 4. What is proved

With TLAPS, for any finite or infinite sets of accounts, rows, addresses,
tokens, places and handlers and any failures, from the one named assumption of
each module (its sets are disjoint where ids must not clash, `None` is no
element and no value a field can have otherwise, roles are nested, `Threshold`,
batch sizes, ticks and the limits of lists are
positive, reports are numbered, and the map has finitely many places, for the
list counts them):

| Theorems | Argument |
|---|---|
| `ModerationProofs`: `TypeCorrect`, `CountsAreBacked`, `ApprovalsAreEarned`, `VotersVoteOnce`, `SettledIsFinal`, `Refinement` | `IInv` adds to the properties what a request may rely on between statements (`RequestsOK`): a vote before its insert has read a count of at most the votes cast, one after it strictly fewer, because its own is among them. That makes `n <= cast` at the write-back although the count is stale. `OneVotePerVoter` is inductive alone. `SettledStays` needs only types: a settled row has no request past its check. `Refinement` maps each action to one of the abstract ones or a stutter; `RequestsOK` gives `Promote` its guard |
| `BanSweepProofs`: `TypeCorrect`, `SweptRowsAgree`, `BanSilences` | `IInv` says of a sweep still alone (`SweepsOK`) that it is the only one over its account, carries the flag the account has, and past `pois` has every place agreeing; and that an account counted as clean has no sweep under way (`CleanOK`) |
| `AccountsProofs`: `TypeCorrect`, `VerificationIsEarned`, `AddressesAreUnique`, `DeadLinks` | `IInv` follows a link: stored, it was mailed where following it proves what it will set (`LinksOK`), and a request that has found an account by it acts for a proven address or one the account no longer has (`RequestsOK`, `Reaches`). `DeadLinks` splits on reads, arrivals and writes: a read can only pick up a stored link, a write stores only fresh ones |
| `AuthorsProofs`, of `Edits`: `TypeCorrect`, `EditsAddUp`, `ApprovalsAreApplied`, `RejectionsLeaveAlone`, `ClosedIsFinal` | `IInv` says what a review relies on (`RequestsOK`: one about to close an approval has written the change, or its target has gone) and, of an undisturbed proposal (`ReviewsOK`), that one review at a time is at it, finding it as it was, and that only a review that approves it has applied it. Proposals keep everything but their status (`Kept`), which is why `EditsCompose` survives every step but `ApplyWrite` |
| `AuthorsProofs`, of `MySubmissions`: `TextsStayWithTheirRow`, `PageAgrees` | A text travels with the id it was typed for (`TextsOK`): in rows, in lists under way, in the form, in a request. Each pair of lists under way holds what is stored, for the kinds it has read and but for what changed since it did (`PairsOK`); so does the page, if it shows the last pair, but for a change whose good answer is still to come (`PageFollows`), and that answer asks for a new pair, so the one shown is the last no more |
| `RatingsProofs`: `RatingsTypeCorrect`, `RatingsAreUnique`, `SummariesHeal`, `WithdrawnIsQuiet` | `IdsOK`: an id names one person's rating of one place for ever, whoever has found it and however often it is removed and saved again, so that a stale save or removal touches nothing else; then the unique index does the rest. `FreshIsRight`: a refresh that nothing has disturbed since its read carries what is right now. For both `SummaryOf` stays closed: that it is a function of the rows is all that is used. It is opened for the scale: the total of finitely many ratings lies between one and five times their number (`TotalBounds`), so the rounded mean stays within 1.0 and 5.0 (`MeanScale`) |
| `SessionsProofs`: `OldSessionsEnd`, `ActsAreEarned`, `ShownIsSignedIn` | A password stamped and not yet written is crossed by every session signed in a later second (`InFlightOK`), and whoever is about to sign has the password of now or has crossed it (`SigningOK`); so at the write each session left has the new password, has crossed it, is of the second of the change, or is refused from then on. For rights, a request waiting for the guard stood if it is entitled now, and one past the guard stood, but for the plain admin who would appoint an admin and whom `assignRole` refuses (`StoodOK`). Both hold with the tab of `ClientSession` among the callers. For the tab itself, as long as nothing tangled is under way what answers bring fits the cookie there is (`AnswerOK`), and page and cookie disagree only while a logout is being answered (`TabOK`) |
| `GeographyProofs`, of `GeoSeed`: `TypeCorrect`, `ImportedOnce`, `CompleteRuns` | A query that waits has an attempt left (`AttemptsLeft`). From the moment a run has loaded the keys, its memory covers every key with an imported row, and what it has queued has none yet (`RememberedOnce`); between runs nothing is known of the memory and nothing needs to be. Every key in that memory is stored, removed or queued (`KnownOK`), and what the run was answered with is in the memory or in the round's answers (`OwedOK`): when both queues are empty, all of it is stored |
| `GeographyProofs`, of the map: `PublicLayerIsRight`, `EditsKeepTheirTarget`, `WorkIsKept`, `ListIsRight` | `MapInv` has a part for each of the three modules and one for geometry. A removal that succeeded is of an entry that is gone (`LayersInv`). Form, pin and every proposal on its way agree on the entry they are about (`GeometryInv`). Each form has at most one request under way and no piece of work is in both (`OneEach`, `Apart`); work that is stored without a lost answer is stored once and its good answer is still to come or has cleared the form (`StoredOnce`). While the map rests the list is made for what is loaded, filtered, shown and known of the position (`ViewInv`), and what sorting and cutting make of a finite set of places is one lemma about `Nearest` |
| `QueuesProofs`, of `ReviewQueue`: `TypeCorrect`, `ScreenShowsQueue`, `BusyIsTemporary`, `NothingIsDropped` | `IInv` adds that a good answer means a decided row (`DoneIsDecided`), which is why a success may remove its item, and that nothing is on offer before the load has ended (`LoadOK`). Of the two copies of a busy mark, the one in the queue is there only with a request outstanding (`QueueBusyOK`), and the one on the screen only with that one or after a failure that nothing was drawn since (`CardsOK`) |
| `QueuesProofs`, of `Reports`: `ReportsListSettles`, `ReportsThanksAreDue`, `ReportsOutcomeStands` | `ReportsInv` has a part for the service, the dialog and the list. A list that was read has the first reports of its tab, all of them or `Limit`, but for those changed since (`LoadsOK`, from `AnswerIsFirst`); the rows shown follow the table in the same way, but for rows whose decision is done and not yet heard of (`RowsFollow`); a row is busy just while a decision about it is under way (`RowsOK`), and a decision about a report nobody else changed finds its row there yet (`DecisionsOK`). Such a decision is written only on a list of open reports (`WritesOK`), which is why its row has lost the status of the list when it goes. A request of the dialog about its target that got its good answer has been stored (`FilingOK`). `OutcomeStands` needs only the types: a handled report has no resolution past its check |

Each invariant was checked by TLC before it was proved; each proof has one step
per action or kind of action.

Only model-checked: the liveness properties `ScreenSettles` and `RunsEnd`, and the
refutations of `AnonymityKept` and `FailureFreesTheCard`.

Outside TLAPS's reach: liveness under fairness and `ENABLED`; the induction theorems
of the library, whose parameter is an operator; and modules with `RECURSIVE`
operators, of which there are none. Two of the theorems speak of data all the
same. What holds of every finite set of ratings is proved of a smallest set of
which it would not hold (`SmallestSet`, from the well-foundedness of the strict
subset ordering), and so is that the fold of `MapThenSumSet` exists and obeys its
equation (`TotalsExist`). The sort of the list is stated by what it returns, so
nothing is to be unfolded.

## 5. Not modelled, and why

- *Public view.* Who may see a row and whether its author is named are in
  `MySubmissions`. The fields of a user that are left out of an answer are a fixed
  list, and the listings filter by status and ban in one statement.
- *Map.* Panes, colours, blending of areas, popups as HTML and the movement of
  focus: presentation.
- *Forms and pages.* Except for signing in and out, they are forms over one
  request each with nothing kept between requests. Profile fields are written by
  one statement and read by nothing else.
- *Seeded accounts* are found or created one after the other before the server
  listens; nothing runs beside that.
- *Mail* is transport and templates; `Accounts` has what others rely on, that a
  mail carries a fresh token and may be lost.
- *Shell, validation and wiring*: titles, consent, analytics, throttling, request
  validation, error reporting. Requests in the modules are those that pass
  validation.
- *Schema migrations* run once before the server starts; the constraints they
  create are in the actions that meet them.
- *Deployment and end-to-end tests*: manifests and scripts. That imports do not
  overlap is taken from the cron job.
- The lists of places in `geo-seed.data.ts` are data.

## 6. Plan

What is left, in order of weight:

1. Composition of `Moderation` with `BanSweep` and the public lists, for what a
   visitor can see at all while bans, decisions and submissions overlap.
2. The admin's list of users and the page of a place, whose ratings and reports
   are loaded apart from the place itself.
3. An abstract *moderated queue* (pending, decided once by somebody) that `Edits`
   and `Reports` implement up to their races.

------------------------------- MODULE Reports -------------------------------
(***************************************************************************)
(* Reports about places, areas and ratings: the service and its table in   *)
(* the backend, the dialog that files them (report-dialog.ts) and the      *)
(* moderator's list (reports-queue.ts).                                    *)
(*                                                                         *)
(* resolve() reads the report and writes it one statement later, so two    *)
(* moderators can both find it open.  In the browser nothing is cancelled: *)
(* the list of a second tab is asked for while the answer for the first is *)
(* under way, and the dialog can be closed and opened again about          *)
(* something else.  Every answer can be lost.                              *)
(***************************************************************************)
EXTENDS Integers, FiniteSets

CONSTANTS
  Targets,      \* what can be reported
  Ids,          \* reports the table can hold, numbered as they are created
  Limit,        \* how many reports a list has at most (200)
  Colleagues,   \* bound: requests of other moderators served at once
  Loads,        \* bound: 1..n, the times the list is loaded
  Decisions,    \* bound: 1..n, the decisions sent from the list
  Meetings,     \* bound: who is at work in one behaviour, a set of sets of Parties
  None

Outcomes == {"resolved", "dismissed"}
Tabs == {"open"} \cup Outcomes
Parties == {"moderator", "colleague", "reporter", "author"}
Servers == Colleagues \cup Decisions

ASSUME ReportsAssumption ==
  /\ Ids \subseteq Nat /\ Limit \in Nat \ {0}
  /\ Loads \subseteq Nat \ {0}
  /\ Decisions \subseteq Nat /\ Colleagues \cap Decisions = {} /\ None \notin Targets \cup Servers
  /\ Meetings \subseteq SUBSET Parties

VARIABLES
  parties,     \* who is at work; it stays as it is
  visible,     \* targets that are public
  report,      \* Ids -> the row: status, and the request that handled it
  serving,     \* Servers -> the resolve request being served
  target,      \* dialog: what it is open about, or None
  sent,        \* dialog: it says thanks
  filing,      \* dialog: the request under way, or None (submitting)
  filed,       \* targets of the reports stored
  status,      \* list: the tab chosen
  rows,        \* list: set of [id, made, busy], made by which load
  loading,     \* list: it shows "Loading"
  loads,       \* loads not answered yet
  loadNo,      \* loads sent
  shownNo,     \* the load whose rows are shown
  listed,      \* history: that load's tab, and the reports it was answered with
  decides,     \* decisions not answered yet
  decideNo,    \* decisions sent
  estranged,   \* history: reports changed behind the back of the rows shown
  overtaken    \* history: the dialog was opened while a request was under way

tables == <<visible, report, serving, filed>>
dialog == <<target, sent, filing, overtaken>>
list == <<status, rows, loading, loads, loadNo, shownNo, listed, decides, decideNo>>
reportsVars == <<parties, tables, dialog, list, estranged>>

AtWork(p) == p \in parties
Row(st, by) == [status |-> st, by |-> by]
Request(step, id, outcome) == [step |-> step, id |-> id, outcome |-> outcome]
Idle == Request("idle", None, None)

ReportsInit ==
  /\ parties \in Meetings
  /\ visible = Targets
  /\ report \in [Ids -> {Row(st, None) : st \in {"absent"} \cup Tabs}]
  /\ serving = [s \in Servers |-> Idle]
  /\ target = None /\ sent = FALSE /\ filing = None /\ filed = {}
  /\ status = "open" /\ rows = {} /\ loading = TRUE
  /\ loads = {[no |-> 1, tab |-> "open", read |-> FALSE, got |-> {}, touched |-> {}]}
  /\ loadNo = 1 /\ shownNo = 0
  /\ listed = [tab |-> "open", ids |-> {}]
  /\ decides = {} /\ decideNo = 0
  /\ estranged = {} /\ overtaken = FALSE

-----------------------------------------------------------------------------
(* The backend. *)
Withdraw(t) ==
  /\ AtWork("author") /\ t \in visible
  /\ visible' = visible \ {t}
  /\ UNCHANGED <<parties, report, serving, filed, dialog, list, estranged>>

(* Every list read by now lacks the change of report id. *)
Touch(id) == {IF l.read THEN [l EXCEPT !.touched = @ \cup {id}] ELSE l : l \in loads}

Arrive(c) ==
  /\ AtWork("colleague") /\ serving[c].step = "idle"
  /\ \E id \in Ids, o \in Outcomes :
       /\ report[id].status # "absent"
       /\ serving' = [serving EXCEPT ![c] = Request("read", id, o)]
  /\ UNCHANGED <<parties, visible, report, filed, dialog, list, estranged>>

Answer(s, answer) ==
  /\ serving' = [serving EXCEPT ![s] = Idle]
  /\ decides' = {IF d.no = s THEN [d EXCEPT !.answer = answer] ELSE d : d \in decides}

ResolveReadForgiving(s) ==    \* defect: a handled report can be handled again
  /\ serving[s].step = "read"
  /\ serving' = [serving EXCEPT ![s].step = "write"]
  /\ UNCHANGED <<parties, visible, report, filed, dialog, list, estranged>>

(* Only an open report goes on to the next statement.  Reports are never    *)
(* deleted.                                                                 *)
ResolveRead(s) ==
  /\ serving[s].step = "read"
  /\ IF report[serving[s].id].status = "open"
     THEN serving' = [serving EXCEPT ![s].step = "write"] /\ UNCHANGED decides
     ELSE Answer(s, "failed")
  /\ UNCHANGED <<parties, visible, report, filed, dialog, status, rows, loading, loads,
                 loadNo, shownNo, listed, decideNo, estranged>>

(* The request does not get there, or the guard turns it away. *)
DecideRefused(s) ==
  /\ s \in Decisions /\ serving[s].step = "read"
  /\ Answer(s, "failed")
  /\ UNCHANGED <<parties, visible, report, filed, dialog, status, rows, loading, loads,
                 loadNo, shownNo, listed, decideNo, estranged>>

(* The update names the id only: whoever writes last, wins. *)
ResolveWrite(s) ==
  LET id == serving[s].id IN
  /\ serving[s].step = "write"
  /\ report' = [report EXCEPT ![id] = Row(serving[s].outcome, s)]
  /\ loads' = Touch(id)
  /\ \/ Answer(s, "ok") /\ estranged' = IF s \in Colleagues THEN estranged \cup {id} ELSE estranged
     \/ s \in Decisions /\ Answer(s, "failed") /\ estranged' = estranged \cup {id}
  /\ UNCHANGED <<parties, visible, filed, dialog, status, rows, loading, loadNo, shownNo, listed, decideNo>>

-----------------------------------------------------------------------------
(* The dialog. *)
OpenKeepingThanks(t) ==    \* defect: sent is left from the report before
  /\ AtWork("reporter") /\ target = None
  /\ target' = t
  /\ overtaken' = (filing # None)
  /\ UNCHANGED <<parties, tables, sent, filing, list, estranged>>

(* open: a request under way is not forgotten, and neither is submitting. *)
Open(t) ==
  /\ AtWork("reporter") /\ target = None
  /\ target' = t /\ sent' = FALSE
  /\ overtaken' = (filing # None)
  /\ UNCHANGED <<parties, tables, filing, list, estranged>>

Close ==
  /\ target # None /\ target' = None
  /\ UNCHANGED <<parties, tables, sent, filing, overtaken, list, estranged>>

Submit ==
  /\ target # None /\ ~sent /\ filing = None
  /\ filing' = [target |-> target, step |-> "check"]
  /\ UNCHANGED <<parties, tables, target, sent, overtaken, list, estranged>>

At(step) == filing # None /\ filing.step = step

(* isPubliclyVisible, then the insert, which is a statement of its own. *)
CreateCheck ==
  /\ At("check")
  /\ filing' = [filing EXCEPT !.step = IF filing.target \in visible THEN "insert" ELSE "failed"]
  /\ UNCHANGED <<parties, tables, target, sent, overtaken, list, estranged>>

CreateInsert ==
  /\ At("insert")
  /\ \E id \in Ids :
       /\ report[id].status = "absent"
       /\ \A other \in Ids : report[other].status # "absent" => other < id
       /\ report' = [report EXCEPT ![id] = Row("open", None)]
       /\ estranged' = estranged \cup {id}
       /\ loads' = Touch(id)
  /\ filed' = filed \cup {filing.target}
  /\ \E a \in {"ok", "failed"} : filing' = [filing EXCEPT !.step = a]
  /\ UNCHANGED <<parties, visible, serving, target, sent, overtaken, status, rows, loading,
                 loadNo, shownNo, listed, decides, decideNo>>

(* The rate limit, or a reporter whose account is gone. *)
CreateRefused ==
  /\ At("check") \/ At("insert")
  /\ filing' = [filing EXCEPT !.step = "failed"]
  /\ UNCHANGED <<parties, tables, target, sent, overtaken, list, estranged>>

(* The answer goes to the dialog as it is by now. *)
Submitted ==
  /\ At("ok") /\ filing' = None /\ sent' = TRUE
  /\ UNCHANGED <<parties, tables, target, overtaken, list, estranged>>

SubmitFailed ==
  /\ At("failed") /\ filing' = None
  /\ UNCHANGED <<parties, tables, target, sent, overtaken, list, estranged>>

-----------------------------------------------------------------------------
(* The list. *)
Show(tab) ==
  /\ AtWork("moderator") /\ loadNo + 1 \in Loads
  /\ status' = tab /\ loading' = TRUE
  /\ loadNo' = loadNo + 1
  /\ loads' = loads \cup {[no |-> loadNo + 1, tab |-> tab, read |-> FALSE, got |-> {},
                           touched |-> {}]}
  /\ UNCHANGED <<parties, tables, dialog, rows, shownNo, listed, decides, decideNo, estranged>>

(* Open reports are listed oldest first, handled ones newest first. *)
Before(tab, a, b) == IF tab = "open" THEN a < b ELSE b < a

(* The reports that take: Limit leaves, in that order, of those of a tab. *)
IsAnswer(found, tab) ==
  LET all == {id \in Ids : report[id].status = tab} IN
  /\ found \subseteq all
  /\ \A a \in found, b \in all \ found : Before(tab, a, b)
  /\ Cardinality(found) <= Limit
  /\ found # all => Cardinality(found) = Limit

FindByStatus(l) ==
  /\ AtWork("moderator") /\ ~l.read
  /\ \E found \in SUBSET Ids :
       /\ IsAnswer(found, l.tab)
       /\ loads' = (loads \ {l}) \cup {[l EXCEPT !.read = TRUE, !.got = found]}
  /\ UNCHANGED <<parties, tables, dialog, status, rows, loading, loadNo, shownNo, listed, decides,
                 decideNo, estranged>>

(* Whatever the tab is by now, the rows are those of the answer. *)
LoadArrives(l) ==
  /\ l.read
  /\ rows' = {[id |-> id, made |-> l.no, busy |-> FALSE] : id \in l.got}
  /\ loading' = FALSE
  /\ loads' = loads \ {l} /\ shownNo' = l.no
  /\ listed' = [tab |-> l.tab, ids |-> l.got]
  /\ estranged' = l.touched \cup {d.id : d \in decides}
  /\ UNCHANGED <<parties, tables, dialog, status, loadNo, decides, decideNo>>

LoadFails(l) ==
  /\ AtWork("moderator")
  /\ loading' = FALSE /\ loads' = loads \ {l}
  /\ UNCHANGED <<parties, tables, dialog, status, rows, loadNo, shownNo, listed, decides, decideNo,
                 estranged>>

MarkBusy(r, b) == {IF q = r THEN [q EXCEPT !.busy = b] ELSE q : q \in rows}

(* The buttons are drawn on the tab of open reports only. *)
DecideReport(r) ==
  /\ ~loading /\ status = "open" /\ ~r.busy
  /\ decideNo + 1 \in Decisions /\ decideNo' = decideNo + 1
  /\ decides' = decides \cup {[no |-> decideNo', id |-> r.id, made |-> r.made, answer |-> "none"]}
  /\ \E o \in Outcomes : serving' = [serving EXCEPT ![decideNo'] = Request("read", r.id, o)]
  /\ rows' = MarkBusy(r, TRUE)
  /\ UNCHANGED <<parties, visible, report, filed, dialog, status, loading, loads, loadNo,
                 shownNo, listed, estranged>>

Decided(d) ==
  /\ d.answer = "ok" /\ decides' = decides \ {d}
  /\ rows' = {r \in rows : r.id # d.id}
  /\ UNCHANGED <<parties, tables, dialog, status, loading, loads, loadNo, shownNo, listed, decideNo,
                 estranged>>

DecideFailsGone(d) ==    \* defect: the row goes whatever the answer is
  /\ d.answer = "failed" /\ decides' = decides \ {d}
  /\ rows' = {r \in rows : r.id # d.id}
  /\ UNCHANGED <<parties, tables, dialog, status, loading, loads, loadNo, shownNo, listed, decideNo,
                 estranged>>

(* busy is taken back on the row that was clicked, which may be off the     *)
(* list by now.                                                             *)
DecideFails(d) ==
  /\ d.answer = "failed" /\ decides' = decides \ {d}
  /\ rows' = {IF r.id = d.id /\ r.made = d.made THEN [r EXCEPT !.busy = FALSE] ELSE r : r \in rows}
  /\ UNCHANGED <<parties, tables, dialog, status, loading, loads, loadNo, shownNo, listed, decideNo,
                 estranged>>

ReportsNext ==
  \/ \E t \in Targets : Withdraw(t) \/ Open(t)
  \/ \E c \in Colleagues : Arrive(c)
  \/ \E s \in Servers : ResolveRead(s) \/ DecideRefused(s) \/ ResolveWrite(s)
  \/ Close \/ Submit \/ CreateCheck \/ CreateInsert \/ CreateRefused
  \/ Submitted \/ SubmitFailed
  \/ \E tab \in Tabs : Show(tab)
  \/ \E l \in loads : FindByStatus(l) \/ LoadArrives(l) \/ LoadFails(l)
  \/ \E r \in rows : DecideReport(r)
  \/ \E d \in decides : Decided(d) \/ DecideFails(d)

ReportsSpec == ReportsInit /\ [][ReportsNext]_reportsVars

-----------------------------------------------------------------------------
Handled(id) == report[id].status \in Outcomes
Racing(id) == {s \in Servers : serving[s].step = "write" /\ serving[s].id = id}

(* Two moderators who both found a report open both write, and the later    *)
(* outcome stays.  But once it is handled and those are through, nobody     *)
(* changes the outcome, or who stands for it, any more.                     *)
OutcomeStands ==
  [][\A id \in Ids : Handled(id) /\ Racing(id) = {}
       => Racing(id)' = {} /\ report'[id] = report[id]]_reportsVars

Listed(id) == \E r \in rows : r.id = id

(* Report id was left out of an answer because that was full with reports   *)
(* that come before it.                                                     *)
Beyond(ids, tab, id) ==
  Cardinality(ids) = Limit /\ \A first \in ids : Before(tab, first, id)

(* Whichever list was shown last: when no decision is unanswered, no row is *)
(* left busy, and for every report left alone by others and by decisions    *)
(* sent before that list came, a row means that it has the status that list *)
(* was asked for, and no row that it has not, or that it came after the     *)
(* first 200.  If that list was the last one asked for, it is that of the   *)
(* tab.  Rows that went are not made up for: the list can be empty, and say *)
(* that there are no open reports, while there are.                         *)
ListSettles ==
  decides = {} /\ shownNo # 0 =>
    /\ \A r \in rows : ~r.busy
    /\ \A id \in Ids \ estranged :
         /\ Listed(id) => report[id].status = listed.tab
         /\ ~Listed(id) => report[id].status # listed.tab \/ Beyond(listed.ids, listed.tab, id)
    /\ shownNo = loadNo => listed.tab = status

(* The dialog thanks for a report about what it is open about, and that     *)
(* report is stored; unless it was closed and opened about something else   *)
(* while the first request was under way.                                   *)
ThanksAreDue == target # None /\ sent /\ ~overtaken => target \in filed
=============================================================================

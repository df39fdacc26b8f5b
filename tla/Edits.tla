------------------------------- MODULE Edits -------------------------------
(***************************************************************************)
(* Proposals to change published places and areas, and their review        *)
(* (EditsService).                                                         *)
(*                                                                         *)
(* A review is up to four statements: read the proposal, read the target,  *)
(* update the target, update the proposal.  Two reviewers can be at it, an *)
(* account can disappear, and a failure can stop it, between any two.      *)
(*                                                                         *)
(* Owners update and delete only what is still pending (see SettledStays   *)
(* in Moderation), so a published entry changes by edits alone and goes    *)
(* with its owner's account.  (A proposal can also be made for an entry    *)
(* that is not published; those are left out.)  A proposal also stores the *)
(* target's fields at the time for the reviewer's screen; no statement     *)
(* reads them back.                                                        *)
(***************************************************************************)
EXTENDS Integers, FiniteSets

CONSTANTS
  Entries,      \* published rows of pois and districts
  Fields,       \* what an edit can change
  Values,       \* what a field can hold
  Invalid,      \* values that validateProposedData refuses
  Trim,         \* [Fields -> [Values -> Values]], what is stored for a value:
                \* trimmed or null in the optional details, as it is elsewhere
  Start,        \* [Entries -> [Fields -> Values]], the entries as published
  Owner,        \* [Entries -> Accounts \cup {None}]; imports have no owner
  Proposals,    \* ids of edit proposals; an id is used once
  Changes,      \* bound: the changes that are proposed
  Accounts,     \* user accounts
  Reviewers,    \* accounts whose role is at least reviewer
  Handlers,     \* bound: requests served at the same time
  Serves,       \* bound: [Handlers -> SUBSET Ops], what each one serves
  MayFail,      \* bound: the handlers a failure can cut short
  None

Ops == {"create", "review", "account"}
PartialChanges == UNION {[F -> Values] : F \in SUBSET Fields}

ASSUME EditsAssumption ==
  /\ Invalid \subseteq Values
  /\ Trim \in [Fields -> [Values -> Values]]
  /\ \A f \in Fields, v \in Values \ Invalid : Trim[f][v] \notin Invalid
  /\ Start \in [Entries -> [Fields -> Values \ Invalid]]
  /\ Owner \in [Entries -> Accounts \cup {None}]
  /\ Changes \subseteq PartialChanges
  /\ Reviewers \subseteq Accounts
  /\ Serves \in [Handlers -> SUBSET Ops]
  /\ MayFail \subseteq Handlers
  /\ None \notin Accounts \cup Entries \cup Proposals

VARIABLES
  entry,       \* Entries -> the fields of the row
  present,     \* entries whose row exists
  proposal,    \* Proposals -> the row of edit_proposals
  live,        \* accounts that exist
  req,         \* Handlers -> the request being served
  applied,     \* history: proposals some review has written to their target
  disturbed    \* history: proposals of which a review overlapped another or failed

vars == <<entry, present, proposal, live, req, applied, disturbed>>
history == <<applied, disturbed>>
tables == <<entry, present, proposal, live>>

NoChange == [f \in {} |-> None]
Proposal(status, target, by, data) ==
  [status |-> status, target |-> target, by |-> by, data |-> data]
Absent == Proposal("absent", None, None, NoChange)
Closed == {"approved", "rejected"}
Stored == {"pending"} \cup Closed
Exists(e) == proposal[e].status \in Stored

Request(step, who, target, data, edit, verdict) ==
  [step |-> step, who |-> who, target |-> target, data |-> data,
   edit |-> edit, verdict |-> verdict]
Idle == Request("idle", None, None, NoChange, None, "none")

Init ==
  /\ entry = Start
  /\ present = Entries
  /\ proposal = [e \in Proposals |-> Absent]
  /\ live = Accounts
  /\ req = [h \in Handlers |-> Idle]
  /\ applied = {}
  /\ disturbed = {}

Answered(h) == req' = [req EXCEPT ![h] = Idle]
GoTo(h, step) == req' = [req EXCEPT ![h].step = step]

(* Reviews of a proposal that have found it pending and are not finished. *)
ReviewSteps == {"apply.read", "apply.write", "close"}
Reviewing(e) == {h \in Handlers : req[h].edit = e /\ req[h].step \in ReviewSteps}

-----------------------------------------------------------------------------
(* JwtAuthGuard reads the account once, before the handler runs. *)
Arrive(h, op, r) ==
  /\ req[h].step = "idle"
  /\ op \in Serves[h]
  /\ r.who \in live
  /\ req' = [req EXCEPT ![h] = r]
  /\ UNCHANGED <<tables, history>>

PostEdit(h) ==
  \E u \in Accounts, t \in Entries, c \in Changes :
    Arrive(h, "create", Request("create.read", u, t, c, None, "none"))

PatchReview(h) ==
  \E u \in Reviewers, e \in Proposals, d \in Closed :
    /\ proposal[e] # Absent
    /\ Arrive(h, "review", Request("review.read", u, None, NoChange, e, d))

DeleteMe(h) ==
  \E u \in Accounts :
    Arrive(h, "account", Request("account", u, None, NoChange, None, "none"))

-----------------------------------------------------------------------------
(* validateProposedData *)
Valid(data) == \A f \in DOMAIN data : data[f] \notin Invalid

CreateReadUnchecked(h) ==           \* defect: the values are not validated
  /\ req[h].step = "create.read"
  /\ IF req[h].target \in present THEN GoTo(h, "create.save") ELSE Answered(h)
  /\ UNCHANGED <<tables, history>>

CreateRead(h) ==
  /\ req[h].step = "create.read"
  /\ IF req[h].target \in present /\ Valid(req[h].data)
     THEN GoTo(h, "create.save") ELSE Answered(h)
  /\ UNCHANGED <<tables, history>>

(* The target is not a foreign key; the author is, and must still exist. *)
CreateSave(h) ==
  LET q == req[h] IN
  /\ q.step = "create.save"
  /\ IF q.who \in live
     THEN \E e \in Proposals :
            /\ proposal[e] = Absent
            /\ proposal' = [proposal EXCEPT ![e] =
                              Proposal("pending", q.target, q.who, q.data)]
     ELSE UNCHANGED proposal
  /\ Answered(h)
  /\ UNCHANGED <<entry, present, live, history>>

-----------------------------------------------------------------------------
ReviewReadAnyStatus(h) ==           \* defect: a closed proposal is reviewed again
  LET q == req[h] IN
  /\ q.step = "review.read"
  /\ IF Exists(q.edit)
     THEN /\ GoTo(h, IF q.verdict = "approved" THEN "apply.read" ELSE "close")
          /\ disturbed' = IF Reviewing(q.edit) = {} THEN disturbed
                          ELSE disturbed \cup {q.edit}
     ELSE Answered(h) /\ UNCHANGED disturbed
  /\ UNCHANGED <<tables, applied>>

ReviewReadAppliesAll(h) ==          \* defect: a rejection applies the change too
  LET q == req[h] IN
  /\ q.step = "review.read"
  /\ IF proposal[q.edit].status = "pending"
     THEN /\ GoTo(h, "apply.read")
          /\ disturbed' = IF Reviewing(q.edit) = {} THEN disturbed
                          ELSE disturbed \cup {q.edit}
     ELSE Answered(h) /\ UNCHANGED disturbed
  /\ UNCHANGED <<tables, applied>>

(* The only look at the status: two reviews can both find it pending. *)
ReviewRead(h) ==
  LET q == req[h] IN
  /\ q.step = "review.read"
  /\ IF proposal[q.edit].status = "pending"
     THEN /\ GoTo(h, IF q.verdict = "approved" THEN "apply.read" ELSE "close")
          /\ disturbed' = IF Reviewing(q.edit) = {} THEN disturbed
                          ELSE disturbed \cup {q.edit}
     ELSE Answered(h) /\ UNCHANGED disturbed
  /\ UNCHANGED <<tables, applied>>

ApplyReadForgiving(h) ==            \* defect: closes without writing the change
  /\ req[h].step = "apply.read"
  /\ GoTo(h, "close")
  /\ UNCHANGED <<tables, history>>

(* applyProposal: a target that is gone ends the review, still pending. *)
ApplyRead(h) ==
  /\ req[h].step = "apply.read"
  /\ IF proposal[req[h].edit].target \in present
     THEN GoTo(h, "apply.write") ELSE Answered(h)
  /\ UNCHANGED <<tables, history>>

ApplyWriteEveryField(h) ==          \* defect: fields left out are cleared
  LET p == proposal[req[h].edit] IN
  /\ req[h].step = "apply.write"
  /\ entry' = [entry EXCEPT ![p.target] =
       [f \in Fields |-> IF f \in DOMAIN p.data THEN Trim[f][p.data[f]]
                         ELSE Start[p.target][f]]]
  /\ applied' = applied \cup {req[h].edit}
  /\ GoTo(h, "close")
  /\ UNCHANGED <<present, proposal, live, disturbed>>

(* Only the fields the proposal names are written, with the values of the   *)
(* proposal read at the start; a proposal's data never changes, and stays   *)
(* in the record of a proposal whose row has gone with its author.          *)
ApplyWrite(h) ==
  LET e == req[h].edit
      p == proposal[e]
  IN
  /\ req[h].step = "apply.write"
  /\ IF p.target \in present
     THEN /\ entry' = [entry EXCEPT ![p.target] =
                         [f \in Fields |-> IF f \in DOMAIN p.data
                                           THEN Trim[f][p.data[f]] ELSE @[f]]]
          /\ applied' = applied \cup {e}
     ELSE UNCHANGED <<entry, applied>>
  /\ GoTo(h, "close")
  /\ UNCHANGED <<present, proposal, live, disturbed>>

(* The last UPDATE names the reviewer, who must still exist. *)
Close(h) ==
  LET e == req[h].edit IN
  /\ req[h].step = "close"
  /\ IF Exists(e) /\ req[h].who \in live
     THEN /\ proposal' = [proposal EXCEPT ![e].status = req[h].verdict]
          /\ UNCHANGED disturbed
     ELSE /\ disturbed' = disturbed \cup {e}
          /\ UNCHANGED proposal
  /\ Answered(h)
  /\ UNCHANGED <<entry, present, live, applied>>

-----------------------------------------------------------------------------
(* An account takes its proposals and its entries with it. *)
DeleteUser(h) ==
  LET u == req[h].who IN
  /\ req[h].step = "account"
  /\ live' = live \ {u}
  /\ present' = {t \in present : Owner[t] # u}
  /\ proposal' = [e \in Proposals |->
       IF Exists(e) /\ proposal[e].by = u
       THEN [proposal[e] EXCEPT !.status = "gone"] ELSE proposal[e]]
  /\ Answered(h)
  /\ UNCHANGED <<entry, history>>

(* A statement fails or the process is restarted: what was committed stays. *)
Fail(h) ==
  /\ h \in MayFail
  /\ req[h].step # "idle"
  /\ Answered(h)
  /\ disturbed' = IF req[h].step \in ReviewSteps
                  THEN disturbed \cup {req[h].edit} ELSE disturbed
  /\ UNCHANGED <<tables, applied>>

Next ==
  \E h \in Handlers :
    \/ PostEdit(h) \/ PatchReview(h) \/ DeleteMe(h)
    \/ CreateRead(h) \/ CreateSave(h)
    \/ ReviewRead(h) \/ ApplyRead(h) \/ ApplyWrite(h) \/ Close(h)
    \/ DeleteUser(h) \/ Fail(h)

Spec == Init /\ [][Next]_vars

-----------------------------------------------------------------------------
Steps == {"idle", "create.read", "create.save", "review.read", "account"}
           \cup ReviewSteps

ProposalRows ==
  [status : {"absent", "gone"} \cup Stored, target : Entries \cup {None},
   by : Accounts \cup {None}, data : PartialChanges \cup {NoChange}]

Requests ==
  [step : Steps, who : Accounts \cup {None}, target : Entries \cup {None},
   data : PartialChanges \cup {NoChange}, edit : Proposals \cup {None},
   verdict : Closed \cup {"none"}]

(* The shape of the tables and requests; what an entry holds is valid, as   *)
(* proposals are validated when they are made, long before they are applied.*)
TypeOK ==
  /\ entry \in [Entries -> [Fields -> Values \ Invalid]]
  /\ present \subseteq Entries
  /\ proposal \in [Proposals -> ProposalRows]
  /\ live \subseteq Accounts
  /\ req \in [Handlers -> Requests]
  /\ applied \subseteq Proposals
  /\ disturbed \subseteq Proposals

(* applyProposal writes single fields so that edits to different fields of  *)
(* one entry do not undo each other, in whatever order their reviews run:   *)
(* each field holds what one of the applied edits to it proposed, or what   *)
(* it was published with when no edit to it has been applied.               *)
Touching(t, f) ==
  {e \in applied : proposal[e].target = t /\ f \in DOMAIN proposal[e].data}
EditsCompose ==
  \A t \in Entries, f \in Fields :
    entry[t][f] \in (IF Touching(t, f) = {} THEN {Start[t][f]}
                     ELSE {Trim[f][proposal[e].data[f]] : e \in Touching(t, f)})

(* The target is written before the proposal is closed, so a failure can    *)
(* leave a change applied and its proposal open, but never a proposal that  *)
(* is approved and whose change is missing.                                 *)
ApprovedIsApplied ==
  \A e \in Proposals :
    proposal[e].status = "approved"
      => e \in applied \/ proposal[e].target \notin present

(* docs/PRD.md:147, as far as the code keeps it: when no two reviews of a   *)
(* proposal overlapped and none broke off, a rejected proposal has not      *)
(* changed its target.                                                      *)
UndisturbedRejection ==
  \A e \in Proposals :
    proposal[e].status = "rejected" /\ e \notin disturbed => e \notin applied

(* A proposal is checked to be pending once, statements before it is        *)
(* closed.  Once it is closed and the reviews under way have ended, it is   *)
(* not written to its target again and its outcome stays, until its author  *)
(* goes.                                                                    *)
ClosedStays ==
  [][\A e \in Proposals :
       proposal[e].status \in Closed /\ Reviewing(e) = {}
         => /\ Reviewing(e)' = {}
            /\ \/ proposal'[e].status = proposal[e].status
               \/ proposal'[e].status = "gone" /\ proposal[e].by \notin live']_vars
=============================================================================

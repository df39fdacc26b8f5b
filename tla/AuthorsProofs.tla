--------------------------- MODULE AuthorsProofs ----------------------------
(***************************************************************************)
(* What authors do after a submission: proposals to edit an entry, proved  *)
(* for every number of entries, fields, proposals and concurrent requests, *)
(* and the page of one's own submissions, for any number of them, of saves *)
(* and of lists.                                                           *)
(***************************************************************************)
EXTENDS Edits, MySubmissions, TLAPS

Arrival(h) == PostEdit(h) \/ PatchReview(h) \/ DeleteMe(h)

(* What a request relies on between two statements. *)
RequestOK(r) ==
  /\ r.step \in {"create.read", "create.save"} =>
       r.who \in Accounts /\ r.target \in Entries /\ r.data \in PartialChanges
  /\ r.step = "create.save" => Valid(r.data)
  /\ r.step \in {"review.read"} \cup ReviewSteps =>
       /\ r.edit \in Proposals /\ r.verdict \in Closed
       /\ proposal[r.edit].status # "absent"
  /\ r.step \in {"apply.read", "apply.write"} => r.verdict = "approved"
  /\ r.step = "close" /\ r.verdict = "approved" =>
       r.edit \in applied \/ proposal[r.edit].target \notin present
RequestsOK == \A h \in Handlers : RequestOK(req[h])

(* Proposals are complete and valid, and applied only once they exist. *)
ProposalOK(e) ==
  IF proposal[e].status = "absent"
  THEN proposal[e] = Absent /\ e \notin applied
  ELSE /\ proposal[e].target \in Entries /\ proposal[e].by \in Accounts
       /\ proposal[e].data \in PartialChanges /\ Valid(proposal[e].data)
ProposalsOK == \A e \in Proposals : ProposalOK(e)

(* An undisturbed proposal has one review at a time, which finds it as it   *)
(* was when it began, and is applied only by a review that approves it.     *)
ReviewOK(e) ==
  /\ \A g, h \in Reviewing(e) : g = h
  /\ \A h \in Reviewing(e) :
       /\ proposal[e].status \in {"pending", "gone"}
       /\ e \in applied => req[h].step = "close" /\ req[h].verdict = "approved"
  /\ e \in applied /\ proposal[e].status = "pending" => Reviewing(e) # {}
  /\ e \in applied => proposal[e].status # "rejected"
ReviewsOK == \A e \in Proposals \ disturbed : ReviewOK(e)

IInv == /\ TypeOK /\ RequestsOK /\ ProposalsOK /\ ReviewsOK
        /\ EditsCompose /\ ApprovedIsApplied

-----------------------------------------------------------------------------
LEMMA ChangeShape ==
  ASSUME NEW c \in PartialChanges
  PROVE  /\ DOMAIN c \subseteq Fields
         /\ \A f \in DOMAIN c : c[f] \in Values
BY DEF PartialChanges

LEMMA NoChangeShape == NoChange \in PartialChanges
<1>1. NoChange \in [{} -> Values]
  BY DEF NoChange
<1> QED BY <1>1 DEF PartialChanges

LEMMA IdleOK ==
  Idle \in Requests /\ RequestOK(Idle) /\ Idle.step = "idle"
BY NoChangeShape DEF Idle, Request, Requests, Steps, RequestOK, ReviewSteps

LEMMA GoToShape ==
  ASSUME TypeOK, NEW h \in Handlers, NEW s \in Steps, GoTo(h, s)
  PROVE  \E r \in Requests :
           /\ req' = [req EXCEPT ![h] = r]
           /\ r.step = s /\ r.who = req[h].who /\ r.target = req[h].target
           /\ r.data = req[h].data /\ r.edit = req[h].edit
           /\ r.verdict = req[h].verdict
<1> DEFINE r == [req[h] EXCEPT !.step = s]
<1>1. req[h] \in Requests
  BY DEF TypeOK
<1>2. r \in Requests
  BY <1>1 DEF Requests
<1>3. /\ r.step = s /\ r.who = req[h].who /\ r.target = req[h].target
      /\ r.data = req[h].data /\ r.edit = req[h].edit /\ r.verdict = req[h].verdict
  BY <1>1 DEF Requests
<1>4. req' = [req EXCEPT ![h] = r]
  BY DEF GoTo
<1> QED BY <1>2, <1>3, <1>4

(* A request enters with what its route supplies, and reviews nothing yet. *)
LEMMA ArrivalShape ==
  ASSUME TypeOK, ProposalsOK, NEW h \in Handlers, Arrival(h)
  PROVE  \E r \in Requests :
           /\ req' = [req EXCEPT ![h] = r]
           /\ RequestOK(r)
           /\ r.step \notin ReviewSteps
           /\ req[h].step = "idle"
           /\ UNCHANGED <<tables, history>>
<1> USE EditsAssumption, NoChangeShape
    DEF Arrive, Request, Requests, Steps, RequestOK, ReviewSteps
<1>1. CASE PostEdit(h)
  <2>1. PICK u \in Accounts, t \in Entries, c \in Changes :
          Arrive(h, "create", Request("create.read", u, t, c, None, "none"))
    BY <1>1 DEF PostEdit
  <2>2. c \in PartialChanges
    OBVIOUS
  <2> HIDE DEF PartialChanges
  <2> QED BY <2>1, <2>2
<1>2. CASE PatchReview(h)
  <2>1. PICK u \in Reviewers, e \in Proposals, d \in Closed :
          /\ proposal[e] # Absent
          /\ Arrive(h, "review", Request("review.read", u, None, NoChange, e, d))
    BY <1>2 DEF PatchReview
  <2>2. proposal[e].status # "absent"
    BY <2>1 DEF ProposalsOK, ProposalOK
  <2> QED BY <2>1, <2>2
<1>3. CASE DeleteMe(h)
  <2>1. PICK u \in Accounts :
          Arrive(h, "account", Request("account", u, None, NoChange, None, "none"))
    BY <1>3 DEF DeleteMe
  <2> QED BY <2>1
<1> QED BY <1>1, <1>2, <1>3 DEF Arrival

(* The reviews under way once h has gone on to r. *)
LEMMA ReviewingAfter ==
  ASSUME TypeOK, NEW h \in Handlers, NEW r, req' = [req EXCEPT ![h] = r],
         NEW e \in Proposals
  PROVE  /\ \A g \in Handlers : g # h => req'[g] = req[g]
         /\ req'[h] = r
         /\ \A g \in Handlers : g # h => (g \in Reviewing(e)' <=> g \in Reviewing(e))
         /\ h \in Reviewing(e)' <=> r.edit = e /\ r.step \in ReviewSteps
         /\ Reviewing(e) \subseteq Handlers /\ Reviewing(e)' \subseteq Handlers
BY DEF TypeOK, Reviewing

(* Proposals stay what they are but for their status, what is applied stays *)
(* applied, and no entry comes back.                                        *)
Kept ==
  /\ \A e \in Proposals : proposal[e].status # "absent" =>
       /\ proposal'[e].status # "absent" /\ proposal'[e].by = proposal[e].by
       /\ proposal'[e].target = proposal[e].target
       /\ proposal'[e].data = proposal[e].data
  /\ applied \subseteq applied'
  /\ present' \subseteq present

LEMMA OthersOK ==
  ASSUME TypeOK, RequestsOK, Kept, NEW h \in Handlers, NEW r,
         req' = [req EXCEPT ![h] = r], RequestOK(r)'
  PROVE  RequestsOK'
<1> SUFFICES ASSUME NEW g \in Handlers PROVE RequestOK(req[g])'
  BY DEF RequestsOK
<1>1. CASE g = h
  BY <1>1 DEF TypeOK
<1>2. CASE g # h
  <2>1. req'[g] = req[g] /\ RequestOK(req[g])
    BY <1>2 DEF TypeOK, RequestsOK
  <2> QED BY <2>1 DEF RequestOK, Kept, ReviewSteps
<1> QED BY <1>1, <1>2

LEMMA InitIInv == Init => IInv
<1> SUFFICES ASSUME Init PROVE IInv
  OBVIOUS
<1> USE EditsAssumption
<1>1. Absent \in ProposalRows /\ Absent.status = "absent"
  BY NoChangeShape DEF Absent, Proposal, ProposalRows
<1>2. TypeOK
  BY <1>1, IdleOK DEF Init, TypeOK
<1>3. RequestsOK
  BY IdleOK DEF Init, RequestsOK
<1>4. ProposalsOK /\ ApprovedIsApplied
  BY <1>1 DEF Init, ProposalsOK, ProposalOK, ApprovedIsApplied
<1>5. ReviewsOK
  BY IdleOK DEF Init, ReviewsOK, ReviewOK, Reviewing, ReviewSteps
<1>6. EditsCompose
  BY DEF Init, EditsCompose, Touching
<1> QED BY <1>2, <1>3, <1>4, <1>5, <1>6 DEF IInv

LEMMA SameEntries ==
  ASSUME EditsCompose, UNCHANGED <<entry, proposal, applied>>
  PROVE  EditsCompose'
<1> SUFFICES ASSUME NEW t \in Entries, NEW f \in Fields
             PROVE  entry'[t][f] \in
                      (IF Touching(t, f)' = {} THEN {Start[t][f]}
                       ELSE {Trim[f][proposal'[d].data[f]] : d \in Touching(t, f)'})
  BY DEF EditsCompose
<1>1. Touching(t, f)' = Touching(t, f)
  BY DEF Touching
<1>2. entry[t][f] \in
        (IF Touching(t, f) = {} THEN {Start[t][f]}
         ELSE {Trim[f][proposal[d].data[f]] : d \in Touching(t, f)})
  BY DEF EditsCompose
<1> QED BY <1>1, <1>2

-----------------------------------------------------------------------------
(* Steps that move a request on and change no table. *)
LEMMA MoveStep ==
  ASSUME IInv, NEW h \in Handlers, NEW r \in Requests,
         req' = [req EXCEPT ![h] = r], RequestOK(r),
         UNCHANGED <<tables, applied>>,
         disturbed' \in SUBSET Proposals, disturbed \subseteq disturbed',
         \A e \in Proposals \ disturbed' :
           /\ h \in Reviewing(e) =>
                e \notin applied \/ proposal[e].status # "pending" \/ h \in Reviewing(e)'
           /\ r.edit = e /\ r.step \in ReviewSteps =>
                /\ Reviewing(e) \subseteq {h}
                /\ proposal[e].status \in {"pending", "gone"} /\ e \notin applied
  PROVE  IInv'
<1> USE DEF IInv, tables
<1>1. TypeOK'
  BY DEF TypeOK
<1>2. RequestsOK'
  <2>1. Kept
    BY DEF Kept
  <2>2. RequestOK(r)'
    BY DEF RequestOK
  <2> QED BY <2>1, <2>2, OthersOK
<1>3. ProposalsOK' /\ ApprovedIsApplied' /\ EditsCompose'
  BY SameEntries DEF ProposalsOK, ProposalOK, ApprovedIsApplied
<1>4. ReviewsOK'
  <2> SUFFICES ASSUME NEW e \in Proposals, e \notin disturbed' PROVE ReviewOK(e)'
    BY DEF ReviewsOK
  <2>1. ReviewOK(e)
    BY DEF ReviewsOK
  <2>2. /\ \A g \in Handlers : g # h => req'[g] = req[g]
        /\ req'[h] = r
        /\ \A g \in Handlers : g # h => (g \in Reviewing(e)' <=> g \in Reviewing(e))
        /\ h \in Reviewing(e)' <=> r.edit = e /\ r.step \in ReviewSteps
        /\ Reviewing(e) \subseteq Handlers /\ Reviewing(e)' \subseteq Handlers
    BY ReviewingAfter
  <2>3. \A f, g \in Reviewing(e)' : f = g
    BY <2>1, <2>2 DEF ReviewOK
  <2>4. \A g \in Reviewing(e)' :
          /\ proposal'[e].status \in {"pending", "gone"}
          /\ e \in applied' => req'[g].step = "close" /\ req'[g].verdict = "approved"
    BY <2>1, <2>2 DEF ReviewOK
  <2>5. e \in applied' /\ proposal'[e].status = "pending" => Reviewing(e)' # {}
    BY <2>1, <2>2 DEF ReviewOK
  <2> QED BY <2>1, <2>3, <2>4, <2>5 DEF ReviewOK
<1> QED BY <1>1, <1>2, <1>3, <1>4

LEMMA ArrivalStep ==
  ASSUME IInv, NEW h \in Handlers, Arrival(h)
  PROVE  IInv'
<1>1. PICK r \in Requests :
         /\ req' = [req EXCEPT ![h] = r] /\ RequestOK(r)
         /\ r.step \notin ReviewSteps /\ req[h].step = "idle"
         /\ UNCHANGED <<tables, history>>
  BY ArrivalShape DEF IInv
<1>2. \A e \in Proposals : h \notin Reviewing(e)
  BY <1>1 DEF Reviewing, ReviewSteps
<1>3. disturbed' \in SUBSET Proposals /\ disturbed \subseteq disturbed'
      /\ UNCHANGED <<tables, applied>>
  BY <1>1 DEF IInv, TypeOK, history
<1> QED BY <1>1, <1>2, <1>3, MoveStep

LEMMA AnsweredStep ==
  ASSUME IInv, NEW h \in Handlers, Answered(h), UNCHANGED <<tables, applied>>,
         disturbed' \in SUBSET Proposals, disturbed \subseteq disturbed',
         \A e \in Proposals \ disturbed' :
           h \in Reviewing(e) => e \notin applied
  PROVE  IInv'
<1>1. req' = [req EXCEPT ![h] = Idle]
  BY DEF Answered
<1>2. Idle.step \notin ReviewSteps
  BY IdleOK DEF ReviewSteps
<1> QED BY <1>1, <1>2, IdleOK, MoveStep

LEMMA CreateReadStep ==
  ASSUME IInv, NEW h \in Handlers, CreateRead(h)
  PROVE  IInv'
<1>1. /\ req[h].step = "create.read" /\ RequestOK(req[h]) /\ TypeOK
      /\ UNCHANGED <<tables, applied, disturbed>>
      /\ disturbed' \in SUBSET Proposals
  BY DEF CreateRead, history, IInv, RequestsOK, TypeOK
<1>2. \A e \in Proposals : h \notin Reviewing(e)
  BY <1>1 DEF Reviewing, ReviewSteps
<1>3. CASE Answered(h)
  BY <1>1, <1>2, <1>3, AnsweredStep
<1>4. CASE GoTo(h, "create.save") /\ Valid(req[h].data)
  <2>1. PICK r \in Requests :
          /\ req' = [req EXCEPT ![h] = r]
          /\ r.step = "create.save" /\ r.who = req[h].who
          /\ r.target = req[h].target /\ r.data = req[h].data
    BY <1>1, <1>4, GoToShape DEF Steps
  <2>2. RequestOK(r) /\ r.step \notin ReviewSteps
    BY <1>1, <1>4, <2>1 DEF RequestOK, ReviewSteps
  <2> QED BY <1>1, <1>2, <2>1, <2>2, MoveStep
<1> QED BY <1>3, <1>4 DEF CreateRead

LEMMA ReviewReadStep ==
  ASSUME IInv, NEW h \in Handlers, ReviewRead(h)
  PROVE  IInv'
<1> DEFINE e == req[h].edit
<1>1. /\ req[h].step = "review.read" /\ RequestOK(req[h]) /\ TypeOK
      /\ UNCHANGED <<tables, applied>>
  BY DEF ReviewRead, IInv, RequestsOK, TypeOK
<1>2. /\ e \in Proposals /\ req[h].verdict \in Closed
      /\ proposal[e].status # "absent"
  BY <1>1 DEF RequestOK
<1>3. \A d \in Proposals : h \notin Reviewing(d)
  BY <1>1 DEF Reviewing, ReviewSteps
<1> HIDE DEF e
<1>4. CASE proposal[e].status # "pending"
  <2>1. Answered(h) /\ UNCHANGED disturbed
    BY <1>4 DEF ReviewRead, e
  <2> QED BY <1>1, <1>3, <2>1, AnsweredStep DEF TypeOK
<1>5. CASE proposal[e].status = "pending"
  <2> DEFINE s == IF req[h].verdict = "approved" THEN "apply.read" ELSE "close"
  <2>1. /\ GoTo(h, s) /\ s \in Steps
        /\ disturbed' = IF Reviewing(e) = {} THEN disturbed ELSE disturbed \cup {e}
    BY <1>5 DEF ReviewRead, e, Steps, ReviewSteps
  <2>2. PICK r \in Requests :
          /\ req' = [req EXCEPT ![h] = r] /\ r.step = s
          /\ r.edit = e /\ r.verdict = req[h].verdict
    BY <1>1, <2>1, GoToShape DEF e
  <2>3. RequestOK(r)
    BY <1>2, <2>2 DEF RequestOK, ReviewSteps, Closed
  <2>4. e \notin disturbed' => Reviewing(e) = {} /\ e \notin applied
    BY <1>2, <1>5, <2>1 DEF IInv, ReviewsOK, ReviewOK
  <2>5. disturbed' \in SUBSET Proposals /\ disturbed \subseteq disturbed'
    BY <1>1, <1>2, <2>1 DEF TypeOK
  <2> QED BY <1>1, <1>3, <1>5, <2>2, <2>3, <2>4, <2>5, MoveStep
<1> QED BY <1>4, <1>5

LEMMA ApplyReadStep ==
  ASSUME IInv, NEW h \in Handlers, ApplyRead(h)
  PROVE  IInv'
<1> DEFINE e == req[h].edit
<1>1. /\ req[h].step = "apply.read" /\ RequestOK(req[h]) /\ TypeOK
      /\ UNCHANGED <<tables, applied, disturbed>> /\ disturbed' \in SUBSET Proposals
  BY DEF ApplyRead, history, IInv, RequestsOK, TypeOK
<1>2. /\ e \in Proposals /\ req[h].verdict = "approved"
      /\ proposal[e].status # "absent"
  BY <1>1 DEF RequestOK, ReviewSteps
<1>3. \A d \in Proposals : h \in Reviewing(d) <=> d = e
  BY <1>1 DEF Reviewing, ReviewSteps
<1>4. \A d \in Proposals \ disturbed : h \in Reviewing(d) => d \notin applied
  BY <1>1 DEF IInv, ReviewsOK, ReviewOK
<1> HIDE DEF e
<1>5. CASE Answered(h)
  BY <1>1, <1>4, <1>5, AnsweredStep
<1>6. CASE GoTo(h, "apply.write")
  <2>1. PICK r \in Requests :
          /\ req' = [req EXCEPT ![h] = r] /\ r.step = "apply.write"
          /\ r.edit = e /\ r.verdict = req[h].verdict
    BY <1>1, <1>6, GoToShape DEF Steps, ReviewSteps, e
  <2>2. RequestOK(r)
    BY <1>2, <2>1 DEF RequestOK, ReviewSteps, Closed
  <2>3. \A d \in Proposals \ disturbed :
          d = e => /\ Reviewing(d) \subseteq {h} /\ d \notin applied
                   /\ proposal[d].status \in {"pending", "gone"}
    BY <1>3, <1>4 DEF IInv, ReviewsOK, ReviewOK
  <2> QED BY <1>1, <1>3, <1>4, <2>1, <2>2, <2>3, MoveStep
<1> QED BY <1>5, <1>6 DEF ApplyRead

LEMMA FailStep ==
  ASSUME IInv, NEW h \in Handlers, Fail(h)
  PROVE  IInv'
<1>1. /\ Answered(h) /\ UNCHANGED <<tables, applied>>
      /\ disturbed' = IF req[h].step \in ReviewSteps
                      THEN disturbed \cup {req[h].edit} ELSE disturbed
  BY DEF Fail
<1>2. req[h].step \in ReviewSteps => req[h].edit \in Proposals
  BY DEF IInv, RequestsOK, RequestOK
<1>3. disturbed' \in SUBSET Proposals /\ disturbed \subseteq disturbed'
  BY <1>1, <1>2 DEF IInv, TypeOK
<1>4. \A e \in Proposals \ disturbed' : h \notin Reviewing(e)
  BY <1>1 DEF Reviewing
<1> QED BY <1>1, <1>3, <1>4, AnsweredStep

-----------------------------------------------------------------------------
(* A proposal is filed under a fresh id, which nothing can refer to yet. *)
LEMMA CreateSaveStep ==
  ASSUME IInv, NEW h \in Handlers, CreateSave(h)
  PROVE  IInv'
<1> DEFINE q == req[h]
<1>1. /\ q.step = "create.save" /\ RequestOK(q) /\ q \in Requests /\ TypeOK
      /\ Answered(h) /\ UNCHANGED <<entry, present, live, applied, disturbed>>
      /\ disturbed' \in SUBSET Proposals
  BY DEF CreateSave, history, IInv, RequestsOK, TypeOK
<1>2. \A d \in Proposals : h \notin Reviewing(d)
  BY <1>1 DEF Reviewing, ReviewSteps
<1>3. CASE UNCHANGED proposal
  BY <1>1, <1>2, <1>3, AnsweredStep DEF tables
<1>4. ASSUME NEW e \in Proposals, proposal[e] = Absent,
             proposal' = [proposal EXCEPT ![e] =
                            Proposal("pending", q.target, q.who, q.data)]
      PROVE  IInv'
  <2> DEFINE p == Proposal("pending", q.target, q.who, q.data)
  <2>1. /\ q.who \in Accounts /\ q.target \in Entries /\ q.data \in PartialChanges
        /\ Valid(q.data)
    BY <1>1 DEF RequestOK
  <2>2. /\ p \in ProposalRows /\ p.status = "pending" /\ p.target = q.target
        /\ p.by = q.who /\ p.data = q.data
    BY <2>1 DEF Proposal, ProposalRows, Stored
  <2> HIDE DEF p, q
  <2>3. /\ proposal'[e] = p
        /\ \A d \in Proposals : d # e => proposal'[d] = proposal[d]
        /\ proposal' \in [Proposals -> ProposalRows]
    BY <1>1, <1>4, <2>2 DEF TypeOK, p
  <2>4. proposal[e].status = "absent" /\ e \notin applied
    BY <1>4 DEF Absent, Proposal, IInv, ProposalsOK, ProposalOK
  <2>5. req' = [req EXCEPT ![h] = Idle]
    BY <1>1 DEF Answered
  <2>6. TypeOK'
    BY <1>1, <2>3, <2>5, IdleOK DEF TypeOK
  <2>7. RequestsOK'
    <3>1. Kept
      BY <1>1, <2>3, <2>4 DEF Kept
    <3>2. RequestOK(Idle)'
      BY IdleOK DEF RequestOK, ReviewSteps
    <3> QED BY <1>1, <2>5, <3>1, <3>2, OthersOK DEF IInv
  <2>8. ProposalsOK'
    BY <1>1, <2>1, <2>2, <2>3 DEF IInv, ProposalsOK, ProposalOK, Valid
  <2>9. ReviewsOK'
    <3> SUFFICES ASSUME NEW d \in Proposals, d \notin disturbed PROVE ReviewOK(d)'
      BY <1>1 DEF ReviewsOK
    <3>1. /\ \A g \in Handlers : g # h => req'[g] = req[g]
          /\ \A g \in Handlers : g # h => (g \in Reviewing(d)' <=> g \in Reviewing(d))
          /\ h \notin Reviewing(d)'
          /\ Reviewing(d) \subseteq Handlers /\ Reviewing(d)' \subseteq Handlers
      BY <1>1, <2>5, IdleOK, ReviewingAfter DEF ReviewSteps
    <3>2. ReviewOK(d)
      BY DEF IInv, ReviewsOK
    <3>3. CASE d = e
      <4>1. Reviewing(d) = {}
        BY <2>4, <3>3 DEF Reviewing, IInv, RequestsOK, RequestOK
      <4> QED BY <1>1, <2>4, <3>1, <3>3, <4>1 DEF ReviewOK
    <3>4. CASE d # e
      BY <1>1, <1>2, <2>3, <3>1, <3>2, <3>4 DEF ReviewOK
    <3> QED BY <3>3, <3>4
  <2>10. ApprovedIsApplied'
    BY <1>1, <2>2, <2>3 DEF IInv, ApprovedIsApplied
  <2>11. EditsCompose'
    <3>1. \A t \in Entries, f \in Fields :
            /\ Touching(t, f)' = Touching(t, f)
            /\ \A d \in Touching(t, f) : proposal'[d] = proposal[d]
      BY <1>1, <2>3, <2>4 DEF Touching, TypeOK
    <3>2. \A t \in Entries, f \in Fields :
            {Trim[f][proposal'[d].data[f]] : d \in Touching(t, f)'}
              = {Trim[f][proposal[d].data[f]] : d \in Touching(t, f)}
      BY <3>1
    <3> QED BY <1>1, <3>1, <3>2 DEF IInv, EditsCompose
  <2> QED BY <2>6, <2>7, <2>8, <2>9, <2>10, <2>11 DEF IInv
<1> QED BY <1>3, <1>4 DEF CreateSave

(* The change is written: the fields proposed, trimmed, and no other. *)
LEMMA ApplyWriteStep ==
  ASSUME IInv, NEW h \in Handlers, ApplyWrite(h)
  PROVE  IInv'
<1> DEFINE e == req[h].edit
           p == proposal[req[h].edit]
<1>1. /\ req[h].step = "apply.write" /\ RequestOK(req[h]) /\ TypeOK
      /\ UNCHANGED <<present, proposal, live, disturbed>> /\ GoTo(h, "close")
  BY DEF ApplyWrite, IInv, RequestsOK, TypeOK
<1>2. /\ e \in Proposals /\ req[h].verdict = "approved" /\ p.status # "absent"
  BY <1>1 DEF RequestOK, ReviewSteps
<1>3. /\ p.target \in Entries /\ p.data \in PartialChanges /\ Valid(p.data)
  BY <1>2 DEF IInv, ProposalsOK, ProposalOK
<1>4. \/ /\ p.target \in present /\ applied' = applied \cup {e}
         /\ entry' = [entry EXCEPT ![p.target] =
                        [f \in Fields |-> IF f \in DOMAIN p.data
                                          THEN Trim[f][p.data[f]] ELSE @[f]]]
      \/ p.target \notin present /\ UNCHANGED <<entry, applied>>
  BY DEF ApplyWrite
<1>5. PICK r \in Requests :
        /\ req' = [req EXCEPT ![h] = r] /\ r.step = "close"
        /\ r.edit = e /\ r.verdict = "approved"
  BY <1>1, <1>2, GoToShape DEF Steps, ReviewSteps
<1>6. h \in Reviewing(e) /\ \A d \in Proposals : h \in Reviewing(d) => d = e
  BY <1>1 DEF Reviewing, ReviewSteps
<1>7. proposal[e] = p
  OBVIOUS
<1> HIDE DEF e, p
<1>8. TypeOK'
  <2>1. \A f \in DOMAIN p.data : Trim[f][p.data[f]] \in Values \ Invalid
    BY <1>3, ChangeShape, EditsAssumption DEF Valid
  <2>2. \A f \in Fields : entry[p.target][f] \in Values \ Invalid
    BY <1>1, <1>3 DEF TypeOK
  <2>3. entry' \in [Entries -> [Fields -> Values \ Invalid]]
    BY <1>1, <1>3, <1>4, <2>1, <2>2 DEF TypeOK
  <2>4. applied' \subseteq Proposals
    BY <1>1, <1>2, <1>4 DEF TypeOK
  <2> QED BY <1>1, <1>5, <2>3, <2>4 DEF TypeOK
<1>9. RequestsOK'
  <2>1. Kept
    BY <1>1, <1>4 DEF Kept
  <2>2. RequestOK(r)'
    BY <1>1, <1>2, <1>4, <1>5, <1>7 DEF RequestOK, ReviewSteps, Closed
  <2> QED BY <1>1, <1>5, <2>1, <2>2, OthersOK DEF IInv
<1>10. ProposalsOK' /\ ApprovedIsApplied'
  BY <1>1, <1>2, <1>4, <1>7
  DEF IInv, ProposalsOK, ProposalOK, ApprovedIsApplied, Valid
<1>11. ReviewsOK'
  <2> SUFFICES ASSUME NEW d \in Proposals, d \notin disturbed PROVE ReviewOK(d)'
    BY <1>1 DEF ReviewsOK
  <2>1. /\ \A g \in Handlers : g # h => req'[g] = req[g]
        /\ req'[h] = r
        /\ \A g \in Handlers : g # h => (g \in Reviewing(d)' <=> g \in Reviewing(d))
        /\ h \in Reviewing(d)' <=> d = e
        /\ Reviewing(d) \subseteq Handlers /\ Reviewing(d)' \subseteq Handlers
    BY <1>1, <1>5, ReviewingAfter DEF ReviewSteps
  <2>2. ReviewOK(d)
    BY DEF IInv, ReviewsOK
  <2>3. CASE d = e
    BY <1>1, <1>4, <1>5, <1>6, <2>1, <2>2, <2>3 DEF ReviewOK
  <2>4. CASE d # e
    BY <1>1, <1>4, <1>6, <2>1, <2>2, <2>4 DEF ReviewOK
  <2> QED BY <2>3, <2>4
<1>12. EditsCompose'
  <2>1. CASE UNCHANGED <<entry, applied>>
    BY <1>1, <2>1, SameEntries DEF IInv
  <2>2. ASSUME applied' = applied \cup {e},
               entry' = [entry EXCEPT ![p.target] =
                           [f \in Fields |-> IF f \in DOMAIN p.data
                                             THEN Trim[f][p.data[f]] ELSE @[f]]]
        PROVE  EditsCompose'
    <3> SUFFICES ASSUME NEW t \in Entries, NEW f \in Fields
                 PROVE  entry'[t][f] \in
                          (IF Touching(t, f)' = {} THEN {Start[t][f]}
                           ELSE {Trim[f][proposal[d].data[f]] : d \in Touching(t, f)'})
      BY <1>1 DEF EditsCompose
    <3>1. entry[t][f] \in
            (IF Touching(t, f) = {} THEN {Start[t][f]}
             ELSE {Trim[f][proposal[d].data[f]] : d \in Touching(t, f)})
      BY DEF IInv, EditsCompose
    <3>2. CASE t = p.target /\ f \in DOMAIN p.data
      <4>1. entry'[t][f] = Trim[f][proposal[e].data[f]]
        BY <1>1, <1>7, <2>2, <3>2 DEF TypeOK
      <4>2. e \in Touching(t, f)'
        BY <1>1, <1>7, <2>2, <3>2 DEF Touching
      <4> QED BY <4>1, <4>2
    <3>3. CASE ~(t = p.target /\ f \in DOMAIN p.data)
      <4>1. entry'[t][f] = entry[t][f]
        BY <1>1, <2>2, <3>3 DEF TypeOK
      <4>2. Touching(t, f)' = Touching(t, f)
        BY <1>1, <1>7, <2>2, <3>3 DEF Touching
      <4> QED BY <3>1, <4>1, <4>2
    <3> QED BY <3>2, <3>3
  <2> QED BY <1>4, <2>1, <2>2
<1> QED BY <1>8, <1>9, <1>10, <1>11, <1>12 DEF IInv

-----------------------------------------------------------------------------
(* Only statuses change: EditsCompose and ProposalsOK look at the rest. *)
LEMMA StatusOnly ==
  ASSUME IInv, UNCHANGED <<entry, applied>>,
         \A e \in Proposals :
           /\ proposal'[e].target = proposal[e].target
           /\ proposal'[e].by = proposal[e].by /\ proposal'[e].data = proposal[e].data
           /\ proposal'[e].status = "absent" <=> proposal[e].status = "absent"
           /\ proposal[e].status = "absent" => proposal'[e] = proposal[e]
  PROVE  ProposalsOK' /\ EditsCompose'
<1>1. ProposalsOK'
  BY DEF IInv, ProposalsOK, ProposalOK, Valid
<1>2. \A t \in Entries, f \in Fields : Touching(t, f)' = Touching(t, f)
  BY DEF Touching, IInv, TypeOK
<1>3. \A t \in Entries, f \in Fields :
        {Trim[f][proposal'[d].data[f]] : d \in Touching(t, f)'}
          = {Trim[f][proposal[d].data[f]] : d \in Touching(t, f)}
  BY <1>2 DEF Touching, IInv, TypeOK
<1>4. EditsCompose'
  BY <1>2, <1>3 DEF IInv, EditsCompose
<1> QED BY <1>1, <1>4

LEMMA CloseStep ==
  ASSUME IInv, NEW h \in Handlers, Close(h)
  PROVE  IInv'
<1> DEFINE e == req[h].edit
           v == req[h].verdict
<1>1. /\ req[h].step = "close" /\ RequestOK(req[h]) /\ TypeOK
      /\ Answered(h) /\ UNCHANGED <<entry, present, live, applied>>
  BY DEF Close, IInv, RequestsOK, TypeOK
<1>2. /\ e \in Proposals /\ v \in Closed /\ proposal[e].status # "absent"
      /\ v = "approved" => e \in applied \/ proposal[e].target \notin present
  BY <1>1 DEF RequestOK, ReviewSteps
<1>3. h \in Reviewing(e) /\ \A d \in Proposals : h \in Reviewing(d) => d = e
  BY <1>1 DEF Reviewing, ReviewSteps
<1>4. ReviewsOK /\ (e \notin disturbed => ReviewOK(e))
  BY <1>2 DEF IInv, ReviewsOK
<1>5. CASE UNCHANGED proposal /\ disturbed' = disturbed \cup {e}
  <2>1. disturbed' \in SUBSET Proposals /\ disturbed \subseteq disturbed'
    BY <1>1, <1>2, <1>5 DEF TypeOK
  <2> QED BY <1>1, <1>3, <1>5, <2>1, AnsweredStep DEF tables
<1>6. CASE UNCHANGED disturbed /\ proposal' = [proposal EXCEPT ![e].status = v]
  <2>1. /\ proposal'[e].status = v
        /\ proposal'[e].target = proposal[e].target
        /\ proposal'[e].by = proposal[e].by /\ proposal'[e].data = proposal[e].data
        /\ \A d \in Proposals : d # e => proposal'[d] = proposal[d]
        /\ proposal' \in [Proposals -> ProposalRows]
    <3>1. proposal[e] \in ProposalRows
      BY <1>1, <1>2 DEF TypeOK
    <3>2. [proposal[e] EXCEPT !.status = v] \in ProposalRows
      BY <1>2, <3>1 DEF ProposalRows, Stored, Closed
    <3> QED BY <1>1, <1>2, <1>6, <3>1, <3>2 DEF TypeOK, ProposalRows
  <2>2. req' = [req EXCEPT ![h] = Idle]
    BY <1>1 DEF Answered
  <2>3. v \in {"approved", "rejected"}
    BY <1>2 DEF Closed
  <2>4. req[h].verdict = v
    OBVIOUS
  <2> HIDE DEF e, v
  <2>5. TypeOK'
    BY <1>1, <1>6, <2>1, <2>2, IdleOK DEF TypeOK
  <2>6. RequestsOK'
    <3>1. Kept
      BY <1>1, <1>2, <2>1, <2>3 DEF Kept
    <3>2. RequestOK(Idle)'
      BY IdleOK DEF RequestOK, ReviewSteps
    <3> QED BY <1>1, <2>2, <3>1, <3>2, OthersOK DEF IInv
  <2>7. ProposalsOK' /\ EditsCompose'
    BY <1>1, <1>2, <2>1, <2>3, StatusOnly
  <2>8. ApprovedIsApplied'
    BY <1>1, <1>2, <2>1 DEF IInv, ApprovedIsApplied
  <2>9. ReviewsOK'
    <3> SUFFICES ASSUME NEW d \in Proposals, d \notin disturbed PROVE ReviewOK(d)'
      BY <1>6 DEF ReviewsOK
    <3>1. /\ \A g \in Handlers : g # h => req'[g] = req[g]
          /\ \A g \in Handlers : g # h => (g \in Reviewing(d)' <=> g \in Reviewing(d))
          /\ h \notin Reviewing(d)'
          /\ Reviewing(d) \subseteq Handlers /\ Reviewing(d)' \subseteq Handlers
      BY <1>1, <2>2, IdleOK, ReviewingAfter DEF ReviewSteps
    <3>2. ReviewOK(d)
      BY <1>4 DEF ReviewsOK
    <3>3. CASE d = e
      <4>1. Reviewing(d)' = {}
        BY <1>3, <3>1, <3>2, <3>3 DEF ReviewOK
      <4>2. e \in applied => v = "approved"
        BY <1>3, <2>4, <3>2, <3>3 DEF ReviewOK
      <4> QED BY <1>1, <2>1, <2>3, <3>3, <4>1, <4>2 DEF ReviewOK
    <3>4. CASE d # e
      BY <1>1, <1>3, <2>1, <3>1, <3>2, <3>4 DEF ReviewOK
    <3> QED BY <3>3, <3>4
  <2> QED BY <2>5, <2>6, <2>7, <2>8, <2>9 DEF IInv
<1> QED BY <1>5, <1>6 DEF Close

LEMMA DeleteUserStep ==
  ASSUME IInv, NEW h \in Handlers, DeleteUser(h)
  PROVE  IInv'
<1>1. /\ req[h].step = "account" /\ TypeOK /\ Answered(h)
      /\ UNCHANGED <<entry, applied, disturbed>>
      /\ live' \subseteq live /\ present' \subseteq present
  BY DEF DeleteUser, history, IInv
<1>2. \A d \in Proposals : h \notin Reviewing(d)
  BY <1>1 DEF Reviewing, ReviewSteps
<1>3. /\ proposal' \in [Proposals -> ProposalRows]
      /\ \A e \in Proposals :
           /\ proposal'[e].target = proposal[e].target
           /\ proposal'[e].by = proposal[e].by /\ proposal'[e].data = proposal[e].data
           /\ \/ proposal'[e] = proposal[e]
              \/ /\ proposal'[e].status = "gone"
                 /\ proposal[e].status \in Stored
  <2> DEFINE gone(e) == [proposal[e] EXCEPT !.status = "gone"]
  <2>1. \A e \in Proposals :
          /\ proposal[e] \in ProposalRows /\ gone(e) \in ProposalRows
          /\ gone(e).status = "gone" /\ gone(e).target = proposal[e].target
          /\ gone(e).by = proposal[e].by /\ gone(e).data = proposal[e].data
    BY <1>1 DEF TypeOK, ProposalRows
  <2>2. proposal' = [e \in Proposals |->
          IF Exists(e) /\ proposal[e].by = req[h].who THEN gone(e) ELSE proposal[e]]
    BY DEF DeleteUser
  <2> HIDE DEF gone
  <2> QED BY <2>1, <2>2 DEF Exists
<1>4. req' = [req EXCEPT ![h] = Idle]
  BY <1>1 DEF Answered
<1>5. TypeOK'
  BY <1>1, <1>3, <1>4, IdleOK DEF TypeOK
<1>6. RequestsOK'
  <2>1. Kept
    BY <1>1, <1>3 DEF Kept
  <2>2. RequestOK(Idle)'
    BY IdleOK DEF RequestOK, ReviewSteps
  <2> QED BY <1>1, <1>4, <2>1, <2>2, OthersOK DEF IInv
<1>7. ProposalsOK' /\ EditsCompose'
  BY <1>1, <1>3, StatusOnly DEF Stored, Closed
<1>8. ApprovedIsApplied'
  BY <1>1, <1>3 DEF IInv, ApprovedIsApplied
<1>9. ReviewsOK'
  <2> SUFFICES ASSUME NEW d \in Proposals, d \notin disturbed PROVE ReviewOK(d)'
    BY <1>1 DEF ReviewsOK
  <2>1. /\ \A g \in Handlers : g # h => req'[g] = req[g]
        /\ \A g \in Handlers : g # h => (g \in Reviewing(d)' <=> g \in Reviewing(d))
        /\ h \notin Reviewing(d)'
        /\ Reviewing(d) \subseteq Handlers /\ Reviewing(d)' \subseteq Handlers
    BY <1>1, <1>4, IdleOK, ReviewingAfter DEF ReviewSteps
  <2>2. ReviewOK(d)
    BY DEF IInv, ReviewsOK
  <2> QED BY <1>1, <1>2, <1>3, <2>1, <2>2 DEF ReviewOK
<1> QED BY <1>5, <1>6, <1>7, <1>8, <1>9 DEF IInv

-----------------------------------------------------------------------------
LEMMA StepCases ==
  ASSUME Next
  PROVE  \E h \in Handlers :
           \/ Arrival(h) \/ CreateRead(h) \/ CreateSave(h)
           \/ ReviewRead(h) \/ ApplyRead(h) \/ ApplyWrite(h) \/ Close(h)
           \/ DeleteUser(h) \/ Fail(h)
BY DEF Next, Arrival

LEMMA StepIInv == IInv /\ [Next]_vars => IInv'
<1> SUFFICES ASSUME IInv, [Next]_vars PROVE IInv'
  OBVIOUS
<1>1. CASE Next
  BY <1>1, StepCases, ArrivalStep, CreateReadStep, CreateSaveStep, ReviewReadStep,
     ApplyReadStep, ApplyWriteStep, CloseStep, DeleteUserStep, FailStep
<1>2. CASE UNCHANGED vars
  BY <1>2, SameEntries
  DEF vars, IInv, TypeOK, RequestsOK, RequestOK, ProposalsOK, ProposalOK,
      ReviewsOK, ReviewOK, Reviewing, ApprovedIsApplied, Valid
<1> QED BY <1>1, <1>2

LEMMA Invariant == Spec => []IInv
BY InitIInv, StepIInv, PTL DEF Spec

-----------------------------------------------------------------------------
(* The tables and requests keep their shape, and every value an entry holds *)
(* is one that validateProposedData accepts.                                *)
THEOREM TypeCorrect == Spec => []TypeOK
<1>1. IInv => TypeOK
  BY DEF IInv
<1> QED BY <1>1, Invariant, PTL

(* In whatever order reviews run, an edit leaves alone the fields it does   *)
(* not propose.                                                             *)
THEOREM EditsAddUp == Spec => []EditsCompose
<1>1. IInv => EditsCompose
  BY DEF IInv
<1> QED BY <1>1, Invariant, PTL

(* Wherever a review breaks off, no proposal is approved with its change    *)
(* missing.                                                                 *)
THEOREM ApprovalsAreApplied == Spec => []ApprovedIsApplied
<1>1. IInv => ApprovedIsApplied
  BY DEF IInv
<1> QED BY <1>1, Invariant, PTL

(* A rejection that no other review and no failure disturbed has left its   *)
(* target alone.                                                            *)
THEOREM RejectionsLeaveAlone == Spec => []UndisturbedRejection
<1>1. IInv => UndisturbedRejection
  BY DEF IInv, ReviewsOK, ReviewOK, UndisturbedRejection
<1> QED BY <1>1, Invariant, PTL

(* The one look at the status is enough for every review that starts after  *)
(* the decision.                                                            *)
THEOREM ClosedIsFinal == Spec => ClosedStays
<1> DEFINE A == \A e \in Proposals :
       proposal[e].status \in Closed /\ Reviewing(e) = {}
         => /\ Reviewing(e)' = {}
            /\ \/ proposal'[e].status = proposal[e].status
               \/ proposal'[e].status = "gone" /\ proposal[e].by \notin live'
<1>1. ASSUME IInv, Next PROVE A
  <2> SUFFICES ASSUME NEW e \in Proposals, proposal[e].status \in Closed,
                      Reviewing(e) = {}
               PROVE  /\ Reviewing(e)' = {}
                      /\ \/ proposal'[e].status = proposal[e].status
                         \/ proposal'[e].status = "gone" /\ proposal[e].by \notin live'
    OBVIOUS
  <2>1. PICK h \in Handlers :
           \/ Arrival(h) \/ CreateRead(h) \/ CreateSave(h)
           \/ ReviewRead(h) \/ ApplyRead(h) \/ ApplyWrite(h) \/ Close(h)
           \/ DeleteUser(h) \/ Fail(h)
    BY <1>1, StepCases
  <2>2. TypeOK /\ ProposalsOK /\ req[h] \in Requests /\ RequestOK(req[h])
    BY <1>1 DEF IInv, TypeOK, RequestsOK
  <2>3. ~(req[h].edit = e /\ req[h].step \in ReviewSteps)
    BY DEF Reviewing
  <2>4. ASSUME NEW r, req' = [req EXCEPT ![h] = r],
               ~(r.edit = e /\ r.step \in ReviewSteps)
        PROVE  Reviewing(e)' = {}
    BY <2>2, <2>4, ReviewingAfter
  <2>5. Answered(h) => Reviewing(e)' = {}
    BY <2>4, IdleOK DEF Answered, ReviewSteps
  <2>6. ASSUME NEW s \in Steps, GoTo(h, s),
               req[h].edit = e => s \notin ReviewSteps
        PROVE  Reviewing(e)' = {}
    BY <2>2, <2>4, <2>6, GoToShape
  <2>7. CASE Arrival(h)
    BY <2>2, <2>4, <2>7, ArrivalShape DEF tables
  <2>8. CASE CreateRead(h)
    BY <2>5, <2>6, <2>8 DEF CreateRead, tables, Steps, ReviewSteps
  <2>9. CASE CreateSave(h)
    <3>1. Answered(h)
      BY <2>9 DEF CreateSave
    <3>2. proposal[e] # Absent
      BY DEF Absent, Proposal, Closed
    <3>3. proposal'[e] = proposal[e]
      BY <2>2, <2>9, <3>2 DEF CreateSave, TypeOK
    <3> QED BY <2>5, <3>1, <3>3
  <2>10. CASE ReviewRead(h)
    <3>1. req[h].edit = e => Answered(h)
      BY <2>10 DEF ReviewRead, Closed
    <3> QED BY <2>5, <2>6, <2>10, <3>1 DEF ReviewRead, tables, Steps, ReviewSteps
  <2>11. CASE ApplyRead(h) \/ ApplyWrite(h)
    <3>1. req[h].edit # e
      BY <2>3, <2>11 DEF ApplyRead, ApplyWrite, ReviewSteps
    <3> QED BY <2>5, <2>6, <2>11, <3>1
            DEF ApplyRead, ApplyWrite, tables, Steps, ReviewSteps
  <2>12. CASE Close(h)
    <3>1. req[h].edit # e /\ req[h].edit \in Proposals
      BY <2>2, <2>3, <2>12 DEF Close, RequestOK, ReviewSteps
    <3>2. proposal'[e] = proposal[e] /\ Answered(h)
      BY <2>2, <2>12, <3>1 DEF Close, TypeOK
    <3> QED BY <2>5, <3>2
  <2>13. CASE DeleteUser(h)
    <3>1. Answered(h)
      BY <2>13 DEF DeleteUser
    <3>2. \/ proposal'[e] = proposal[e]
          \/ /\ proposal'[e] = [proposal[e] EXCEPT !.status = "gone"]
             /\ proposal[e].by \notin live'
      BY <2>13 DEF DeleteUser
    <3>3. proposal[e] \in ProposalRows
      BY <2>2 DEF TypeOK
    <3> QED BY <2>5, <3>1, <3>2, <3>3 DEF ProposalRows
  <2>14. CASE Fail(h)
    BY <2>5, <2>14 DEF Fail, tables
  <2> QED BY <2>1, <2>7, <2>8, <2>9, <2>10, <2>11, <2>12, <2>13, <2>14
<1>2. ASSUME UNCHANGED vars PROVE A
  BY <1>2 DEF vars, Reviewing
<1>3. IInv /\ [Next]_vars => [A]_vars
  BY <1>1, <1>2
<1> QED BY <1>3, Invariant, PTL DEF Spec, ClosedStays

-----------------------------------------------------------------------------
(* The page of one's own submissions. *)

Texts == [of : Ids, is : Typed \cup {"first"}]
Statuses == {"pending", "approved", "rejected", "absent"}
Views == [id : Ids, status : Statuses, text : Texts]
PageLoads == [no : Nat, unread : SUBSET Kinds, got : SUBSET Views, touched : SUBSET Ids]
PageRequests ==
  [no : Nat, call : {"update", "delete"}, id : Ids, text : Texts \cup {Nothing},
   step : {"read", "write", "drop", "reject", "ok", "failed"}]

PageTypes ==
  /\ row \in [Ids -> [status : Statuses, text : Texts, anonymous : BOOLEAN]]
  /\ rows \subseteq Views /\ loads \subseteq PageLoads /\ requests \subseteq PageRequests
  /\ editing # Nothing => editing \in Views
  /\ form # Nothing => form \in Texts
  /\ loadNo \in Nat /\ shownNo \in Nat /\ requestNo \in Nat /\ estranged \subseteq Ids
  /\ shownNo <= loadNo /\ \A l \in loads : l.no <= loadNo
  /\ \A q \in requests : q.call = "update" => q.text \in Texts

(* A text goes with its submission wherever it is copied to: into lists     *)
(* under way, onto the page, into the form.                                 *)
TextsOK ==
  /\ \A r \in rows : r.text.of = r.id
  /\ \A l \in loads : \A v \in l.got : v.text.of = v.id
  /\ editing # Nothing => editing.text.of = editing.id
  /\ editing # Nothing /\ form # Nothing => form.of = editing.id

(* Each list under way holds what is stored, but for what changed since. *)
AsStored(id) == IF InTable(id) THEN {View(id)} ELSE {}
Lists(vs, id) == {v \in vs : v.id = id}
PairsOK ==
  \A l \in loads, k \in Kinds : \A id \in Of(k) :
    IF k \in l.unread THEN Lists(l.got, id) = {}
    ELSE id \notin l.touched => Lists(l.got, id) = AsStored(id)

(* So does the page, if it shows the pair asked for last, but for what it   *)
(* will be told to have changed.                                            *)
PageFollows ==
  shownNo = loadNo => \A id \in Ids \ estranged :
    \/ Lists(rows, id) = AsStored(id)
    \/ \E q \in requests : q.id = id /\ q.step = "ok"

PageInv == PageTypes /\ TextsOK /\ TypedForThisRow /\ PairsOK /\ PageFollows

-----------------------------------------------------------------------------
(* Frames and shapes. *)
LEMMA FollowFrame ==
  ASSUME PageFollows, UNCHANGED <<row, rows, loadNo, shownNo, estranged>>,
         \A q \in requests : q.step = "ok" => q \in requests'
  PROVE  PageFollows'
BY DEF PageFollows, Lists, AsStored, InTable, View

LEMMA PairsFrame ==
  ASSUME PairsOK, row' = row, loads' \subseteq loads
  PROVE  PairsOK'
BY DEF PairsOK, Lists, AsStored, InTable, View

LEMMA ViewShape ==
  ASSUME PageTypes, NEW id \in Ids
  PROVE  View(id) \in Views /\ View(id).id = id /\ View(id).text = row[id].text
BY DEF PageTypes, View, Views

LEMMA GotoShape ==
  ASSUME PageTypes, NEW q \in requests,
         NEW step \in {"read", "write", "drop", "reject", "ok", "failed"}, Goto(q, step)
  PROVE  \E s \in PageRequests :
           /\ requests' = (requests \ {q}) \cup {s}
           /\ s.call = q.call /\ s.id = q.id /\ s.text = q.text /\ s.step = step
<1> DEFINE s == [q EXCEPT !.step = step]
<1>1. s \in PageRequests /\ s.call = q.call /\ s.id = q.id /\ s.text = q.text /\ s.step = step
  BY DEF PageTypes, PageRequests
<1>2. requests' = (requests \ {q}) \cup {s}
  BY DEF Goto
<1> QED BY <1>1, <1>2

LEMMA TouchShape ==
  ASSUME PageTypes, NEW id \in Ids
  PROVE  \A m \in Touch(id) : \E l \in loads :
           /\ m \in PageLoads /\ m.no = l.no /\ m.unread = l.unread /\ m.got = l.got
           /\ l.touched \subseteq m.touched
           /\ (\E k \in Kinds \ l.unread : id \in Of(k)) => id \in m.touched
<1> DEFINE Touched(l) ==
      IF \E k \in Kinds \ l.unread : id \in Of(k) THEN [l EXCEPT !.touched = @ \cup {id}] ELSE l
<1>1. Touch(id) = {Touched(l) : l \in loads}
  BY DEF Touch
<1>2. ASSUME NEW l \in loads
      PROVE  /\ Touched(l) \in PageLoads /\ Touched(l).no = l.no /\ Touched(l).unread = l.unread
             /\ Touched(l).got = l.got /\ l.touched \subseteq Touched(l).touched
             /\ (\E k \in Kinds \ l.unread : id \in Of(k)) => id \in Touched(l).touched
  BY DEF PageTypes, PageLoads
<1> HIDE DEF Touched
<1>3. SUFFICES ASSUME NEW m \in Touch(id)
               PROVE  \E l \in loads :
                        /\ m \in PageLoads /\ m.no = l.no /\ m.unread = l.unread /\ m.got = l.got
                        /\ l.touched \subseteq m.touched
                        /\ (\E k \in Kinds \ l.unread : id \in Of(k)) => id \in m.touched
  OBVIOUS
<1>4. PICK l \in loads : m = Touched(l)
  BY <1>1
<1> QED BY <1>2, <1>4

LEMMA KindsOfIds == \A k \in Kinds : Of(k) \subseteq Ids
BY DEF Of, Ids

-----------------------------------------------------------------------------
LEMMA InitPageInv == PageInit => PageInv
<1> SUFFICES ASSUME PageInit PROVE PageInv
  OBVIOUS
<1>1. /\ loads = {Load(1)} /\ Load(1) \in PageLoads /\ Load(1).unread = Kinds
      /\ Load(1).got = {} /\ Load(1).no = 1
  BY DEF PageInit, Load, PageLoads
<1>2. /\ row \in [Ids -> [status : Statuses, text : Texts, anonymous : BOOLEAN]]
      /\ \A id \in Ids : row[id].text.of = id
  BY DEF PageInit, Text, Texts, Statuses
<1>3. PageTypes
  BY <1>1, <1>2 DEF PageInit, PageTypes
<1>4. TextsOK
  BY <1>1 DEF PageInit, TextsOK
<1>5. TypedForThisRow
  BY <1>2 DEF PageInit, TypedForThisRow
<1>6. PairsOK
  BY <1>1 DEF PairsOK, Lists
<1>7. PageFollows
  BY DEF PageInit, PageFollows
<1> QED BY <1>3, <1>4, <1>5, <1>6, <1>7 DEF PageInv

-----------------------------------------------------------------------------
(* Lists. *)
LEMMA ToRowsStep ==
  ASSUME PageInv, NEW l \in loads, NEW k \in Kinds, ToRows(l, k)
  PROVE  PageInv'
<1> USE DEF PageInv
<1>1. UNCHANGED <<row, rows, editing, form, loadNo, shownNo, requests, requestNo, estranged>>
  BY DEF ToRows, backend, page
<1> DEFINE news == {View(id) : id \in {i \in Of(k) : InTable(i)}}
           m == [l EXCEPT !.unread = @ \ {k}, !.got = @ \cup news]
<1>2. k \in l.unread /\ loads' = (loads \ {l}) \cup {m}
  BY DEF ToRows
<1>3. l \in PageLoads
  BY DEF PageTypes
<1>4. news \subseteq Views /\ \A v \in news : v.text.of = v.id
  BY ViewShape, KindsOfIds DEF TypedForThisRow
<1> HIDE DEF news
<1>5. /\ m.no = l.no /\ m.unread = l.unread \ {k} /\ m.got = l.got \cup news
      /\ m.touched = l.touched /\ m \in PageLoads
  BY <1>3, <1>4 DEF PageLoads
<1> HIDE DEF m
<1>6. PageTypes'
  BY <1>1, <1>2, <1>5 DEF PageTypes
<1>7. TextsOK' /\ TypedForThisRow'
  BY <1>1, <1>2, <1>4, <1>5 DEF TextsOK, TypedForThisRow
<1>8. ASSUME NEW j \in Kinds, NEW id \in Of(j)
      PROVE  IF j \in m.unread THEN Lists(m.got, id) = {}
             ELSE id \notin m.touched => Lists(m.got, id) = AsStored(id)
  <2>1. Lists(m.got, id) = Lists(l.got, id) \cup Lists(news, id)
    BY <1>5 DEF Lists
  <2>2. Lists(news, id) = IF j = k THEN AsStored(id) ELSE {}
    <3>1. \A i \in Of(k) : View(i).id = i
      BY KindsOfIds, ViewShape
    <3>2. CASE j = k
      BY <3>1, <3>2 DEF Lists, news, AsStored
    <3>3. CASE j # k
      <4>1. id \notin Of(k)
        BY <3>3, MySubmissionsAssumption DEF Of, Kinds
      <4> QED BY <3>1, <3>3, <4>1 DEF Lists, news
    <3> QED BY <3>2, <3>3
  <2>3. CASE j = k
    BY <1>2, <1>5, <2>1, <2>2, <2>3 DEF PairsOK
  <2>4. CASE j # k
    BY <1>5, <2>1, <2>2, <2>4 DEF PairsOK
  <2> QED BY <2>3, <2>4
<1>9. PairsOK'
  BY <1>1, <1>2, <1>8 DEF PairsOK, AsStored, InTable, View, Lists
<1>10. PageFollows'
  BY <1>1, FollowFrame
<1> QED BY <1>6, <1>7, <1>9, <1>10

LEMMA LoadArrivesStep ==
  ASSUME PageInv, NEW l \in loads, LoadArrives(l)
  PROVE  PageInv'
<1> USE DEF PageInv
<1>1. /\ UNCHANGED <<row, editing, form, loadNo, requests, requestNo>>
      /\ rows' = l.got /\ loads' = loads \ {l} /\ shownNo' = l.no /\ estranged' = l.touched
      /\ l.unread = {} /\ l \in PageLoads
  BY DEF LoadArrives, backend, PageTypes
<1>2. PageTypes'
  BY <1>1 DEF PageTypes, PageLoads
<1>3. TextsOK' /\ TypedForThisRow'
  BY <1>1 DEF TextsOK, TypedForThisRow
<1>4. PairsOK'
  BY <1>1, PairsFrame
<1>5. \A id \in Ids : \E k \in Kinds : id \in Of(k)
  BY DEF Ids, Of, Kinds
<1>6. \A id \in Ids \ estranged' : Lists(rows', id) = AsStored(id)
  BY <1>1, <1>5 DEF PairsOK
<1>7. PageFollows'
  BY <1>1, <1>6 DEF PageFollows, AsStored, InTable, View, Lists
<1> QED BY <1>2, <1>3, <1>4, <1>7

LEMMA ReloadOK ==
  ASSUME PageInv, Reload, UNCHANGED <<row, rows, shownNo>>
  PROVE  /\ loads' \subseteq PageLoads /\ loadNo' \in Nat /\ shownNo <= loadNo'
         /\ \A l \in loads' : l.no <= loadNo'
         /\ \A l \in loads' : \A v \in l.got : v.text.of = v.id
         /\ PairsOK' /\ PageFollows'
<1> USE DEF PageInv
<1> DEFINE new == Load(loadNo + 1)
<1>1. /\ loads' = loads \cup {new} /\ loadNo' = loadNo + 1
      /\ new \in PageLoads /\ new.no = loadNo + 1 /\ new.unread = Kinds /\ new.got = {}
      /\ loadNo \in Nat /\ shownNo \in Nat /\ shownNo <= loadNo
  BY DEF Reload, Load, PageLoads, PageTypes
<1> HIDE DEF new
<1>2. \A l \in loads : l.no \in Nat /\ l.no <= loadNo
  BY DEF PageTypes, PageLoads
<1>3. PairsOK'
  BY <1>1 DEF PairsOK, Lists, AsStored, InTable, View
<1>4. PageFollows'
  BY <1>1 DEF PageFollows
<1> QED BY <1>1, <1>2, <1>3, <1>4 DEF PageTypes, TextsOK

-----------------------------------------------------------------------------
(* The form and the questions: neither list nor table changes. *)
LEMMA FormStep ==
  ASSUME PageInv,
         \/ \E r \in rows : StartEdit(r) \/ StartDelete(r)
         \/ \E t \in Typed : Type(t)
         \/ CancelEdit \/ CancelDelete
         \/ \E l \in loads : LoadFails(l)
  PROVE  PageInv'
<1> USE DEF PageInv
<1>1. /\ UNCHANGED <<row, rows, loadNo, shownNo, requests, requestNo, estranged>>
      /\ loads' \subseteq loads
  BY DEF StartEdit, StartDelete, Type, CancelEdit, CancelDelete, LoadFails, backend
<1>2. PairsOK' /\ PageFollows' /\ TypedForThisRow'
  BY <1>1, PairsFrame, FollowFrame DEF TypedForThisRow
<1> DEFINE FormOK ==
      /\ editing # Nothing => editing \in Views /\ editing.text.of = editing.id
      /\ form # Nothing => form \in Texts
      /\ editing # Nothing /\ form # Nothing => form.of = editing.id
<1>3. FormOK'
  <2>1. ASSUME NEW r \in rows, StartEdit(r) PROVE FormOK'
    BY <2>1 DEF StartEdit, PageTypes, TextsOK, Views
  <2>2. ASSUME NEW t \in Typed, Type(t) PROVE FormOK'
    BY <2>2 DEF Type, PageTypes, TextsOK, Views, Text, Texts
  <2>3. ASSUME CancelEdit PROVE FormOK'
    BY <2>3 DEF CancelEdit
  <2>4. ASSUME UNCHANGED <<editing, form>> PROVE FormOK'
    BY <2>4 DEF PageTypes, TextsOK
  <2> HIDE DEF FormOK
  <2> QED BY <2>1, <2>2, <2>3, <2>4 DEF StartDelete, CancelDelete, LoadFails
<1>4. PageTypes' /\ TextsOK'
  BY <1>1, <1>3 DEF PageTypes, TextsOK
<1> QED BY <1>2, <1>4

LEMMA SendStep ==
  ASSUME PageInv, SaveEdit \/ ConfirmDelete
  PROVE  PageInv'
<1> USE DEF PageInv
<1>1. PICK call \in {"update", "delete"}, id \in Ids, text \in Texts \cup {Nothing} :
        /\ Send(call, id, text)
        /\ call = "update" => text \in Texts /\ text.of = id
  <2>1. CASE SaveEdit
    BY <2>1 DEF SaveEdit, PageTypes, TextsOK, Views
  <2>2. CASE ConfirmDelete
    BY <2>2 DEF ConfirmDelete, PageTypes, Views
  <2> QED BY <2>1, <2>2
<1>2. /\ UNCHANGED <<row, rows, editing, form, loads, loadNo, shownNo, estranged>>
      /\ requestNo' = requestNo + 1 /\ requestNo' \in Nat
  BY <1>1 DEF Send, backend, page, PageTypes
<1> DEFINE new == [no |-> requestNo + 1, call |-> call, id |-> id, text |-> text, step |-> "read"]
<1>3. /\ requests' = requests \cup {new} /\ new \in PageRequests
      /\ new.call = call /\ new.id = id /\ new.text = text
  BY <1>1, <1>2 DEF Send, PageRequests
<1> HIDE DEF new
<1>4. PageTypes'
  BY <1>1, <1>2, <1>3 DEF PageTypes
<1>5. TextsOK' /\ TypedForThisRow'
  BY <1>1, <1>2, <1>3 DEF TextsOK, TypedForThisRow
<1>6. PairsOK' /\ PageFollows'
  BY <1>2, <1>3, PairsFrame, FollowFrame
<1> QED BY <1>4, <1>5, <1>6

-----------------------------------------------------------------------------
(* The handlers.  One that only reads leaves every answer that is due due. *)
LEMMA ReadStep ==
  ASSUME PageInv, NEW q \in requests, Refused(q) \/ UpdateRead(q) \/ DeleteRead(q)
  PROVE  PageInv'
<1> USE DEF PageInv
<1>1. UNCHANGED <<row, rows, editing, form, loads, loadNo, shownNo, requestNo, estranged>>
  BY DEF Refused, UpdateRead, DeleteRead, backend, page
<1>2. /\ q.step = "read"
      /\ \E step \in {"write", "drop", "reject", "failed"} : Goto(q, step)
  BY DEF Refused, UpdateRead, DeleteRead
<1>3. PICK s \in PageRequests : /\ requests' = (requests \ {q}) \cup {s}
                                /\ s.call = q.call /\ s.id = q.id /\ s.text = q.text
  BY <1>2, GotoShape
<1>4. PageTypes'
  BY <1>1, <1>3 DEF PageTypes
<1>5. TextsOK' /\ TypedForThisRow'
  BY <1>1, <1>3 DEF TextsOK, TypedForThisRow
<1>6. PairsOK' /\ PageFollows'
  BY <1>1, <1>2, <1>3, PairsFrame, FollowFrame
<1> QED BY <1>4, <1>5, <1>6

(* A change of the submission id alone: a list that has read its kind is    *)
(* marked, and so is the page unless the answer will reload it.             *)
LEMMA ChangeOK ==
  ASSUME PageInv, NEW id \in Ids, loads' = Touch(id), UNCHANGED <<rows, loadNo, shownNo>>,
         \A i \in Ids \ {id} : row'[i] = row[i]
  PROVE  /\ loads' \subseteq PageLoads
         /\ \A m \in loads' : m.no <= loadNo
         /\ \A m \in loads' : \A v \in m.got : v.text.of = v.id
         /\ PairsOK'
         /\ \A i \in Ids \ {id} : AsStored(i)' = AsStored(i)
<1> USE DEF PageInv
<1>1. \A i \in Ids \ {id} : AsStored(i)' = AsStored(i)
  BY DEF AsStored, InTable, View
<1>2. SUFFICES ASSUME NEW m \in loads'
               PROVE  /\ m \in PageLoads /\ m.no <= loadNo
                      /\ \A v \in m.got : v.text.of = v.id
                      /\ \A k \in Kinds : \A i \in Of(k) :
                           IF k \in m.unread THEN Lists(m.got, i) = {}
                           ELSE i \notin m.touched => Lists(m.got, i) = AsStored(i)'
  BY <1>1 DEF PairsOK, Lists
<1>3. PICK l \in loads :
        /\ m \in PageLoads /\ m.no = l.no /\ m.unread = l.unread /\ m.got = l.got
        /\ l.touched \subseteq m.touched
        /\ (\E k \in Kinds \ l.unread : id \in Of(k)) => id \in m.touched
  BY TouchShape DEF PageTypes
<1>4. /\ m \in PageLoads /\ m.no <= loadNo
      /\ \A v \in m.got : v.text.of = v.id
  BY <1>3 DEF PageTypes, TextsOK
<1>5. ASSUME NEW k \in Kinds, NEW i \in Of(k)
      PROVE  IF k \in m.unread THEN Lists(m.got, i) = {}
             ELSE i \notin m.touched => Lists(m.got, i) = AsStored(i)'
  <2>1. IF k \in l.unread THEN Lists(l.got, i) = {}
        ELSE i \notin l.touched => Lists(l.got, i) = AsStored(i)
    BY DEF PairsOK
  <2>2. i \in Ids /\ (k \notin l.unread /\ i = id => id \in m.touched)
    BY <1>3, KindsOfIds
  <2>3. i # id => AsStored(i)' = AsStored(i)
    BY <1>1, <2>2
  <2> QED BY <1>3, <2>1, <2>2, <2>3
<1> QED BY <1>4, <1>5

LEMMA WriteStep ==
  ASSUME PageInv, NEW q \in requests, UpdateWrite(q) \/ DeleteWrite(q)
  PROVE  PageInv'
<1> USE DEF PageInv
<1>1. /\ UNCHANGED <<rows, editing, form, loadNo, shownNo, requestNo>>
      /\ loads' = Touch(q.id)
      /\ \/ Goto(q, "ok") /\ estranged' = estranged
         \/ Goto(q, "failed") /\ estranged' = estranged \cup {q.id}
      /\ q.id \in Ids /\ q.step # "ok"
  BY DEF UpdateWrite, DeleteWrite, Written, page, PageTypes, PageRequests
<1>2. /\ row' \in [Ids -> [status : Statuses, text : Texts, anonymous : BOOLEAN]]
      /\ \A id \in Ids : row'[id].text.of = id
      /\ \A i \in Ids \ {q.id} : row'[i] = row[i]
  <2>1. CASE UpdateWrite(q)
    <3>1. q.text \in Texts /\ q.text.of = q.id
      BY <2>1 DEF UpdateWrite, PageTypes, TypedForThisRow
    <3> QED BY <1>1, <2>1, <3>1 DEF UpdateWrite, PageTypes, TypedForThisRow
  <2>2. CASE DeleteWrite(q)
    BY <1>1, <2>2 DEF DeleteWrite, PageTypes, TypedForThisRow, Statuses
  <2> QED BY <2>1, <2>2
<1>3. /\ loads' \subseteq PageLoads /\ \A m \in loads' : m.no <= loadNo
      /\ \A m \in loads' : \A v \in m.got : v.text.of = v.id
      /\ PairsOK'
      /\ \A i \in Ids \ {q.id} : AsStored(i)' = AsStored(i)
  BY <1>1, <1>2, ChangeOK
<1>4. PICK s \in PageRequests :
        /\ requests' = (requests \ {q}) \cup {s}
        /\ s.call = q.call /\ s.id = q.id /\ s.text = q.text
        /\ \/ estranged' = estranged /\ s.step = "ok"
           \/ estranged' = estranged \cup {q.id}
  <2>1. CASE Goto(q, "ok") /\ estranged' = estranged
    BY <2>1, GotoShape
  <2>2. CASE Goto(q, "failed") /\ estranged' = estranged \cup {q.id}
    BY <2>2, GotoShape
  <2> QED BY <1>1, <2>1, <2>2
<1>5. PageTypes'
  BY <1>1, <1>2, <1>3, <1>4 DEF PageTypes
<1>6. TextsOK' /\ TypedForThisRow'
  BY <1>1, <1>2, <1>3, <1>4 DEF TextsOK, TypedForThisRow
<1>7. PageFollows'
  <2>1. SUFFICES ASSUME shownNo = loadNo, NEW id \in Ids \ estranged'
                 PROVE  \/ Lists(rows, id) = AsStored(id)'
                        \/ \E p \in requests' : p.id = id /\ p.step = "ok"
    BY <1>1 DEF PageFollows, Lists
  <2>2. CASE id = q.id
    BY <1>4, <2>2
  <2>3. CASE id # q.id
    <3>1. \/ Lists(rows, id) = AsStored(id)
          \/ \E p \in requests : p.id = id /\ p.step = "ok"
      BY <1>4, <2>1 DEF PageFollows
    <3> QED BY <1>1, <1>3, <1>4, <2>3, <3>1
  <2> QED BY <2>2, <2>3
<1> QED BY <1>3, <1>5, <1>6, <1>7

LEMMA ReviewStep ==
  ASSUME PageInv, NEW id \in Ids, NEW s \in {"approved", "rejected"}, Review(id, s)
  PROVE  PageInv'
<1> USE DEF PageInv
<1>1. /\ UNCHANGED <<rows, editing, form, loadNo, shownNo, requests, requestNo>>
      /\ loads' = Touch(id) /\ estranged' = estranged \cup {id}
  BY DEF Review, page
<1>2. /\ row' \in [Ids -> [status : Statuses, text : Texts, anonymous : BOOLEAN]]
      /\ \A i \in Ids : row'[i].text.of = i
      /\ \A i \in Ids \ {id} : row'[i] = row[i]
  BY DEF Review, PageTypes, TypedForThisRow, Statuses
<1>3. /\ loads' \subseteq PageLoads /\ \A m \in loads' : m.no <= loadNo
      /\ \A m \in loads' : \A v \in m.got : v.text.of = v.id
      /\ PairsOK'
      /\ \A i \in Ids \ {id} : AsStored(i)' = AsStored(i)
  BY <1>1, <1>2, ChangeOK
<1>4. PageTypes'
  BY <1>1, <1>2, <1>3 DEF PageTypes
<1>5. TextsOK' /\ TypedForThisRow'
  BY <1>1, <1>2, <1>3 DEF TextsOK, TypedForThisRow
<1>6. PageFollows'
  BY <1>1, <1>3 DEF PageFollows, Lists
<1> QED BY <1>3, <1>4, <1>5, <1>6

-----------------------------------------------------------------------------
(* The answers: one that succeeded asks for the lists again, so that the    *)
(* pair shown is not the last any more; one that failed owed nothing.       *)
LEMMA SucceedStep ==
  ASSUME PageInv, NEW q \in requests, OnSaved(q) \/ OnDeleted(q)
  PROVE  PageInv'
<1> USE DEF PageInv
<1>1. /\ UNCHANGED <<row, rows, form, shownNo, requestNo, estranged>>
      /\ Reload /\ requests' \subseteq requests
      /\ editing' \in {editing, Nothing}
  BY DEF OnSaved, OnDeleted, Settles, backend
<1>2. /\ loads' \subseteq PageLoads /\ loadNo' \in Nat /\ shownNo <= loadNo'
      /\ \A l \in loads' : l.no <= loadNo'
      /\ \A l \in loads' : \A v \in l.got : v.text.of = v.id
      /\ PairsOK' /\ PageFollows'
  BY <1>1, ReloadOK
<1>3. PageTypes'
  BY <1>1, <1>2 DEF PageTypes
<1>4. TextsOK' /\ TypedForThisRow'
  BY <1>1, <1>2 DEF TextsOK, TypedForThisRow
<1> QED BY <1>2, <1>3, <1>4

LEMMA FailedStep ==
  ASSUME PageInv, NEW q \in requests, OnSaveFails(q) \/ OnDeleteFails(q)
  PROVE  PageInv'
<1> USE DEF PageInv
<1>1. /\ UNCHANGED <<row, rows, editing, form, loads, loadNo, shownNo, requestNo, estranged>>
      /\ requests' = requests \ {q} /\ q.step # "ok"
  BY DEF OnSaveFails, OnDeleteFails, Settles, backend, page
<1>2. PageTypes'
  BY <1>1 DEF PageTypes
<1>3. TextsOK' /\ TypedForThisRow'
  BY <1>1 DEF TextsOK, TypedForThisRow
<1>4. PairsOK' /\ PageFollows'
  BY <1>1, PairsFrame, FollowFrame
<1> QED BY <1>2, <1>3, <1>4

-----------------------------------------------------------------------------
LEMMA PageStutter ==
  ASSUME PageInv, UNCHANGED pageVars
  PROVE  PageInv'
BY DEF pageVars, page, backend, PageInv, PageTypes, TextsOK, TypedForThisRow, PairsOK,
       PageFollows, Lists, AsStored, InTable, View

LEMMA PageStepInv == PageInv /\ [PageNext]_pageVars => PageInv'
<1> SUFFICES ASSUME PageInv, [PageNext]_pageVars PROVE PageInv'
  OBVIOUS
<1>1. ASSUME NEW l \in loads, NEW k \in Kinds, ToRows(l, k) PROVE PageInv'
  BY <1>1, ToRowsStep
<1>2. ASSUME NEW l \in loads, LoadArrives(l) PROVE PageInv'
  BY <1>2, LoadArrivesStep
<1>3. CASE \/ \E r \in rows : StartEdit(r) \/ StartDelete(r)
           \/ \E t \in Typed : Type(t)
           \/ CancelEdit \/ CancelDelete
           \/ \E l \in loads : LoadFails(l)
  BY <1>3, FormStep
<1>4. CASE SaveEdit \/ ConfirmDelete
  BY <1>4, SendStep
<1>5. ASSUME NEW q \in requests, Refused(q) \/ UpdateRead(q) \/ DeleteRead(q) PROVE PageInv'
  BY <1>5, ReadStep
<1>6. ASSUME NEW q \in requests, UpdateWrite(q) \/ DeleteWrite(q) PROVE PageInv'
  BY <1>6, WriteStep
<1>7. ASSUME NEW q \in requests, OnSaved(q) \/ OnDeleted(q) PROVE PageInv'
  BY <1>7, SucceedStep
<1>8. ASSUME NEW q \in requests, OnSaveFails(q) \/ OnDeleteFails(q) PROVE PageInv'
  BY <1>8, FailedStep
<1>9. ASSUME NEW id \in Ids, NEW s \in {"approved", "rejected"}, Review(id, s) PROVE PageInv'
  BY <1>9, ReviewStep
<1>10. CASE UNCHANGED pageVars
  BY <1>10, PageStutter
<1> QED
  BY <1>1, <1>2, <1>3, <1>4, <1>5, <1>6, <1>7, <1>8, <1>9, <1>10 DEF PageNext

LEMMA PageInductive == PageSpec => []PageInv
<1> QED BY InitPageInv, PageStepInv, PTL DEF PageSpec

(* What is stored under a submission, or on its way there, was typed for    *)
(* it, however many rows the one form was opened for before the save.       *)
THEOREM TextsStayWithTheirRow == PageSpec => []TypedForThisRow
<1>1. PageInv => TypedForThisRow
  BY DEF PageInv
<1> QED BY <1>1, PageInductive, PTL

(* With every answer in and the last pair of lists shown, the page shows of *)
(* each submission what is stored, unless it changed behind its back.       *)
THEOREM PageAgrees == PageSpec => []ListAgrees
<1>1. PageInv => ListAgrees
  BY DEF PageInv, PageFollows, ListAgrees, Lists, AsStored
<1> QED BY <1>1, PageInductive, PTL
=============================================================================

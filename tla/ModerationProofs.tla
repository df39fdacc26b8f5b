-------------------------- MODULE ModerationProofs --------------------------
(***************************************************************************)
(* What TLC checks of Moderation on small instances, proved for every      *)
(* number of accounts, submissions, addresses and concurrent requests and  *)
(* for every threshold.                                                    *)
(***************************************************************************)
EXTENDS Moderation, TLAPS

(* The steps, with the two services as one action over their table. *)
Tables == {Pois, Districts}

Arrival(h) ==
  \/ PostSubmission(h) \/ PostVote(h) \/ PatchReview(h)
  \/ PutSubmission(h) \/ DeleteSubmission(h) \/ DeleteMe(h)

(* Steps that only move a request on or answer it. *)
Reading(h) ==
  \/ \E T \in Tables : ReviewRead(h, T) \/ UpdateRead(h, T) \/ DeleteRead(h, T)
                         \/ VoteRead(h, T)
  \/ VoteCheck(h)
  \/ Fail(h)

LEMMA StepCases ==
  ASSUME Next
  PROVE  \E h \in Handlers :
           \/ Arrival(h) \/ Reading(h)
           \/ \E T \in Tables : \/ Create(h, T) \/ ReviewWrite(h, T)
                                \/ UpdateWrite(h, T) \/ DeleteRow(h, T)
                                \/ DeleteReject(h, T)
           \/ VoteInsert(h) \/ VoteCount(h) \/ DeleteVotes(h) \/ DeleteUser(h)
BY DEF Next, Arrival, Reading, Tables, PoisService, DistrictsService,
       VotesService, VoteOnPoi, VoteOnDistrict

(* A request enters with everything its route supplies. *)
LEMMA ArrivalShape ==
  ASSUME TypeOK, NEW h \in Handlers, Arrival(h)
  PROVE  \E r \in Requests :
           /\ req' = [req EXCEPT ![h] = r]
           /\ RequestOK(r)
           /\ r.step \notin PendingOnly
           /\ UNCHANGED <<row, ballots, live, history>>
<1> USE ModerationAssumption DEF Arrive, Request, Requests, Steps, RequestOK,
        TargetSteps, VoteSteps, Decided, Stored, history, PendingOnly, Targets
<1>1. CASE PostSubmission(h)
  <2>1. PICK u \in Accounts :
          Arrive(h, "create", Request("create", u, None, None, "none"))
    BY <1>1 DEF PostSubmission
  <2> QED BY <2>1
<1>2. CASE PostVote(h)
  <2>1. PICK u \in Accounts, i \in Ips, t \in Targets :
          Arrive(h, "vote", Request("vote.read", u, i, t, "none"))
    BY <1>2 DEF PostVote
  <2> QED BY <2>1
<1>3. CASE PatchReview(h)
  <2>1. PICK u \in Accounts, t \in Targets, d \in Decided :
          Arrive(h, "review", Request("review.read", u, None, t, d))
    BY <1>3 DEF PatchReview
  <2> QED BY <2>1
<1>4. CASE PutSubmission(h)
  <2>1. PICK u \in Accounts, t \in Targets :
          Arrive(h, "update", Request("update.read", u, None, t, "none"))
    BY <1>4 DEF PutSubmission
  <2> QED BY <2>1
<1>5. CASE DeleteSubmission(h)
  <2>1. PICK u \in Accounts, t \in Targets :
          Arrive(h, "delete", Request("delete.read", u, None, t, "none"))
    BY <1>5 DEF DeleteSubmission
  <2> QED BY <2>1
<1>6. CASE DeleteMe(h)
  <2>1. PICK u \in Accounts :
          Arrive(h, "account", Request("account.votes", u, None, None, "none"))
    BY <1>6 DEF DeleteMe
  <2> QED BY <2>1
<1> QED BY <1>1, <1>2, <1>3, <1>4, <1>5, <1>6 DEF Arrival

LEMMA IdleOK ==
  Idle \in Requests /\ RequestOK(Idle) /\ Idle.step = "idle" /\ Idle.target = None
BY DEF Idle, Request, Requests, Steps, RequestOK, TargetSteps, VoteSteps

LEMMA GoToShape ==
  ASSUME TypeOK, NEW h \in Handlers, NEW s \in Steps, GoTo(h, s)
  PROVE  \E r \in Requests :
           /\ req' = [req EXCEPT ![h] = r]
           /\ r.step = s /\ r.who = req[h].who /\ r.ip = req[h].ip
           /\ r.target = req[h].target /\ r.seen = req[h].seen
           /\ r.verdict = req[h].verdict
<1> DEFINE r == [req[h] EXCEPT !.step = s]
<1>1. req[h] \in Requests
  BY DEF TypeOK
<1>2. r \in Requests
  BY <1>1 DEF Requests
<1>3. /\ r.step = s /\ r.who = req[h].who /\ r.ip = req[h].ip
      /\ r.target = req[h].target /\ r.seen = req[h].seen
      /\ r.verdict = req[h].verdict
  BY <1>1 DEF Requests
<1>4. req' = [req EXCEPT ![h] = r]
  BY DEF GoTo
<1> QED BY <1>2, <1>3, <1>4

(* A read, a check or a failure hands the request on with what the next     *)
(* statement relies on, and changes no table.                               *)
LEMMA ReadingShape ==
  ASSUME IInv, NEW h \in Handlers, Reading(h)
  PROVE  \E r \in Requests :
           /\ req' = [req EXCEPT ![h] = r]
           /\ RequestOK(r)
           /\ r.step \in PendingOnly =>
                /\ r.target = req[h].target
                /\ row[r.target].status = "pending" \/ req[h].step \in PendingOnly
           /\ UNCHANGED <<row, ballots, live, history>>
<1> DEFINE q == req[h]
<1>1. q \in Requests /\ RequestOK(q) /\ TypeOK
  BY DEF IInv, TypeOK, RequestsOK
<1>2. Answered(h) =>
        \E r \in Requests :
           /\ req' = [req EXCEPT ![h] = r]
           /\ RequestOK(r)
           /\ r.step \notin PendingOnly
  BY IdleOK DEF PendingOnly, Answered
<1>3. ASSUME NEW s \in Steps, GoTo(h, s)
      PROVE  \E r \in Requests :
               /\ req' = [req EXCEPT ![h] = r]
               /\ r.step = s /\ r.who = q.who /\ r.ip = q.ip
               /\ r.target = q.target /\ r.seen = q.seen /\ r.verdict = q.verdict
  BY <1>1, <1>3, GoToShape
<1> HIDE DEF q
<1> USE DEF RequestOK, Steps, TargetSteps, VoteSteps, PendingOnly
<1>4. CASE \E T \in Tables : ReviewRead(h, T)
  <2>1. CASE GoTo(h, "review.write")
    BY <1>1, <1>3, <1>4, <2>1 DEF ReviewRead, q
  <2> QED BY <1>2, <1>4, <2>1 DEF ReviewRead
<1>5. CASE \E T \in Tables : UpdateRead(h, T)
  <2>1. CASE GoTo(h, "update.write") /\ row[q.target].status = "pending"
    BY <1>1, <1>3, <1>5, <2>1 DEF UpdateRead, q
  <2> QED BY <1>2, <1>5, <2>1 DEF UpdateRead, q
<1>6. CASE \E T \in Tables : DeleteRead(h, T)
  <2>1. CASE GoTo(h, "delete.row") /\ row[q.target].status = "pending"
    BY <1>1, <1>3, <1>6, <2>1 DEF DeleteRead, q
  <2>2. CASE GoTo(h, "delete.reject")
    BY <1>1, <1>3, <1>6, <2>2 DEF DeleteRead, q
  <2> QED BY <1>2, <1>6, <2>1, <2>2 DEF DeleteRead, q
<1>7. CASE \E T \in Tables : VoteRead(h, T)
  <2> DEFINE r == [step |-> "vote.check", who |-> q.who, ip |-> q.ip,
                   target |-> q.target, seen |-> row[q.target].votes,
                   verdict |-> q.verdict]
  <2>1. PICK T \in Tables : VoteRead(h, T)
    BY <1>7
  <2>2. CASE row[q.target].status = "pending"
    <3>1. q.target \in Targets /\ q.step = "vote.read"
      BY <1>1, <2>1 DEF VoteRead, q
    <3>2. row[q.target].votes \in Nat /\ row[q.target].votes <= cast[q.target]
      BY <3>1 DEF IInv, TypeOK, Rows, NoVoteInvented
    <3>3. r \in Requests
      BY <1>1, <3>2 DEF Requests
    <3>4. RequestOK(r)
      BY <1>1, <3>1, <3>2
    <3>5. req' = [req EXCEPT ![h] = r]
      BY <1>1, <2>1, <2>2 DEF VoteRead, Requests, TypeOK, q
    <3> QED BY <2>1, <2>2, <3>3, <3>4, <3>5 DEF VoteRead, q
  <2>3. CASE row[q.target].status # "pending"
    BY <1>2, <2>1, <2>3 DEF VoteRead, q
  <2> QED BY <2>2, <2>3
<1>8. CASE VoteCheck(h)
  <2>1. CASE GoTo(h, "vote.insert")
    BY <1>1, <1>3, <1>8, <2>1 DEF VoteCheck, q
  <2> QED BY <1>2, <1>8, <2>1 DEF VoteCheck
<1>9. CASE Fail(h)
  BY <1>2, <1>9 DEF Fail
<1> QED BY <1>4, <1>5, <1>6, <1>7, <1>8, <1>9 DEF Reading

LEMMA InitIInv == Init => IInv
<1> SUFFICES ASSUME Init PROVE IInv
  OBVIOUS
<1>1. TypeOK
  BY IdleOK, ModerationAssumption
     DEF Init, TypeOK, Rows, Absent, Stored
<1>2. RequestsOK
  BY DEF Init, RequestsOK, RequestOK, Idle, Request, TargetSteps, VoteSteps
<1>3. OwnersOK
  BY DEF Init, OwnersOK, Absent
<1>4. NoVoteInvented /\ ApprovalIsEarned
  BY DEF Init, NoVoteInvented, ApprovalIsEarned, Absent
<1> QED BY <1>1, <1>2, <1>3, <1>4 DEF IInv

(* Counts of cast votes only grow and a used id stays used, so what another *)
(* request relies on still holds after a step of h.                         *)
LEMMA OthersOK ==
  ASSUME TypeOK, RequestsOK, NEW h \in Handlers, NEW r,
         req' = [req EXCEPT ![h] = r],
         RequestOK(r)',
         \A t \in Targets : /\ cast[t] \in Nat /\ cast'[t] \in Nat
                            /\ cast[t] <= cast'[t]
                            /\ row[t].status # "absent" => row'[t].status # "absent"
  PROVE  RequestsOK'
<1> SUFFICES ASSUME NEW g \in Handlers PROVE RequestOK(req[g])'
  BY DEF RequestsOK
<1>1. CASE g = h
  BY <1>1 DEF TypeOK
<1>2. CASE g # h
  <2>1. req'[g] = req[g] /\ RequestOK(req[g]) /\ req[g] \in Requests
    BY <1>2 DEF TypeOK, RequestsOK
  <2> QED BY <2>1 DEF RequestOK, Requests, Steps, TargetSteps, VoteSteps
<1> QED BY <1>1, <1>2

LEMMA NextIInv == IInv /\ [Next]_vars => IInv'
<1> SUFFICES ASSUME IInv, [Next]_vars PROVE IInv'
  OBVIOUS
<1> USE DEF IInv
<1>1. CASE UNCHANGED vars
  BY <1>1 DEF vars, history, TypeOK, RequestsOK, RequestOK, OwnersOK, Exists,
              NoVoteInvented, ApprovalIsEarned
<1>2. ASSUME NEW h \in Handlers, Arrival(h) \/ Reading(h)
      PROVE  IInv'
  <2>1. PICK r \in Requests :
          /\ req' = [req EXCEPT ![h] = r]
          /\ RequestOK(r)
          /\ UNCHANGED <<row, ballots, live, history>>
    BY <1>2, ArrivalShape, ReadingShape
  <2>2. TypeOK'
    BY <2>1 DEF TypeOK, history
  <2>3. RequestsOK'
    <3>1. RequestOK(r)'
      BY <2>1 DEF RequestOK, history
    <3>2. \A t \in Targets : /\ cast[t] \in Nat /\ cast'[t] \in Nat
                             /\ cast[t] <= cast'[t]
                             /\ row[t].status # "absent" => row'[t].status # "absent"
      BY <2>1 DEF TypeOK, history
    <3> QED BY <2>1, <3>1, <3>2, OthersOK
  <2>4. OwnersOK' /\ NoVoteInvented' /\ ApprovalIsEarned'
    BY <2>1 DEF OwnersOK, Exists, NoVoteInvented, ApprovalIsEarned, history
  <2> QED BY <2>2, <2>3, <2>4
(* The remaining steps write a table. *)
<1>3. ASSUME NEW h \in Handlers, Answered(h),
             \A t \in Targets : /\ cast[t] \in Nat /\ cast'[t] = cast[t]
                                /\ row[t].status # "absent" => row'[t].status # "absent"
      PROVE  req' \in [Handlers -> Requests] /\ RequestsOK'
  <2>1. RequestOK(Idle)'
    BY DEF RequestOK, Idle, Request, TargetSteps, VoteSteps
  <2>2. \A t \in Targets : /\ cast[t] \in Nat /\ cast'[t] \in Nat
                           /\ cast[t] <= cast'[t]
                           /\ row[t].status # "absent" => row'[t].status # "absent"
    BY <1>3
  <2>3. RequestsOK'
    BY <1>3, <2>1, <2>2, OthersOK DEF Answered
  <2> QED BY <1>3, <2>3, IdleOK DEF Answered, TypeOK
<1> USE DEF Tables, Targets
<1>4. ASSUME NEW h \in Handlers, NEW T \in Tables, Create(h, T)
      PROVE  IInv'
  <2>1. CASE req[h].who \in live
    <3>1. PICK t \in T, x \in Texts :
            /\ row[t] = Absent
            /\ row' = [row EXCEPT ![t] = [status |-> "pending",
                         owner |-> req[h].who, votes |-> 0, text |-> x]]
      BY <1>4, <2>1 DEF Create
    <3>2. row' \in [Targets -> Rows]
      BY <2>1, <3>1, ModerationAssumption DEF TypeOK, Rows, Stored
    <3>3. req' \in [Handlers -> Requests] /\ RequestsOK'
      BY <1>3, <1>4, <3>1 DEF Create, history, TypeOK
    <3>4. OwnersOK'
      BY <3>1 DEF OwnersOK, Exists, Stored, TypeOK
    <3>5. NoVoteInvented' /\ ApprovalIsEarned'
      BY <1>4, <3>1 DEF NoVoteInvented, ApprovalIsEarned, Create, history, TypeOK
    <3> QED BY <1>4, <3>2, <3>3, <3>4, <3>5 DEF TypeOK, Create, history
  <2>2. CASE req[h].who \notin live
    <3>1. row' = row /\ Answered(h)
      BY <1>4, <2>2 DEF Create
    <3>2. req' \in [Handlers -> Requests] /\ RequestsOK'
      BY <1>3, <1>4, <3>1 DEF Create, history, TypeOK
    <3> QED BY <1>4, <3>1, <3>2 DEF TypeOK, OwnersOK, Exists, NoVoteInvented,
                ApprovalIsEarned, Create, history
  <2> QED BY <2>1, <2>2
<1>5. ASSUME NEW h \in Handlers, NEW T \in Tables, ReviewWrite(h, T)
      PROVE  IInv'
  <2> DEFINE t == req[h].target
             d == req[h].verdict
  <2>1. t \in Targets /\ d \in Decided /\ Answered(h)
    BY <1>5 DEF ReviewWrite, RequestsOK, RequestOK
  <2>2. \/ /\ Exists(t)
           /\ row' = [row EXCEPT ![t].status = d]
           /\ endorsed' = [endorsed EXCEPT ![t] = @ \/ d = "approved"]
        \/ UNCHANGED <<row, endorsed>>
    BY <1>5 DEF ReviewWrite
  <2>3. UNCHANGED <<ballots, live, cast>>
    BY <1>5 DEF ReviewWrite
  <2> HIDE DEF t, d
  <2>4. row' \in [Targets -> Rows]
    BY <2>1, <2>2 DEF TypeOK, Rows, Decided, Stored
  <2>5. endorsed' \in [Targets -> BOOLEAN]
    BY <2>1, <2>2, Zenon DEF TypeOK
  <2>6. \A s \in Targets : /\ row'[s].votes = row[s].votes
                           /\ row'[s].owner = row[s].owner
                           /\ row'[s].status = row[s].status \/ (s = t /\ row'[s].status = d /\ Exists(t))
    BY <2>1, <2>2 DEF TypeOK, Rows
  <2>7. req' \in [Handlers -> Requests] /\ RequestsOK'
    BY <1>3, <2>1, <2>3, <2>6 DEF TypeOK, Decided, Stored
  <2>8. OwnersOK' /\ NoVoteInvented'
    BY <2>1, <2>3, <2>6 DEF OwnersOK, Exists, Decided, Stored, NoVoteInvented
  <2>9. ApprovalIsEarned'
    <3> SUFFICES ASSUME NEW s \in Targets, row'[s].status = "approved",
                        ~(cast'[s] >= Threshold)
                 PROVE  endorsed'[s]
      BY DEF ApprovalIsEarned
    <3>1. CASE row[s].status = "approved"
      <4>1. endorsed[s]
        BY <2>3, <3>1 DEF ApprovalIsEarned
      <4> QED BY <2>1, <2>2, <4>1, Zenon DEF TypeOK
    <3>2. CASE row[s].status # "approved"
      <4>1. s = t /\ d = "approved"
        BY <2>6, <3>2
      <4>2. endorsed' = [endorsed EXCEPT ![t] = @ \/ d = "approved"]
        BY <2>2, <3>2
      <4> QED BY <2>1, <4>1, <4>2, Zenon DEF TypeOK
    <3> QED BY <3>1, <3>2
  <2> QED BY <2>3, <2>4, <2>5, <2>7, <2>8, <2>9 DEF TypeOK
<1>6. ASSUME NEW h \in Handlers, NEW T \in Tables, UpdateWrite(h, T)
      PROVE  IInv'
  <2> DEFINE t == req[h].target
  <2>1. t \in Targets /\ Answered(h) /\ UNCHANGED <<ballots, live, cast, endorsed>>
    BY <1>6 DEF UpdateWrite, history
  <2>2. row' = row \/ \E x \in Texts : row' = [row EXCEPT ![t].text = x]
    BY <1>6 DEF UpdateWrite
  <2> HIDE DEF t
  <2>3. row' \in [Targets -> Rows]
    BY <2>1, <2>2 DEF TypeOK, Rows
  <2>4. \A s \in Targets : /\ row'[s].votes = row[s].votes
                           /\ row'[s].owner = row[s].owner
                           /\ row'[s].status = row[s].status
    BY <2>1, <2>2 DEF TypeOK, Rows
  <2>5. req' \in [Handlers -> Requests] /\ RequestsOK'
    BY <1>3, <2>1, <2>4 DEF TypeOK
  <2> QED BY <2>1, <2>3, <2>4, <2>5 DEF TypeOK, OwnersOK, Exists,
              NoVoteInvented, ApprovalIsEarned
<1>7. ASSUME NEW h \in Handlers, NEW T \in Tables,
             DeleteRow(h, T) \/ DeleteReject(h, T)
      PROVE  IInv'
  <2> DEFINE t == req[h].target
  <2>1. t \in Targets /\ Answered(h) /\ UNCHANGED <<ballots, live, cast, endorsed>>
    BY <1>7 DEF DeleteRow, DeleteReject, history
  <2>2. \/ row' = row
        \/ Exists(t) /\ row' = [row EXCEPT ![t] = Gone]
        \/ Exists(t) /\ row' = [row EXCEPT ![t].status = "rejected"]
    BY <1>7 DEF DeleteRow, DeleteReject
  <2> HIDE DEF t
  <2>3. row' \in [Targets -> Rows]
    BY <2>1, <2>2 DEF TypeOK, Rows, Gone, Stored
  <2>4. \A s \in Targets :
          \/ row'[s] = row[s]
          \/ row'[s] = Gone
          \/ /\ row'[s].votes = row[s].votes
             /\ row'[s].status = "rejected"
    BY <2>1, <2>2 DEF TypeOK, Rows
  <2>5. req' \in [Handlers -> Requests] /\ RequestsOK'
    BY <1>3, <2>1, <2>4 DEF TypeOK, Gone
  <2>6. OwnersOK' /\ NoVoteInvented' /\ ApprovalIsEarned'
    BY <2>1, <2>4 DEF OwnersOK, Exists, Stored, NoVoteInvented, ApprovalIsEarned,
                      Gone, TypeOK
  <2> QED BY <2>1, <2>3, <2>5, <2>6 DEF TypeOK
<1>8. ASSUME NEW h \in Handlers, VoteInsert(h)
      PROVE  IInv'
  <2> DEFINE q == req[h]
  <2>1. q \in Requests /\ RequestOK(q) /\ q.step = "vote.insert"
    BY <1>8 DEF VoteInsert, RequestsOK, TypeOK
  <2>2. q.target \in Targets /\ q.who \in Accounts /\ q.ip \in Ips
        /\ q.seen \in Nat /\ q.seen <= cast[q.target]
        /\ row[q.target].status # "absent"
    BY <2>1 DEF RequestOK, TargetSteps, VoteSteps, Steps, Requests
  <2>3. CASE HasVoted(q.who, q.ip, q.target)
    <3>1. Answered(h) /\ UNCHANGED <<row, ballots, live, cast, endorsed>>
      BY <1>8, <2>3 DEF VoteInsert
    <3>2. req' \in [Handlers -> Requests] /\ RequestsOK'
      BY <1>3, <3>1 DEF TypeOK
    <3> QED BY <3>1, <3>2 DEF TypeOK, OwnersOK, Exists, NoVoteInvented,
                ApprovalIsEarned
  <2>4. CASE ~HasVoted(q.who, q.ip, q.target)
    <3>1. /\ ballots' = ballots \cup {<<q.target, q.who, q.ip>>}
          /\ cast' = [cast EXCEPT ![q.target] = @ + 1]
          /\ GoTo(h, "vote.count")
          /\ UNCHANGED <<row, live, endorsed>>
      BY <1>8, <2>4 DEF VoteInsert
    <3>2. PICK r \in Requests :
            /\ req' = [req EXCEPT ![h] = r]
            /\ r.step = "vote.count" /\ r.who = q.who /\ r.ip = q.ip
            /\ r.target = q.target /\ r.seen = q.seen /\ r.verdict = q.verdict
      BY <3>1, GoToShape DEF Steps
    <3>3. \A t \in Targets : cast[t] \in Nat /\ cast'[t] \in Nat /\ cast[t] <= cast'[t]
      BY <2>2, <3>1 DEF TypeOK
    <3>4. RequestOK(r)'
      BY <2>2, <3>1, <3>2 DEF RequestOK, TypeOK, TargetSteps, VoteSteps, Steps
    <3>5. RequestsOK'
      BY <3>1, <3>2, <3>3, <3>4, OthersOK
    <3>6. TypeOK'
      BY <2>2, <3>1, <3>2, <3>3 DEF TypeOK
    <3>7. OwnersOK' /\ NoVoteInvented'
      BY <3>1, <3>3 DEF OwnersOK, Exists, NoVoteInvented, TypeOK, Rows
    <3>8. ApprovalIsEarned'
      BY <3>1, <3>3, ModerationAssumption DEF ApprovalIsEarned
    <3> QED BY <3>5, <3>6, <3>7, <3>8
  <2> QED BY <2>3, <2>4
<1>9. ASSUME NEW h \in Handlers, VoteCount(h)
      PROVE  IInv'
  <2> DEFINE t == req[h].target
             n == req[h].seen + 1
  <2>1. t \in Targets /\ n \in Nat /\ n <= cast[t] /\ cast[t] \in Nat
    BY <1>9 DEF VoteCount, RequestsOK, RequestOK, TypeOK, Requests, TargetSteps, Steps
  <2>2. Answered(h) /\ UNCHANGED <<ballots, live, cast, endorsed>>
    BY <1>9 DEF VoteCount, history
  <2>3. \/ row' = row
        \/ /\ Exists(t) /\ n >= Threshold
           /\ row' = [row EXCEPT ![t].votes = n, ![t].status = "approved"]
        \/ Exists(t) /\ row' = [row EXCEPT ![t].votes = n]
    BY <1>9 DEF VoteCount
  <2> HIDE DEF t, n
  <2>4. row' \in [Targets -> Rows]
    BY <2>1, <2>3 DEF TypeOK, Rows, Stored
  <2>5. \A s \in Targets :
          \/ row'[s] = row[s]
          \/ /\ s = t /\ Exists(t)
             /\ row'[s].votes = n
             /\ \/ row'[s].status = "approved" /\ n >= Threshold
                \/ row'[s].status = row[s].status
    BY <2>1, <2>3 DEF TypeOK, Rows
  <2>6. req' \in [Handlers -> Requests] /\ RequestsOK'
    BY <1>3, <2>2, <2>5 DEF TypeOK
  <2>7. OwnersOK'
    BY <2>5 DEF OwnersOK, Exists, Stored
  <2>8. NoVoteInvented'
    BY <2>1, <2>2, <2>5 DEF NoVoteInvented
  <2>9. ApprovalIsEarned'
    BY <2>1, <2>2, <2>5, ModerationAssumption DEF ApprovalIsEarned
  <2> QED BY <2>2, <2>4, <2>6, <2>7, <2>8, <2>9 DEF TypeOK
<1>10. ASSUME NEW h \in Handlers, DeleteVotes(h)
       PROVE  IInv'
  <2>1. GoTo(h, "account.user") /\ UNCHANGED <<row, live, cast, endorsed>>
    BY <1>10 DEF DeleteVotes, history
  <2>2. PICK r \in Requests :
          req' = [req EXCEPT ![h] = r] /\ r.step = "account.user" /\ r.who = req[h].who
    BY <2>1, GoToShape DEF Steps
  <2>3. RequestOK(r)'
    BY <1>10, <2>2 DEF DeleteVotes, RequestsOK, RequestOK, TargetSteps, VoteSteps
  <2>4. RequestsOK'
    <3>1. \A t \in Targets : /\ cast[t] \in Nat /\ cast'[t] \in Nat
                             /\ cast[t] <= cast'[t]
                             /\ row[t].status # "absent" => row'[t].status # "absent"
      BY <2>1 DEF TypeOK
    <3> QED BY <2>2, <2>3, <3>1, OthersOK
  <2>5. ballots' \subseteq ballots
    BY <1>10 DEF DeleteVotes
  <2> QED BY <2>1, <2>2, <2>4, <2>5 DEF TypeOK, OwnersOK, Exists, NoVoteInvented,
              ApprovalIsEarned
<1>11. ASSUME NEW h \in Handlers, DeleteUser(h)
       PROVE  IInv'
  <2>1. /\ live' = live \ {req[h].who}
        /\ row' = [t \in Targets |->
                     IF row[t].owner = req[h].who THEN Gone ELSE row[t]]
        /\ Answered(h) /\ UNCHANGED <<ballots, cast, endorsed>>
    BY <1>11 DEF DeleteUser, history
  <2>2. \A t \in Targets : row'[t] = Gone \/ row'[t] = row[t]
    BY <2>1
  <2>3. row' \in [Targets -> Rows]
    BY <2>1 DEF TypeOK, Rows, Gone, Stored
  <2>4. req' \in [Handlers -> Requests] /\ RequestsOK'
    BY <1>3, <2>1, <2>2 DEF TypeOK, Gone
  <2>5. OwnersOK' /\ NoVoteInvented' /\ ApprovalIsEarned'
    BY <2>1, <2>2 DEF OwnersOK, Exists, NoVoteInvented, ApprovalIsEarned, Gone, TypeOK
  <2> QED BY <2>1, <2>3, <2>4, <2>5 DEF TypeOK
<1> QED
  BY <1>1, <1>2, <1>4, <1>5, <1>6, <1>7, <1>8, <1>9, <1>10, <1>11, StepCases

LEMMA Invariance == Spec => []IInv
BY InitIInv, NextIInv, PTL DEF Spec

(* Every table and every request keeps its shape. *)
THEOREM TypeCorrect == Spec => []TypeOK
BY Invariance, PTL DEF IInv

(* VotesService.voteOnTarget may lose votes; it never invents one. *)
THEOREM CountsAreBacked == Spec => []NoVoteInvented
BY Invariance, PTL DEF IInv

(* Whatever the interleaving of votes, reviews, updates and deletions, an   *)
(* approval has a reviewer or Threshold cast votes behind it.               *)
THEOREM ApprovalsAreEarned == Spec => []ApprovalIsEarned
BY Invariance, PTL DEF IInv

(* The unique indexes on votes hold up the check that runs before them. *)
THEOREM VotersVoteOnce == Spec => []OneVotePerVoter
<1>1. Init => OneVotePerVoter
  BY DEF Init, OneVotePerVoter
<1>2. TypeOK /\ OneVotePerVoter /\ [Next]_vars => OneVotePerVoter'
  <2> SUFFICES ASSUME TypeOK, OneVotePerVoter, [Next]_vars PROVE OneVotePerVoter'
    OBVIOUS
  <2>1. CASE ballots' \subseteq ballots
    BY <2>1 DEF OneVotePerVoter
  <2>2. ASSUME NEW h \in Handlers, VoteInsert(h) PROVE OneVotePerVoter'
    <3> DEFINE b == <<req[h].target, req[h].who, req[h].ip>>
    <3>1. CASE ~HasVoted(req[h].who, req[h].ip, req[h].target)
      <4>1. ballots' = ballots \cup {b}
        BY <2>2, <3>1 DEF VoteInsert
      <4>2. \A a \in ballots : ~(a[1] = b[1] /\ (a[2] = b[2] \/ a[3] = b[3]))
        BY <3>1 DEF HasVoted
      <4> QED BY <4>1, <4>2 DEF OneVotePerVoter
    <3> QED BY <2>1, <2>2, <3>1 DEF VoteInsert
  <2>3. \/ ballots' \subseteq ballots
        \/ \E h \in Handlers : VoteInsert(h)
    <3>1. CASE UNCHANGED vars
      BY <3>1 DEF vars
    <3>2. CASE Next
      <4>1. ASSUME NEW h \in Handlers, Arrival(h) PROVE ballots' = ballots
        BY <4>1, ArrivalShape
      <4>2. ASSUME NEW h \in Handlers, Reading(h) PROVE ballots' = ballots
        BY <4>2 DEF Reading, ReviewRead, UpdateRead, DeleteRead, VoteRead,
                    VoteCheck, Fail
      <4>3. ASSUME NEW h \in Handlers, NEW T \in Tables,
                   \/ Create(h, T) \/ ReviewWrite(h, T) \/ UpdateWrite(h, T)
                   \/ DeleteRow(h, T) \/ DeleteReject(h, T)
            PROVE  ballots' = ballots
        BY <4>3 DEF Create, ReviewWrite, UpdateWrite, DeleteRow, DeleteReject
      <4>4. ASSUME NEW h \in Handlers,
                   VoteCount(h) \/ DeleteVotes(h) \/ DeleteUser(h)
            PROVE  ballots' \subseteq ballots
        BY <4>4 DEF VoteCount, DeleteVotes, DeleteUser
      <4> QED BY <3>2, <4>1, <4>2, <4>3, <4>4, StepCases
    <3> QED BY <3>1, <3>2
  <2> QED BY <2>1, <2>2, <2>3
<1> QED BY <1>1, <1>2, TypeCorrect, PTL DEF Spec

-----------------------------------------------------------------------------
(* SettledStays for one submission and one step. *)
StaysSettled(t) ==
  \/ row'[t] = Gone /\ row[t].owner \notin live'
  \/ /\ row'[t].status \in Decided
     /\ Racing(t)' = {}
     /\ row'[t].text = row[t].text
     /\ row'[t].votes = row[t].votes

LEMMA RacingStaysEmpty ==
  ASSUME TypeOK, NEW h \in Handlers, NEW t \in Targets, NEW r,
         req' = [req EXCEPT ![h] = r],
         Racing(t) = {},
         ~(r.target = t /\ r.step \in PendingOnly)
  PROVE  Racing(t)' = {}
<1> SUFFICES ASSUME NEW g \in Handlers, req'[g].target = t,
                    req'[g].step \in PendingOnly
             PROVE  FALSE
  BY DEF Racing
<1>1. g # h
  BY DEF TypeOK
<1>2. req'[g] = req[g]
  BY <1>1 DEF TypeOK
<1> QED BY <1>2 DEF Racing

LEMMA SettledStep ==
  ASSUME IInv, NEW t \in Targets, Settled(t), Next
  PROVE  StaysSettled(t)
<1> USE DEF IInv, Tables, Targets
<1>1. row[t].status \in Decided /\ row[t].status # "pending" /\ Racing(t) = {}
  BY DEF Settled, Decided
<1>2. ASSUME NEW h \in Handlers, Answered(h) PROVE Racing(t)' = {}
  BY <1>1, <1>2, IdleOK, RacingStaysEmpty, ModerationAssumption
     DEF Answered, PendingOnly
<1>3. ASSUME NEW h \in Handlers, req[h].step \in PendingOnly
      PROVE  req[h].target # t
  BY <1>1, <1>3 DEF Racing
<1>4. ASSUME NEW h \in Handlers, Arrival(h) PROVE StaysSettled(t)
  <2>1. PICK r \in Requests : /\ req' = [req EXCEPT ![h] = r]
                              /\ r.step \notin PendingOnly
                              /\ row' = row
    BY <1>4, ArrivalShape
  <2> QED BY <1>1, <2>1, RacingStaysEmpty DEF StaysSettled
<1>5. ASSUME NEW h \in Handlers, Reading(h) PROVE StaysSettled(t)
  <2>1. PICK r \in Requests :
          /\ req' = [req EXCEPT ![h] = r]
          /\ r.step \in PendingOnly =>
               /\ r.target = req[h].target
               /\ row[r.target].status = "pending" \/ req[h].step \in PendingOnly
          /\ row' = row
    BY <1>5, ReadingShape
  <2>2. ~(r.target = t /\ r.step \in PendingOnly)
    BY <1>1, <1>3, <2>1
  <2> QED BY <1>1, <2>1, <2>2, RacingStaysEmpty DEF StaysSettled
<1>6. ASSUME NEW h \in Handlers, NEW T \in Tables, Create(h, T)
      PROVE  StaysSettled(t)
  <2>1. row'[t] = row[t]
    BY <1>1, <1>6 DEF Create, Absent, Decided, Stored, TypeOK
  <2> QED BY <1>1, <1>2, <1>6, <2>1 DEF StaysSettled, Create
<1>7. ASSUME NEW h \in Handlers, NEW T \in Tables,
             ReviewWrite(h, T) \/ DeleteReject(h, T)
      PROVE  StaysSettled(t)
  <2>1. /\ row'[t].status \in Decided
        /\ row'[t].text = row[t].text /\ row'[t].votes = row[t].votes
    <3>1. CASE req[h].target = t
      <4>1. req[h].verdict \in Decided \/ DeleteReject(h, T)
        BY <1>7 DEF ReviewWrite, RequestsOK, RequestOK
      <4> QED BY <1>1, <1>7, <3>1, <4>1
              DEF ReviewWrite, DeleteReject, TypeOK, Rows, Decided, Stored
    <3>2. CASE req[h].target # t
      <4>1. row'[t] = row[t]
        BY <1>7, <3>2 DEF ReviewWrite, DeleteReject, TypeOK
      <4> QED BY <1>1, <4>1
    <3> QED BY <3>1, <3>2
  <2> QED BY <1>2, <1>7, <2>1 DEF StaysSettled, ReviewWrite, DeleteReject
<1>8. ASSUME NEW h \in Handlers, NEW T \in Tables,
             UpdateWrite(h, T) \/ DeleteRow(h, T) \/ VoteCount(h)
      PROVE  StaysSettled(t)
  <2>1. req[h].target # t /\ Answered(h)
    BY <1>3, <1>8 DEF UpdateWrite, DeleteRow, VoteCount, PendingOnly
  <2>2. row'[t] = row[t]
    BY <1>8, <2>1 DEF UpdateWrite, DeleteRow, VoteCount, TypeOK
  <2> QED BY <1>1, <1>2, <2>1, <2>2 DEF StaysSettled
<1>9. ASSUME NEW h \in Handlers, VoteInsert(h) PROVE StaysSettled(t)
  <2>1. req[h].target # t /\ row' = row
    BY <1>3, <1>9 DEF VoteInsert, PendingOnly
  <2>2. Racing(t)' = {}
    <3>1. CASE Answered(h)
      BY <1>2, <3>1
    <3>2. CASE GoTo(h, "vote.count")
      <4>1. PICK r \in Requests :
              req' = [req EXCEPT ![h] = r] /\ r.target = req[h].target
        BY <3>2, GoToShape DEF Steps
      <4> QED BY <1>1, <2>1, <4>1, RacingStaysEmpty
    <3> QED BY <1>9, <3>1, <3>2 DEF VoteInsert
  <2> QED BY <1>1, <2>1, <2>2 DEF StaysSettled
<1>10. ASSUME NEW h \in Handlers, DeleteVotes(h) PROVE StaysSettled(t)
  <2>1. PICK r \in Requests :
          req' = [req EXCEPT ![h] = r] /\ r.step = "account.user"
    BY <1>10, GoToShape DEF Steps, DeleteVotes
  <2>2. Racing(t)' = {}
    BY <1>1, <2>1, RacingStaysEmpty DEF PendingOnly
  <2> QED BY <1>1, <1>10, <2>2 DEF StaysSettled, DeleteVotes
<1>11. ASSUME NEW h \in Handlers, DeleteUser(h) PROVE StaysSettled(t)
  <2>1. CASE row[t].owner = req[h].who
    BY <1>11, <2>1 DEF StaysSettled, DeleteUser
  <2>2. CASE row[t].owner # req[h].who
    BY <1>1, <1>2, <1>11, <2>2 DEF StaysSettled, DeleteUser
  <2> QED BY <2>1, <2>2
<1> QED
  BY <1>4, <1>5, <1>6, <1>7, <1>8, <1>9, <1>10, <1>11, StepCases

(* Votes, owner updates and owner deletions cannot reach a submission once  *)
(* it is decided and the requests that raced the decision have ended.       *)
THEOREM SettledIsFinal == Spec => SettledStays
<1>1. IInv /\ [Next]_vars =>
        [\A t \in Targets :
           Settled(t) => \/ row'[t] = Gone /\ row[t].owner \notin live'
                         \/ /\ row'[t].status \in Decided
                            /\ Racing(t)' = {}
                            /\ row'[t].text = row[t].text
                            /\ row'[t].votes = row[t].votes]_vars
  BY SettledStep DEF StaysSettled
<1> QED BY <1>1, Invariance, PTL DEF Spec, SettledStays

-----------------------------------------------------------------------------
LEMMA LifecycleInit == Init => Lifecycle!Init
BY DEF Init, Lifecycle!Init, Absent

LEMMA LifecycleStep == IInv /\ [Next]_vars => [Lifecycle!Next]_Lifecycle!vars
<1> DEFINE phase == [t \in Targets |-> row[t].status]
<1> SUFFICES ASSUME IInv, [Next]_vars
             PROVE  [Lifecycle!Next]_Lifecycle!vars
  OBVIOUS
<1> USE DEF IInv, Tables, Targets
<1>1. ASSUME row' = row, cast' = cast, endorsed' = endorsed
      PROVE  UNCHANGED Lifecycle!vars
  BY <1>1 DEF Lifecycle!vars
<1>2. CASE UNCHANGED vars
  BY <1>1, <1>2 DEF vars
<1>3. ASSUME NEW h \in Handlers, Arrival(h) \/ Reading(h)
      PROVE  UNCHANGED Lifecycle!vars
  BY <1>1, <1>3, ArrivalShape, ReadingShape DEF history
<1>4. ASSUME NEW h \in Handlers, NEW T \in Tables, Create(h, T)
      PROVE  [Lifecycle!Next]_Lifecycle!vars
  <2>1. CASE row' = row
    BY <1>1, <1>4, <2>1 DEF Create, history
  <2>2. CASE row' # row
    <3>1. PICK t \in T, x \in Texts :
            /\ row[t] = Absent
            /\ row' = [row EXCEPT ![t] = [status |-> "pending",
                         owner |-> req[h].who, votes |-> 0, text |-> x]]
      BY <1>4, <2>2 DEF Create
    <3>2. phase' = [phase EXCEPT ![t] = "pending"]
      BY <3>1 DEF TypeOK
    <3>3. Lifecycle!Submit(t)
      BY <1>4, <3>1, <3>2 DEF Lifecycle!Submit, Create, history, Absent
    <3> QED BY <3>3 DEF Lifecycle!Next
  <2> QED BY <2>1, <2>2
<1>5. ASSUME NEW h \in Handlers, NEW T \in Tables, ReviewWrite(h, T)
      PROVE  [Lifecycle!Next]_Lifecycle!vars
  <2> DEFINE d == req[h].verdict
  <2>1. PICK t \in Targets : t = req[h].target /\ d \in Decided /\ cast' = cast
    BY <1>5 DEF ReviewWrite, RequestsOK, RequestOK
  <2>2. \/ /\ Exists(t)
           /\ row' = [row EXCEPT ![t].status = d]
           /\ endorsed' = [endorsed EXCEPT ![t] = @ \/ d = "approved"]
        \/ UNCHANGED <<row, endorsed>>
    BY <1>5, <2>1 DEF ReviewWrite
  <2> HIDE DEF d
  <2>3. CASE UNCHANGED <<row, endorsed>>
    BY <1>1, <2>1, <2>3
  <2>4. CASE /\ Exists(t)
             /\ row' = [row EXCEPT ![t].status = d]
             /\ endorsed' = [endorsed EXCEPT ![t] = @ \/ d = "approved"]
    <3>1. phase' = [phase EXCEPT ![t] = d]
      BY <2>1, <2>4 DEF TypeOK, Rows
    <3>2. phase[t] \in {"pending"} \cup Lifecycle!Decided
      BY <2>1, <2>4 DEF Exists, Stored, Lifecycle!Decided
    <3>3. CASE d = "approved"
      <4>1. endorsed' = [endorsed EXCEPT ![t] = TRUE]
        BY <2>1, <2>4, <3>3, Zenon DEF TypeOK
      <4>2. Lifecycle!Endorse(t)
        BY <2>1, <3>1, <3>2, <3>3, <4>1 DEF Lifecycle!Endorse
      <4> QED BY <2>1, <4>2 DEF Lifecycle!Next
    <3>4. CASE d # "approved"
      <4>1. d = "rejected"
        BY <2>1, <3>4 DEF Decided, Stored
      <4>2. endorsed' = endorsed
        BY <2>1, <2>4, <3>4, Zenon DEF TypeOK
      <4>3. Lifecycle!Refuse(t)
        BY <2>1, <3>1, <3>2, <4>1, <4>2 DEF Lifecycle!Refuse
      <4> QED BY <2>1, <4>3 DEF Lifecycle!Next
    <3> QED BY <3>3, <3>4
  <2> QED BY <2>2, <2>3, <2>4
<1>6. ASSUME NEW h \in Handlers, NEW T \in Tables, UpdateWrite(h, T)
      PROVE  [Lifecycle!Next]_Lifecycle!vars
  <2>1. \A t \in Targets : row'[t].status = row[t].status
    <3>1. PICK t \in Targets : t = req[h].target
      BY <1>6 DEF UpdateWrite
    <3>2. row' = row \/ \E x \in Texts : row' = [row EXCEPT ![t].text = x]
      BY <1>6, <3>1 DEF UpdateWrite
    <3> QED BY <3>2 DEF TypeOK, Rows
  <2> QED BY <1>6, <2>1 DEF UpdateWrite, history, Lifecycle!vars
<1>7. ASSUME NEW h \in Handlers, NEW T \in Tables,
             DeleteRow(h, T) \/ DeleteReject(h, T)
      PROVE  [Lifecycle!Next]_Lifecycle!vars
  <2>1. PICK t \in Targets : t = req[h].target /\ UNCHANGED <<cast, endorsed>>
    BY <1>7 DEF DeleteRow, DeleteReject, history
  <2>2. \/ row' = row
        \/ Exists(t) /\ row' = [row EXCEPT ![t] = Gone]
        \/ Exists(t) /\ row' = [row EXCEPT ![t].status = "rejected"]
    BY <1>7, <2>1 DEF DeleteRow, DeleteReject
  <2>3. Exists(t) => phase[t] \in {"pending"} \cup Lifecycle!Decided
    BY <2>1 DEF Exists, Stored, Lifecycle!Decided
  <2>4. CASE row' = row
    BY <1>1, <2>1, <2>4
  <2>5. CASE Exists(t) /\ row' = [row EXCEPT ![t] = Gone]
    <3>1. phase' = [s \in Targets |-> IF s \in {t} THEN "gone" ELSE phase[s]]
      BY <2>1, <2>5 DEF TypeOK, Rows, Gone
    <3>2. Lifecycle!Withdraw({t})
      BY <2>1, <2>3, <2>5, <3>1 DEF Lifecycle!Withdraw
    <3>3. {t} \in SUBSET Targets
      BY <2>1
    <3> QED BY <3>2, <3>3 DEF Lifecycle!Next
  <2>6. CASE Exists(t) /\ row' = [row EXCEPT ![t].status = "rejected"]
    <3>1. phase' = [phase EXCEPT ![t] = "rejected"]
      BY <2>1, <2>6 DEF TypeOK, Rows
    <3>2. Lifecycle!Refuse(t)
      BY <2>1, <2>3, <2>6, <3>1 DEF Lifecycle!Refuse
    <3> QED BY <2>1, <3>2 DEF Lifecycle!Next
  <2> QED BY <2>2, <2>4, <2>5, <2>6
<1>8. ASSUME NEW h \in Handlers, VoteInsert(h)
      PROVE  [Lifecycle!Next]_Lifecycle!vars
  <2>1. PICK t \in Targets :
          t = req[h].target /\ row[t].status # "absent" /\ UNCHANGED <<row, endorsed>>
    BY <1>8 DEF VoteInsert, RequestsOK, RequestOK, TargetSteps, Steps
  <2>2. cast' = cast \/ cast' = [cast EXCEPT ![t] = @ + 1]
    BY <1>8, <2>1 DEF VoteInsert
  <2>3. CASE cast' = cast
    BY <1>1, <2>1, <2>3
  <2>4. CASE cast' = [cast EXCEPT ![t] = @ + 1]
    <3>1. Lifecycle!Back(t)
      BY <2>1, <2>4 DEF Lifecycle!Back
    <3> QED BY <2>1, <3>1 DEF Lifecycle!Next
  <2> QED BY <2>2, <2>3, <2>4
<1>9. ASSUME NEW h \in Handlers, VoteCount(h)
      PROVE  [Lifecycle!Next]_Lifecycle!vars
  <2> DEFINE n == req[h].seen + 1
  <2>1. PICK t \in Targets :
        /\ t = req[h].target /\ n \in Nat /\ n <= cast[t] /\ cast[t] \in Nat
        /\ UNCHANGED <<cast, endorsed>>
    BY <1>9 DEF VoteCount, RequestsOK, RequestOK, TypeOK, Requests, TargetSteps,
                Steps, history
  <2>2. \/ row' = row
        \/ /\ Exists(t) /\ n >= Threshold
           /\ row' = [row EXCEPT ![t].votes = n, ![t].status = "approved"]
        \/ row' = [row EXCEPT ![t].votes = n]
    BY <1>9, <2>1 DEF VoteCount
  <2> HIDE DEF n
  <2>3. CASE row' = row
    BY <1>1, <2>1, <2>3
  <2>4. CASE /\ Exists(t) /\ n >= Threshold
             /\ row' = [row EXCEPT ![t].votes = n, ![t].status = "approved"]
    <3>1. phase' = [phase EXCEPT ![t] = "approved"]
      BY <2>1, <2>4 DEF TypeOK, Rows
    <3>2. cast[t] >= Threshold
      BY <2>1, <2>4, ModerationAssumption
    <3>3. Lifecycle!Promote(t)
      BY <2>1, <2>4, <3>1, <3>2
         DEF Lifecycle!Promote, Exists, Stored, Lifecycle!Decided
    <3> QED BY <2>1, <3>3 DEF Lifecycle!Next
  <2>5. CASE row' = [row EXCEPT ![t].votes = n]
    <3>1. phase' = phase
      BY <2>1, <2>5 DEF TypeOK, Rows
    <3> QED BY <2>1, <3>1 DEF Lifecycle!vars
  <2> QED BY <2>2, <2>3, <2>4, <2>5
<1>10. ASSUME NEW h \in Handlers, DeleteVotes(h)
       PROVE  [Lifecycle!Next]_Lifecycle!vars
  BY <1>1, <1>10 DEF DeleteVotes, history
<1>11. ASSUME NEW h \in Handlers, DeleteUser(h)
       PROVE  [Lifecycle!Next]_Lifecycle!vars
  <2> PICK lost \in SUBSET Targets : lost = {t \in Targets : row[t].owner = req[h].who}
    OBVIOUS
  <2>1. req[h].who \in Accounts
    BY <1>11 DEF DeleteUser, RequestsOK, RequestOK
  <2>2. phase' = [t \in Targets |-> IF t \in lost THEN "gone" ELSE phase[t]]
    BY <1>11 DEF DeleteUser, Gone
  <2>3. \A t \in lost : phase[t] \in {"pending"} \cup Lifecycle!Decided
    BY <2>1, ModerationAssumption DEF OwnersOK, Exists, Stored, Lifecycle!Decided
  <2>4. Lifecycle!Withdraw(lost)
    BY <1>11, <2>2, <2>3 DEF Lifecycle!Withdraw, DeleteUser, history
  <2> QED BY <2>4 DEF Lifecycle!Next
<1> QED
  BY <1>2, <1>3, <1>4, <1>5, <1>6, <1>7, <1>8, <1>9, <1>10, <1>11, StepCases

(* The handlers, interleaved statement by statement, implement the atomic   *)
(* life cycle: in particular nothing returns to "pending" or from deletion, *)
(* and an approval without a reviewer has Threshold votes behind it.        *)
THEOREM Refinement == Spec => LifecycleSpec
BY LifecycleInit, LifecycleStep, Invariance, PTL
   DEF Spec, LifecycleSpec, Lifecycle!Spec
=============================================================================

--------------------------- MODULE BanSweepProofs ---------------------------
(***************************************************************************)
(* The ban sweep, proved for every number of accounts, rows and concurrent *)
(* requests.                                                               *)
(***************************************************************************)
EXTENDS BanSweep, TLAPS

SweepSteps == {"ban.pois", "ban.districts"}

Arrival(h) == PostSubmission(h) \/ PatchBan(h) \/ PatchUnban(h) \/ DeleteMe(h)

RequestOK(r) ==
  /\ r.step # "idle" => r.who \in Accounts
  /\ r.step \in {"ban.find", "ban.user", "ban.pois", "ban.districts"} =>
       r.subject \in Accounts

LEMMA StepCases ==
  ASSUME Next
  PROVE  \E h \in Handlers :
           \/ Arrival(h) \/ FindSubject(h) \/ Fail(h)
           \/ \E T \in {Pois, Districts} : Create(h, T)
           \/ FlagUser(h) \/ FlagPois(h) \/ FlagDistricts(h) \/ DeleteUser(h)
BY DEF Next, Arrival, PoiCreate, DistrictCreate

(* A request enters with what its route supplies, past the guard. *)
LEMMA ArrivalShape ==
  ASSUME TypeOK, NEW h \in Handlers, Arrival(h)
  PROVE  \E r \in Requests :
           /\ req' = [req EXCEPT ![h] = r]
           /\ RequestOK(r)
           /\ r.step \notin SweepSteps
           /\ r.who \notin banned
           /\ req[h].step = "idle"
           /\ UNCHANGED <<tables, history>>
<1> USE DEF Arrive, Request, Requests, Steps, RequestOK, SweepSteps
<1>1. CASE PostSubmission(h)
  <2>1. PICK u \in Accounts :
          Arrive(h, "create", Request("create", u, None, FALSE))
    BY <1>1 DEF PostSubmission
  <2> QED BY <2>1
<1>2. CASE PatchBan(h)
  <2>1. PICK a \in Admins, u \in Accounts :
          Arrive(h, "ban", Request("ban.find", a, u, TRUE))
    BY <1>2 DEF PatchBan
  <2> QED BY <2>1, BanAssumption
<1>3. CASE PatchUnban(h)
  <2>1. PICK a \in Admins, u \in Accounts :
          Arrive(h, "unban", Request("ban.find", a, u, FALSE))
    BY <1>3 DEF PatchUnban
  <2> QED BY <2>1, BanAssumption
<1>4. CASE DeleteMe(h)
  <2>1. PICK u \in Accounts :
          Arrive(h, "account", Request("account", u, None, FALSE))
    BY <1>4 DEF DeleteMe
  <2> QED BY <2>1
<1> QED BY <1>1, <1>2, <1>3, <1>4 DEF Arrival

LEMMA IdleOK ==
  Idle \in Requests /\ RequestOK(Idle) /\ Idle.step = "idle"
BY DEF Idle, Request, Requests, Steps, RequestOK

LEMMA GoToShape ==
  ASSUME TypeOK, NEW h \in Handlers, NEW s \in Steps, GoTo(h, s)
  PROVE  \E r \in Requests :
           /\ req' = [req EXCEPT ![h] = r]
           /\ r.step = s /\ r.who = req[h].who /\ r.subject = req[h].subject
           /\ r.ban = req[h].ban /\ r.alone = req[h].alone
<1> DEFINE r == [req[h] EXCEPT !.step = s]
<1>1. req[h] \in Requests
  BY DEF TypeOK
<1>2. r \in Requests
  BY <1>1 DEF Requests
<1>3. /\ r.step = s /\ r.who = req[h].who /\ r.subject = req[h].subject
      /\ r.ban = req[h].ban /\ r.alone = req[h].alone
  BY <1>1 DEF Requests
<1>4. req' = [req EXCEPT ![h] = r]
  BY DEF GoTo
<1> QED BY <1>2, <1>3, <1>4

(* Steps that only move a request on or answer it, outside a sweep. *)
LEMMA QuietShape ==
  ASSUME IInv, NEW h \in Handlers, Arrival(h) \/ FindSubject(h) \/ Fail(h)
  PROVE  \E r \in Requests :
           /\ req' = [req EXCEPT ![h] = r]
           /\ RequestOK(r)
           /\ r.step \notin SweepSteps
           /\ UNCHANGED <<tables, history>>
<1> USE DEF IInv
<1>1. CASE Arrival(h)
  BY <1>1, ArrivalShape
<1>2. CASE Answered(h) /\ UNCHANGED <<tables, history>>
  BY <1>2, IdleOK DEF Answered, SweepSteps
<1>3. CASE FindSubject(h) /\ GoTo(h, "ban.user")
  <2>1. PICK r \in Requests :
          /\ req' = [req EXCEPT ![h] = r]
          /\ r.step = "ban.user" /\ r.who = req[h].who
          /\ r.subject = req[h].subject
    BY <1>3, GoToShape DEF Steps
  <2> QED BY <1>3, <2>1 DEF FindSubject, RequestOK, RequestsOK, SweepSteps
<1> QED BY <1>1, <1>2, <1>3 DEF FindSubject, Fail

(* A handler that leaves the sweeping steps, or stays out of them, leaves   *)
(* every sweep that goes on as it was.                                      *)
LEMMA OtherSweeps ==
  ASSUME TypeOK, NEW h \in Handlers, NEW r \in Requests,
         r.step \notin SweepSteps, req' = [req EXCEPT ![h] = r]
  PROVE  /\ \A u : Sweeping(u)' = Sweeping(u) \ {h}
         /\ \A g \in Handlers : g # h => req'[g] = req[g]
         /\ req'[h] = r
         /\ req' \in [Handlers -> Requests]
BY DEF TypeOK, Sweeping, SweepSteps

LEMMA InitIInv == ASSUME Init PROVE IInv
<1> USE DEF Init
<1>1. TypeOK
  BY IdleOK DEF TypeOK
<1>2. \A u : Sweeping(u) = {}
  BY IdleOK DEF Sweeping
<1>3. RequestsOK /\ SweepsOK /\ CleanOK
  BY <1>2, IdleOK DEF RequestsOK, RequestOK, SweepsOK, AloneOK, CleanOK
<1>4. OwnersOK /\ SweepSettles
  BY BanAssumption DEF OwnersOK, SweepSettles
<1> QED BY <1>1, <1>3, <1>4 DEF IInv

LEMMA QuietIInv ==
  ASSUME IInv, NEW h \in Handlers, Arrival(h) \/ FindSubject(h) \/ Fail(h)
  PROVE  IInv'
<1>1. PICK r \in Requests :
        /\ req' = [req EXCEPT ![h] = r]
        /\ RequestOK(r)
        /\ r.step \notin SweepSteps
        /\ UNCHANGED <<tables, history>>
  BY QuietShape
<1>2. UNCHANGED <<owner, hidden, used, live, banned, clean, late>>
  BY <1>1 DEF tables, history
<1>3. TypeOK
  BY DEF IInv
<1>4. /\ \A u : Sweeping(u)' = Sweeping(u) \ {h}
      /\ \A g \in Handlers : g # h => req'[g] = req[g]
      /\ req'[h] = r
      /\ req' \in [Handlers -> Requests]
  BY <1>1, <1>3, OtherSweeps
<1>5. TypeOK'
  BY <1>2, <1>3, <1>4 DEF TypeOK
<1>6. RequestsOK'
  BY <1>1, <1>4 DEF IInv, RequestsOK, RequestOK
<1>7. SweepsOK'
  <2> SUFFICES ASSUME NEW g \in Handlers PROVE AloneOK(g)'
    BY DEF SweepsOK
  <2>1. CASE g = h
    BY <1>1, <1>4, <2>1 DEF AloneOK, SweepSteps
  <2>2. CASE g # h
    <3>1. AloneOK(g)
      BY DEF IInv, SweepsOK
    <3> QED BY <1>2, <1>4, <2>2, <3>1 DEF AloneOK
  <2> QED BY <2>1, <2>2
<1>8. CleanOK'
  BY <1>2, <1>4 DEF IInv, CleanOK
<1>9. OwnersOK' /\ SweepSettles'
  BY <1>2 DEF IInv, OwnersOK, SweepSettles
<1> QED BY <1>5, <1>6, <1>7, <1>8, <1>9 DEF IInv

(* A new row joins with its flag down: either its owner is not banned, or   *)
(* the row is noted as late.                                                *)
LEMMA CreateIInv ==
  ASSUME IInv, NEW h \in Handlers, NEW T \in {Pois, Districts}, Create(h, T)
  PROVE  IInv'
<1> DEFINE u == req[h].who
<1>1. TypeOK /\ RequestsOK /\ OwnersOK /\ SweepsOK /\ CleanOK /\ SweepSettles
  BY DEF IInv
<1>2. u \in Accounts /\ T \subseteq Targets
  BY <1>1 DEF RequestsOK, Create, Targets
<1>3. /\ \A w : Sweeping(w)' = Sweeping(w) \ {h}
      /\ \A g \in Handlers : g # h => req'[g] = req[g]
      /\ req'[h] = Idle
      /\ req' \in [Handlers -> Requests]
  BY <1>1, OtherSweeps, IdleOK DEF Create, Answered, SweepSteps
<1>4. RequestsOK'
  BY <1>1, <1>3, IdleOK DEF RequestsOK
<1>5. CleanOK'
  BY <1>1, <1>3 DEF CleanOK, Create
<1>6. CASE u \notin live
  <2>1. UNCHANGED <<owner, hidden, used, live, banned, clean, late>>
    BY <1>6 DEF Create
  <2>2. TypeOK' /\ OwnersOK' /\ SweepSettles'
    BY <1>1, <1>3, <2>1 DEF TypeOK, OwnersOK, SweepSettles
  <2>3. ASSUME NEW g \in Handlers PROVE AloneOK(g)'
    <3>1. CASE g = h
      BY <1>3, <3>1, IdleOK DEF AloneOK
    <3>2. CASE g # h
      <4>1. AloneOK(g)
        BY <1>1 DEF SweepsOK
      <4> QED BY <1>3, <2>1, <3>2, <4>1 DEF AloneOK
    <3> QED BY <3>1, <3>2
  <2> QED BY <1>4, <1>5, <2>2, <2>3 DEF IInv, SweepsOK
<1>7. CASE u \in live
  <2>1. PICK t \in T \ used :
          /\ owner' = [owner EXCEPT ![t] = u]
          /\ hidden' = [hidden EXCEPT ![t] = FALSE]
          /\ used' = used \cup {t}
          /\ late' = IF u \in banned THEN late \cup {t} ELSE late
    BY <1>7 DEF Create
  <2>2. UNCHANGED <<live, banned, clean>>
    BY DEF Create
  <2> HIDE DEF u
  <2>3. TypeOK'
    <3>1. owner' \in [Targets -> Accounts \cup {None}]
      BY <1>1, <1>2, <2>1 DEF TypeOK
    <3>2. hidden' \in [Targets -> BOOLEAN]
      BY <1>1, <1>2, <2>1, Zenon DEF TypeOK
    <3> QED BY <1>1, <1>2, <1>3, <2>1, <2>2, <3>1, <3>2 DEF TypeOK
  <2>4. \A s \in Targets :
          /\ owner'[s] = IF s = t THEN u ELSE owner[s]
          /\ s # t => hidden'[s] = hidden[s]
          /\ s = t => hidden'[s] = FALSE
    <3>1. \A s \in Targets : owner'[s] = IF s = t THEN u ELSE owner[s]
      BY <1>1, <2>1 DEF TypeOK
    <3>2. \A s \in Targets : s # t => hidden'[s] = hidden[s]
      BY <1>1, <2>1, Zenon DEF TypeOK
    <3>3. \A s \in Targets : s = t => hidden'[s] = FALSE
      BY <1>1, <2>1, Zenon DEF TypeOK
    <3> QED BY <3>1, <3>2, <3>3
  <2>5. OwnersOK'
    BY <1>1, <1>7, <2>1, <2>2, <2>4 DEF OwnersOK, u
  <2>6. SweepSettles'
    <3> SUFFICES ASSUME NEW s \in Targets, owner'[s] \in clean', s \notin late'
                 PROVE  hidden'[s] <=> owner'[s] \in banned'
      BY DEF SweepSettles
    <3>1. CASE s = t
      <4>1. u \notin banned
        BY <2>1, <3>1
      <4> QED BY <2>2, <2>4, <3>1, <4>1, Zenon
    <3>2. CASE s # t
      <4>1. s \notin late /\ owner'[s] = owner[s] /\ hidden'[s] = hidden[s]
        BY <2>1, <2>4, <3>2, Zenon
      <4>2. hidden[s] <=> owner[s] \in banned
        BY <1>1, <2>2, <4>1, Zenon DEF SweepSettles
      <4> QED BY <2>2, <4>1, <4>2, Zenon
    <3> QED BY <3>1, <3>2
  <2>7. ASSUME NEW g \in Handlers PROVE AloneOK(g)'
    <3>1. CASE g = h
      BY <1>3, <3>1, IdleOK DEF AloneOK
    <3>2. CASE g # h
      <4>1. AloneOK(g) /\ req[g] \in Requests
        BY <1>1 DEF SweepsOK, TypeOK
      <4>2. CASE ~(req[g].step \in SweepSteps /\ req[g].alone)
        BY <1>3, <3>2, <4>2 DEF AloneOK, SweepSteps
      <4>3. CASE req[g].step \in SweepSteps /\ req[g].alone
        <5> DEFINE w == req[g].subject
        <5>1. Sweeping(w)' = {g} /\ (w \in live => (req[g].ban <=> w \in banned))
          BY <1>3, <3>2, <4>1, <4>3 DEF AloneOK, SweepSteps
        <5>2. ASSUME req[g].step = "ban.districts", NEW s \in Pois,
                     owner'[s] = w, s \notin late'
              PROVE  hidden'[s] = req[g].ban
          <6>1. s \in Targets /\ s \notin late
            BY <2>1, <5>2 DEF Targets
          <6>2. CASE s = t
            <7>1. w = u /\ u \notin banned
              BY <2>1, <2>4, <5>2, <6>1, <6>2
            <7>2. req[g].ban = FALSE
              BY <1>7, <4>1, <5>1, <7>1 DEF Requests, u
            <7> QED BY <2>4, <6>1, <6>2, <7>2, Zenon
          <6>3. CASE s # t
            <7>1. owner[s] = w
              BY <2>4, <5>2, <6>1, <6>3
            <7>2. hidden[s] = req[g].ban
              BY <4>1, <4>3, <5>2, <6>1, <7>1 DEF AloneOK, SweepSteps
            <7> QED BY <2>4, <6>1, <6>3, <7>2, Zenon
          <6> QED BY <6>2, <6>3
        <5> QED BY <1>3, <2>2, <3>2, <5>1, <5>2 DEF AloneOK
      <4> QED BY <4>2, <4>3
    <3> QED BY <3>1, <3>2
  <2> QED BY <1>4, <1>5, <2>3, <2>5, <2>6, <2>7 DEF IInv, SweepsOK
<1> QED BY <1>6, <1>7

(* The sweep that starts takes the others' claim to be alone away. *)
LEMMA FlagUserShape ==
  ASSUME TypeOK, NEW h \in Handlers, FlagUser(h)
  PROVE  LET u == req[h].subject IN
         /\ req' \in [Handlers -> Requests]
         /\ \A g \in Handlers : /\ req'[g].who = req[g].who
                                /\ req'[g].subject = req[g].subject
                                /\ req'[g].ban = req[g].ban
                                /\ g # h => req'[g].step = req[g].step
                                /\ g \in Sweeping(u) => req'[g].alone = FALSE
                                /\ g # h /\ g \notin Sweeping(u) => req'[g] = req[g]
         /\ req'[h].step = "ban.pois"
         /\ req'[h].alone = (Sweeping(u) = {})
         /\ h \notin Sweeping(u)
<1> DEFINE u == req[h].subject
<1>1. h \notin Sweeping(u)
  BY DEF FlagUser, Sweeping
<1>2. \A g \in Handlers : req[g] \in Requests
  BY DEF TypeOK
<1> DEFINE started == [req[h] EXCEPT !.step = "ban.pois", !.alone = (Sweeping(u) = {})]
           joined(g) == [req[g] EXCEPT !.alone = FALSE]
<1>3. /\ started \in Requests
      /\ started.step = "ban.pois" /\ started.alone = (Sweeping(u) = {})
      /\ started.who = req[h].who /\ started.subject = req[h].subject
      /\ started.ban = req[h].ban
  BY <1>2 DEF Requests, Steps
<1>4. ASSUME NEW g \in Handlers
      PROVE  /\ joined(g) \in Requests
             /\ joined(g).step = req[g].step /\ joined(g).alone = FALSE
             /\ joined(g).who = req[g].who /\ joined(g).subject = req[g].subject
             /\ joined(g).ban = req[g].ban
  BY <1>2 DEF Requests
<1>5. req' = [g \in Handlers |-> IF g = h THEN started
                ELSE IF g \in Sweeping(u) THEN joined(g) ELSE req[g]]
  BY DEF FlagUser
<1> HIDE DEF started, joined, u
<1>6. req' \in [Handlers -> Requests]
  BY <1>2, <1>3, <1>4, <1>5
<1>7. \A g \in Handlers : req'[g] = IF g = h THEN started
                ELSE IF g \in Sweeping(u) THEN joined(g) ELSE req[g]
  BY <1>5
<1> QED BY <1>1, <1>3, <1>4, <1>6, <1>7 DEF u

LEMMA FlagUserIInv ==
  ASSUME IInv, NEW h \in Handlers, FlagUser(h)
  PROVE  IInv'
<1>0. PICK u : u = req[h].subject
  OBVIOUS
<1>1. TypeOK /\ RequestsOK /\ OwnersOK /\ SweepsOK /\ CleanOK /\ SweepSettles
  BY DEF IInv
<1>2. /\ req' \in [Handlers -> Requests]
      /\ \A g \in Handlers : /\ req'[g].who = req[g].who
                             /\ req'[g].subject = req[g].subject
                             /\ req'[g].ban = req[g].ban
                             /\ g # h => req'[g].step = req[g].step
                             /\ g \in Sweeping(u) => req'[g].alone = FALSE
                             /\ g # h /\ g \notin Sweeping(u) => req'[g] = req[g]
      /\ req'[h].step = "ban.pois"
      /\ req'[h].alone = (Sweeping(u) = {})
      /\ h \notin Sweeping(u)
  BY <1>0, <1>1, FlagUserShape
<1>3. /\ req[h].step = "ban.user"
      /\ banned' = IF u \notin live THEN banned
                   ELSE IF req[h].ban THEN banned \cup {u} ELSE banned \ {u}
      /\ clean' = clean \ {u}
      /\ UNCHANGED <<owner, hidden, used, live, late>>
  BY <1>0 DEF FlagUser
<1>4. u \in Accounts
  BY <1>0, <1>1, <1>3 DEF RequestsOK
<1>5. TypeOK'
  BY <1>1, <1>2, <1>3 DEF TypeOK
<1>6. RequestsOK'
  BY <1>1, <1>2, <1>3 DEF RequestsOK
<1>7. OwnersOK'
  BY <1>1, <1>3 DEF OwnersOK
<1>8. \A w : w # u => Sweeping(w)' = Sweeping(w)
  <2> SUFFICES ASSUME NEW w, w # u, NEW g \in Handlers
               PROVE  g \in Sweeping(w)' <=> g \in Sweeping(w)
    BY DEF Sweeping
  <2> QED BY <1>0, <1>2, <1>3 DEF Sweeping
<1>9. Sweeping(u)' = Sweeping(u) \cup {h}
  <2> SUFFICES ASSUME NEW g \in Handlers
               PROVE  g \in Sweeping(u)' <=> g \in Sweeping(u) \/ g = h
    BY DEF Sweeping
  <2> QED BY <1>0, <1>2, <1>3 DEF Sweeping
<1>10. CleanOK'
  BY <1>1, <1>3, <1>8 DEF CleanOK
<1>11. SweepSettles'
  <2> SUFFICES ASSUME NEW t \in Targets, owner[t] \in clean \ {u}, t \notin late
               PROVE  hidden[t] <=> owner[t] \in banned'
    BY <1>3, Zenon DEF SweepSettles
  <2>1. owner[t] \in banned' <=> owner[t] \in banned
    BY <1>3
  <2>2. hidden[t] <=> owner[t] \in banned
    BY <1>1, Zenon DEF SweepSettles
  <2> QED BY <2>1, <2>2, Zenon
<1>12. ASSUME NEW g \in Handlers PROVE AloneOK(g)'
  <2>1. CASE g = h
    <3>1. req[h].ban \in BOOLEAN
      BY <1>1 DEF TypeOK, Requests
    <3>2. req'[h].alone => Sweeping(u)' = {h}
      BY <1>2, <1>9
    <3>3. u \in live' => (req'[h].ban <=> u \in banned')
      BY <1>2, <1>3, <3>1
    <3>4. req'[h].subject = u /\ req'[h].step # "ban.districts"
      BY <1>0, <1>2
    <3> QED BY <2>1, <3>2, <3>3, <3>4 DEF AloneOK
  <2>2. CASE g \in Sweeping(u)
    BY <1>2, <2>2 DEF AloneOK
  <2>3. CASE g # h /\ g \notin Sweeping(u) /\ req[g].step \in SweepSteps
    <3>0. PICK w : w = req[g].subject
      OBVIOUS
    <3>1. w # u
      BY <2>3, <3>0 DEF Sweeping, SweepSteps
    <3>2. AloneOK(g)
      BY <1>1 DEF SweepsOK
    <3>3. Sweeping(w)' = Sweeping(w)
      BY <1>8, <3>1
    <3>4. w \in banned' <=> w \in banned
      BY <1>3, <3>1
    <3>5. req'[g] = req[g]
      BY <1>2, <2>3
    <3> QED BY <1>3, <2>3, <3>0, <3>2, <3>3, <3>4, <3>5 DEF AloneOK
  <2>4. CASE g # h /\ req[g].step \notin SweepSteps
    BY <1>2, <2>4 DEF AloneOK, SweepSteps
  <2> QED BY <2>1, <2>2, <2>3, <2>4
<1> QED BY <1>5, <1>6, <1>7, <1>10, <1>11, <1>12 DEF IInv, SweepsOK

(* One UPDATE of the sweep touches the subject's rows in its table only. *)
LEMMA FlagShape ==
  ASSUME TypeOK, NEW h \in Handlers, NEW T \in SUBSET Targets, Flag(h, T)
  PROVE  /\ hidden' \in [Targets -> BOOLEAN]
         /\ late' \subseteq late
         /\ \A t \in Targets :
              /\ t \in T /\ owner[t] = req[h].subject =>
                   hidden'[t] = req[h].ban /\ t \notin late'
              /\ ~(t \in T /\ owner[t] = req[h].subject) =>
                   hidden'[t] = hidden[t] /\ (t \in late' <=> t \in late)
<1>1. req[h].ban \in BOOLEAN
  BY DEF TypeOK, Requests
<1>2. hidden' = [t \in Targets |-> IF t \in T /\ owner[t] = req[h].subject
                                  THEN req[h].ban ELSE hidden[t]]
  BY DEF Flag
<1>3. late' = late \ (T \cap Owned(req[h].subject))
  BY DEF Flag
<1>4. hidden' \in [Targets -> BOOLEAN]
  BY <1>1, <1>2, Zenon DEF TypeOK
<1>5. \A t \in Targets :
        /\ t \in T /\ owner[t] = req[h].subject => hidden'[t] = req[h].ban
        /\ ~(t \in T /\ owner[t] = req[h].subject) => hidden'[t] = hidden[t]
  BY <1>2, Zenon
<1>6. \A t \in Targets : t \in late' <=>
        t \in late /\ ~(t \in T /\ owner[t] = req[h].subject)
  BY <1>3 DEF Owned
<1>7. late' \subseteq late
  BY <1>3
<1> QED BY <1>4, <1>5, <1>6, <1>7, Zenon

(* A sweep that is alone is over another account than h's. *)
LEMMA OthersStayAlone ==
  ASSUME IInv, NEW h \in Handlers, req[h].step \in SweepSteps,
         NEW T \in SUBSET Targets, Flag(h, T),
         UNCHANGED <<owner, live, banned>>,
         \A w : h \notin Sweeping(w) => Sweeping(w)' = Sweeping(w),
         NEW g \in Handlers, g # h, req'[g] = req[g]
  PROVE  AloneOK(g)'
<1>1. CASE ~(req[g].step \in SweepSteps /\ req[g].alone)
  BY <1>1 DEF AloneOK, SweepSteps
<1>2. CASE req[g].step \in SweepSteps /\ req[g].alone
  <2>1. PICK w : w = req[g].subject
    OBVIOUS
  <2>2. AloneOK(g) /\ TypeOK
    BY DEF IInv, SweepsOK
  <2>3. Sweeping(w) = {g} /\ (w \in live => (req[g].ban <=> w \in banned))
    BY <1>2, <2>1, <2>2 DEF AloneOK, SweepSteps
  <2>4. w # req[h].subject
    BY <2>3 DEF Sweeping, SweepSteps
  <2>5. Sweeping(w)' = {g}
    BY <2>3
  <2>6. ASSUME req[g].step = "ban.districts", NEW t \in Pois,
               owner[t] = w, t \notin late'
        PROVE  hidden'[t] = req[g].ban
    <3>1. t \in Targets
      BY DEF Targets
    <3>2. hidden'[t] = hidden[t] /\ t \notin late
      BY <2>2, <2>4, <2>6, <3>1, FlagShape
    <3>3. hidden[t] = req[g].ban
      BY <1>2, <2>1, <2>2, <2>6, <3>2, Zenon DEF AloneOK, SweepSteps
    <3> QED BY <3>2, <3>3, Zenon
  <2> QED BY <2>1, <2>3, <2>5, <2>6 DEF AloneOK
<1> QED BY <1>1, <1>2

LEMMA FlagPoisIInv ==
  ASSUME IInv, NEW h \in Handlers, FlagPois(h)
  PROVE  IInv'
<1>0. PICK u : u = req[h].subject
  OBVIOUS
<1>1. TypeOK /\ RequestsOK /\ OwnersOK /\ SweepsOK /\ CleanOK /\ SweepSettles
  BY DEF IInv
<1>2. /\ req[h].step = "ban.pois"
      /\ Flag(h, Pois)
      /\ UNCHANGED <<owner, used, live, banned, clean>>
  BY DEF FlagPois
<1>3. Pois \in SUBSET Targets
  BY DEF Targets
<1>4. PICK r \in Requests :
        /\ req' = [req EXCEPT ![h] = r]
        /\ r.step = "ban.districts" /\ r.who = req[h].who /\ r.subject = u
        /\ r.ban = req[h].ban /\ r.alone = req[h].alone
  BY <1>0, <1>1, GoToShape DEF FlagPois, Steps
<1>5. /\ \A g \in Handlers : g # h => req'[g] = req[g]
      /\ req'[h] = r
      /\ req' \in [Handlers -> Requests]
  BY <1>1, <1>4 DEF TypeOK
<1>6. \A w : Sweeping(w)' = Sweeping(w)
  <2> SUFFICES ASSUME NEW w, NEW g \in Handlers
               PROVE  g \in Sweeping(w)' <=> g \in Sweeping(w)
    BY DEF Sweeping
  <2> QED BY <1>0, <1>2, <1>4, <1>5 DEF Sweeping
<1>7. TypeOK'
  BY <1>1, <1>2, <1>3, <1>5, FlagShape DEF TypeOK
<1>8. RequestsOK'
  BY <1>0, <1>1, <1>2, <1>4, <1>5 DEF RequestsOK
<1>9. OwnersOK' /\ CleanOK'
  BY <1>1, <1>2, <1>6 DEF OwnersOK, CleanOK
<1>10. u \notin clean
  BY <1>0, <1>1, <1>2 DEF CleanOK, Sweeping
<1>11. SweepSettles'
  <2> SUFFICES ASSUME NEW t \in Targets, owner[t] \in clean, t \notin late'
               PROVE  hidden'[t] <=> owner[t] \in banned
    BY <1>2, Zenon DEF SweepSettles
  <2>1. hidden'[t] = hidden[t] /\ t \notin late
    BY <1>0, <1>1, <1>2, <1>3, <1>10, FlagShape
  <2> QED BY <1>1, <2>1, Zenon DEF SweepSettles
<1>12. ASSUME NEW g \in Handlers PROVE AloneOK(g)'
  <2>1. CASE g # h
    BY <1>2, <1>3, <1>5, <1>6, <2>1, OthersStayAlone DEF SweepSteps
  <2>2. CASE g = h /\ r.alone
    <3>1. Sweeping(u)' = {h} /\ (u \in live => (req[h].ban <=> u \in banned))
      BY <1>0, <1>1, <1>2, <1>4, <1>6, <2>2 DEF SweepsOK, AloneOK
    <3>2. \A t \in Pois : owner[t] = u => hidden'[t] = req[h].ban
      BY <1>0, <1>1, <1>2, <1>3, FlagShape
    <3> QED BY <1>2, <1>4, <1>5, <2>2, <3>1, <3>2 DEF AloneOK
  <2>3. CASE g = h /\ ~r.alone
    BY <1>5, <2>3 DEF AloneOK
  <2> QED BY <2>1, <2>2, <2>3
<1> QED BY <1>7, <1>8, <1>9, <1>11, <1>12 DEF IInv, SweepsOK

LEMMA FlagDistrictsIInv ==
  ASSUME IInv, NEW h \in Handlers, FlagDistricts(h)
  PROVE  IInv'
<1>0. PICK u : u = req[h].subject
  OBVIOUS
<1>1. TypeOK /\ RequestsOK /\ OwnersOK /\ SweepsOK /\ CleanOK /\ SweepSettles
  BY DEF IInv
<1>2. /\ req[h].step = "ban.districts"
      /\ Flag(h, Districts)
      /\ clean' = IF req[h].alone THEN clean \cup {u} ELSE clean
      /\ req' = [req EXCEPT ![h] = Idle]
      /\ UNCHANGED <<owner, used, live, banned>>
  BY <1>0 DEF FlagDistricts, Answered
<1>3. Districts \in SUBSET Targets /\ u \in Accounts
  BY <1>0, <1>1, <1>2 DEF Targets, RequestsOK
<1>4. /\ \A w : Sweeping(w)' = Sweeping(w) \ {h}
      /\ \A g \in Handlers : g # h => req'[g] = req[g]
      /\ req'[h] = Idle
      /\ req' \in [Handlers -> Requests]
  BY <1>1, <1>2, IdleOK, OtherSweeps DEF SweepSteps
<1>5. TypeOK'
  BY <1>1, <1>2, <1>3, <1>4, FlagShape DEF TypeOK
<1>6. RequestsOK'
  BY <1>1, <1>4, IdleOK DEF RequestsOK
<1>7. OwnersOK'
  BY <1>1, <1>2 DEF OwnersOK
<1>8. u \notin clean
  BY <1>0, <1>1, <1>2 DEF CleanOK, Sweeping
<1>9. req[h].alone =>
        /\ Sweeping(u) = {h}
        /\ u \in live => (req[h].ban <=> u \in banned)
        /\ \A t \in Pois : owner[t] = u /\ t \notin late => hidden[t] = req[h].ban
  BY <1>0, <1>1, <1>2 DEF SweepsOK, AloneOK
<1>10. CleanOK'
  BY <1>1, <1>2, <1>4, <1>9 DEF CleanOK
<1>11. SweepSettles'
  <2> SUFFICES ASSUME NEW t \in Targets, owner[t] \in clean', t \notin late'
               PROVE  hidden'[t] <=> owner[t] \in banned
    BY <1>2, Zenon DEF SweepSettles
  <2>1. CASE owner[t] # u
    <3>1. hidden'[t] = hidden[t] /\ t \notin late
      BY <1>0, <1>1, <1>2, <1>3, <2>1, FlagShape
    <3>2. owner[t] \in clean
      BY <1>2, <2>1
    <3> QED BY <1>1, <3>1, <3>2, Zenon DEF SweepSettles
  <2>2. CASE owner[t] = u
    <3>1. req[h].alone /\ u \in live
      BY <1>1, <1>2, <1>3, <1>8, <2>2, BanAssumption DEF OwnersOK
    <3>2. CASE t \in Districts
      <4>1. hidden'[t] = req[h].ban
        BY <1>0, <1>1, <1>2, <1>3, <2>2, <3>2, FlagShape
      <4> QED BY <1>9, <2>2, <3>1, <4>1, Zenon
    <3>3. CASE t \in Pois
      <4>1. t \notin Districts
        BY <3>3, BanAssumption
      <4>2. hidden'[t] = hidden[t] /\ t \notin late
        BY <1>0, <1>1, <1>2, <1>3, <4>1, FlagShape
      <4>3. hidden[t] = req[h].ban
        BY <1>9, <2>2, <3>1, <3>3, <4>2, Zenon
      <4> QED BY <1>9, <2>2, <3>1, <4>2, <4>3, Zenon
    <3> QED BY <3>2, <3>3 DEF Targets
  <2> QED BY <2>1, <2>2
<1>12. ASSUME NEW g \in Handlers PROVE AloneOK(g)'
  <2>1. CASE g # h
    BY <1>2, <1>3, <1>4, <2>1, OthersStayAlone DEF SweepSteps
  <2>2. CASE g = h
    BY <1>4, <2>2, IdleOK DEF AloneOK
  <2> QED BY <2>1, <2>2
<1> QED BY <1>5, <1>6, <1>7, <1>10, <1>11, <1>12 DEF IInv, SweepsOK

LEMMA DeleteUserIInv ==
  ASSUME IInv, NEW h \in Handlers, DeleteUser(h)
  PROVE  IInv'
<1>0. PICK u : u = req[h].who
  OBVIOUS
<1>1. TypeOK /\ RequestsOK /\ OwnersOK /\ SweepsOK /\ CleanOK /\ SweepSettles
  BY DEF IInv
<1>2. /\ req[h].step = "account"
      /\ live' = live \ {u}
      /\ banned' = banned \ {u}
      /\ owner' = [t \in Targets |-> IF owner[t] = u THEN None ELSE owner[t]]
      /\ hidden' = [t \in Targets |-> IF owner[t] = u THEN FALSE ELSE hidden[t]]
      /\ req' = [req EXCEPT ![h] = Idle]
      /\ UNCHANGED <<used, clean, late>>
  BY <1>0 DEF DeleteUser, Answered, history
<1>3. u \in Accounts
  BY <1>0, <1>1, <1>2 DEF RequestsOK
<1>4. /\ \A w : Sweeping(w)' = Sweeping(w) \ {h}
      /\ \A g \in Handlers : g # h => req'[g] = req[g]
      /\ req'[h] = Idle
      /\ req' \in [Handlers -> Requests]
  BY <1>1, <1>2, IdleOK, OtherSweeps DEF SweepSteps
<1>5. \A t \in Targets : owner'[t] = IF owner[t] = u THEN None ELSE owner[t]
  BY <1>2
<1>6. \A t \in Targets : owner[t] # u => hidden'[t] = hidden[t]
  BY <1>2, Zenon
<1>7. TypeOK'
  <2>1. hidden' \in [Targets -> BOOLEAN]
    BY <1>1, <1>2, Zenon DEF TypeOK
  <2>2. owner' \in [Targets -> Accounts \cup {None}]
    BY <1>1, <1>2 DEF TypeOK
  <2> QED BY <1>1, <1>2, <1>4, <2>1, <2>2 DEF TypeOK
<1>8. RequestsOK'
  BY <1>1, <1>4, IdleOK DEF RequestsOK
<1>9. OwnersOK'
  BY <1>1, <1>2, <1>5 DEF OwnersOK
<1>10. CleanOK'
  BY <1>1, <1>2, <1>4 DEF CleanOK
<1>11. SweepSettles'
  <2> SUFFICES ASSUME NEW t \in Targets, owner'[t] \in clean, t \notin late
               PROVE  hidden'[t] <=> owner'[t] \in banned'
    BY <1>2, Zenon DEF SweepSettles
  <2>1. owner[t] # u /\ owner'[t] = owner[t]
    BY <1>1, <1>5, BanAssumption DEF TypeOK
  <2>2. hidden'[t] = hidden[t]
    BY <1>6, <2>1
  <2>3. owner[t] \in banned' <=> owner[t] \in banned
    BY <1>2, <2>1
  <2>4. hidden[t] <=> owner[t] \in banned
    BY <1>1, <2>1, Zenon DEF SweepSettles
  <2> QED BY <2>1, <2>2, <2>3, <2>4, Zenon
<1>12. ASSUME NEW g \in Handlers PROVE AloneOK(g)'
  <2>1. CASE g = h
    BY <1>4, <2>1, IdleOK DEF AloneOK
  <2>2. CASE g # h /\ ~(req[g].step \in SweepSteps /\ req[g].alone)
    BY <1>4, <2>2 DEF AloneOK, SweepSteps
  <2>3. CASE g # h /\ req[g].step \in SweepSteps /\ req[g].alone
    <3>1. PICK w : w = req[g].subject
      OBVIOUS
    <3>2. w # None
      BY <1>1, <2>3, <3>1, BanAssumption DEF RequestsOK, SweepSteps
    <3>3. AloneOK(g)
      BY <1>1 DEF SweepsOK
    <3>4. Sweeping(w)' = {g} /\ (w \in live' => (req[g].ban <=> w \in banned'))
      BY <1>2, <1>4, <2>3, <3>1, <3>3 DEF AloneOK, SweepSteps
    <3>5. ASSUME req[g].step = "ban.districts", NEW t \in Pois,
                 owner'[t] = w, t \notin late
          PROVE  hidden'[t] = req[g].ban
      <4>1. t \in Targets
        BY DEF Targets
      <4>2. owner[t] = w /\ owner[t] # u
        BY <1>5, <3>2, <3>5, <4>1
      <4>3. hidden[t] = req[g].ban
        BY <2>3, <3>1, <3>3, <3>5, <4>2, Zenon DEF AloneOK, SweepSteps
      <4> QED BY <1>6, <4>1, <4>2, <4>3, Zenon
    <3> QED BY <1>2, <1>4, <2>3, <3>1, <3>4, <3>5 DEF AloneOK
  <2> QED BY <2>1, <2>2, <2>3
<1> QED BY <1>7, <1>8, <1>9, <1>10, <1>11, <1>12 DEF IInv, SweepsOK

LEMMA NextIInv == ASSUME IInv, [Next]_vars PROVE IInv'
<1>1. CASE UNCHANGED vars
  <2>1. UNCHANGED <<owner, hidden, used, live, banned, req, clean, late>>
    BY <1>1 DEF vars
  <2> QED BY <2>1 DEF IInv, TypeOK, RequestsOK, OwnersOK, SweepsOK, AloneOK,
                      CleanOK, SweepSettles, Sweeping
<1>2. CASE Next
  <2>1. PICK h \in Handlers :
           \/ Arrival(h) \/ FindSubject(h) \/ Fail(h)
           \/ \E T \in {Pois, Districts} : Create(h, T)
           \/ FlagUser(h) \/ FlagPois(h) \/ FlagDistricts(h) \/ DeleteUser(h)
    BY <1>2, StepCases
  <2> QED BY <2>1, QuietIInv, CreateIInv, FlagUserIInv, FlagPoisIInv,
             FlagDistrictsIInv, DeleteUserIInv
<1> QED BY <1>1, <1>2

LEMMA Invariance == Spec => []IInv
BY InitIInv, NextIInv, PTL DEF Spec

(* setBanStatus and its callers keep the tables well formed. *)
THEOREM TypeCorrect == Spec => []TypeOK
<1>1. IInv => TypeOK
  BY DEF IInv
<1> QED BY <1>1, Invariance, PTL

(* Whatever sweeps overlapped, failed or were repeated before: after a last *)
(* one that ran alone to its end, the rows in front of it carry the flag.   *)
THEOREM SweptRowsAgree == Spec => []SweepSettles
<1>1. IInv => SweepSettles
  BY DEF IInv
<1> QED BY <1>1, Invariance, PTL

(* Only a request that passed the guard before the ban adds a row. *)
LEMMA SilentStep ==
  ASSUME IInv, IInv', Next, NEW u \in Accounts, u \in banned, Adding(u) = {}
  PROVE  Adding(u)' = {} /\ Owned(u)' \subseteq Owned(u)
<1>1. TypeOK /\ RequestsOK
  BY DEF IInv
<1>2. PICK h \in Handlers :
         \/ Arrival(h) \/ FindSubject(h) \/ Fail(h)
         \/ \E T \in {Pois, Districts} : Create(h, T)
         \/ FlagUser(h) \/ FlagPois(h) \/ FlagDistricts(h) \/ DeleteUser(h)
  BY StepCases
<1>3. \A g \in Handlers : ~(req[g].who = u /\ req[g].step = "create")
  BY DEF Adding
<1> USE DEF Adding
<1>4. ASSUME \A g \in Handlers : g # h => req'[g] = req[g],
             ~(req'[h].who = u /\ req'[h].step = "create")
      PROVE  Adding(u)' = {}
  BY <1>3, <1>4
<1>5. ASSUME NEW r \in Requests, req' = [req EXCEPT ![h] = r],
             ~(r.who = u /\ r.step = "create")
      PROVE  Adding(u)' = {}
  BY <1>1, <1>4, <1>5 DEF TypeOK
<1>6. Answered(h) => Adding(u)' = {}
  BY <1>5, IdleOK DEF Answered
<1>7. ASSUME NEW s \in Steps, s # "create", GoTo(h, s) PROVE Adding(u)' = {}
  BY <1>1, <1>5, <1>7, GoToShape
<1>8. owner' = owner => Owned(u)' \subseteq Owned(u)
  BY DEF Owned
<1>9. CASE Arrival(h)
  BY <1>1, <1>5, <1>8, <1>9, ArrivalShape DEF tables
<1>10. CASE FindSubject(h)
  BY <1>6, <1>7, <1>8, <1>10 DEF FindSubject, tables, Steps
<1>11. CASE Fail(h)
  BY <1>6, <1>8, <1>11 DEF Fail, tables
<1>12. CASE \E T \in {Pois, Districts} : Create(h, T)
  <2>1. PICK T \in {Pois, Districts} : Create(h, T)
    BY <1>12
  <2>2. req[h].who # u
    BY <1>3, <2>1 DEF Create
  <2>3. \A t \in Targets : owner'[t] = u => owner[t] = u
    BY <1>1, <2>1, <2>2 DEF Create, TypeOK
  <2> QED BY <1>6, <2>1, <2>3 DEF Create, Owned
<1>13. CASE FlagUser(h)
  <2>1. /\ req'[h].step = "ban.pois"
        /\ \A g \in Handlers : /\ req'[g].who = req[g].who
                               /\ g # h => req'[g].step = req[g].step
    <3> HIDE DEF Adding
    <3> QED BY <1>1, <1>13, FlagUserShape
  <2>2. Adding(u)' = {}
    BY <1>3, <2>1
  <2> QED BY <1>8, <1>13, <2>2 DEF FlagUser
<1>14. CASE FlagPois(h)
  BY <1>7, <1>8, <1>14 DEF FlagPois, Steps
<1>15. CASE FlagDistricts(h)
  BY <1>6, <1>8, <1>15 DEF FlagDistricts
<1>16. CASE DeleteUser(h)
  <2>1. \A t \in Targets : owner'[t] = u => owner[t] = u
    BY <1>1, <1>16, BanAssumption DEF DeleteUser, TypeOK
  <2> QED BY <1>6, <1>16, <2>1 DEF DeleteUser, Owned
<1> QED BY <1>2, <1>9, <1>10, <1>11, <1>12, <1>13, <1>14, <1>15, <1>16

(* A ban silences: once the requests that were under way have ended, a      *)
(* banned account adds no row until it is unbanned.                         *)
THEOREM BanSilences == Spec => BannedFallSilent
<1>1. ASSUME IInv, IInv', [Next]_vars
      PROVE  [\A u \in Accounts :
                u \in banned /\ u \in banned' /\ Adding(u) = {}
                  => Adding(u)' = {} /\ Owned(u)' \subseteq Owned(u)]_vars
  <2>1. CASE Next
    BY <1>1, <2>1, SilentStep
  <2>2. CASE UNCHANGED vars
    BY <2>2
  <2> QED BY <1>1, <2>1, <2>2
<1> QED BY <1>1, Invariance, PTL DEF Spec, BannedFallSilent
=============================================================================

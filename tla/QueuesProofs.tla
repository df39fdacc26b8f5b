---------------------------- MODULE QueuesProofs ----------------------------
(***************************************************************************)
(* The two screens of a moderator, the review queue and the reports, each  *)
(* proved for every queue and any number of decisions, reports, moderators *)
(* and loads under way.                                                    *)
(***************************************************************************)
EXTENDS ReviewQueue, Reports, TLAPS

(* Nothing is listed, drawn, selected or decided before load has ended, and *)
(* an answer is good only when the backend has decided.                     *)
LoadOK == load # "ready" => offered = {}
DoneIsDecided ==
  \A i \in Items, l \in Lanes : call[i][l].step = "done" => row[i] = "decided"

(* Of the two copies: in the queue, an item is busy while an answer about   *)
(* it is outstanding.  On the screen, it is busy if it is so in the queue,  *)
(* or if it has failed since it was drawn.                                  *)
QueueBusyOK == \A i \in DOMAIN items : items[i].busy => Outstanding(i)
CardsOK ==
  \A i \in DOMAIN shown \cap DOMAIN items :
    shown[i].busy => items[i].busy \/ i \in failedSince

IInv == /\ TypeOK /\ LoadOK /\ DoneIsDecided
        /\ ScreenAgrees /\ QueueBusyOK /\ CardsOK /\ GoneIsDecided

(* The handlers that neither load, nor end a bulk action, nor settle a call *)
Click == \/ \E f \in Filters : SetFilter(f)
         \/ \E i \in Items, n \in Notes : SetNote(i, n)
         \/ \E i \in Items : ToggleSelection(i)
         \/ SelectAll

Loading == (\E p \in Parts : Fetch(p) \/ FetchFails(p)) \/ Loaded

LEMMA StepCases ==
  ASSUME Next
  PROVE  \/ Loading \/ Click \/ BulkAction \/ BulkDone
         \/ \E i \in Items : Decide(i) \/ Elsewhere(i)
         \/ \E i \in Items, l \in Lanes :
              Commit(i, l) \/ Refuse(i, l) \/ Success(i, l) \/ Failure(i, l)
BY DEF Next, Click, Loading

-----------------------------------------------------------------------------
(* What the helpers return. *)
LEMMA FilteredShape ==
  ASSUME NEW q, q \in [DOMAIN q -> Entries], NEW f
  PROVE  /\ DOMAIN Filtered(q, f) = {i \in DOMAIN q : Matches(i, f)}
         /\ Filtered(q, f) \in [DOMAIN Filtered(q, f) -> Entries]
BY DEF Filtered

(* What is drawn anew has the marks of the queue. *)
LEMMA DrawnAnew ==
  ASSUME NEW f, ApplyFilter(items', f), NEW i \in DOMAIN shown'
  PROVE  i \in DOMAIN items' /\ shown'[i] = items'[i] /\ failedSince' = {}
BY DEF ApplyFilter, Filtered

LEMMA WithoutShape ==
  ASSUME NEW i, items \in [DOMAIN items -> Entries]
  PROVE  /\ DOMAIN Without(i) = DOMAIN items \ {i}
         /\ Without(i) \in [DOMAIN Without(i) -> Entries]
         /\ \A j \in DOMAIN Without(i) : Without(i)[j] = items[j]
BY DEF Without

LEMMA SetBusyShape ==
  ASSUME NEW i, NEW b \in BOOLEAN, items \in [DOMAIN items -> Entries]
  PROVE  /\ DOMAIN SetBusy(i, b) = DOMAIN items
         /\ SetBusy(i, b) \in [DOMAIN SetBusy(i, b) -> Entries]
         /\ \A j \in DOMAIN items : j # i => SetBusy(i, b)[j] = items[j]
         /\ i \in DOMAIN items => SetBusy(i, b)[i].busy = b
BY DEF SetBusy, Entries

LEMMA WithNoteShape ==
  ASSUME NEW i, NEW n \in Notes, items \in [DOMAIN items -> Entries]
  PROVE  /\ DOMAIN WithNote(i, n) = DOMAIN items
         /\ WithNote(i, n) \in [DOMAIN WithNote(i, n) -> Entries]
         /\ \A j \in DOMAIN items : WithNote(i, n)[j].busy = items[j].busy
BY DEF WithNote, Entries

LEMMA CallShape ==
  ASSUME TypeOK, NEW i \in Items, NEW l \in Lanes, NEW c \in CallRows,
         call' = [call EXCEPT ![i][l] = c]
  PROVE  /\ call' \in [Items -> [Lanes -> CallRows]]
         /\ call'[i][l] = c
         /\ \A j \in Items, k \in Lanes :
              j # i \/ k # l => call'[j][k] = call[j][k]
BY DEF TypeOK

LEMMA NoCallShape == NoCall \in CallRows /\ NoCall.step = "none"
BY QueueAssumption DEF NoCall, CallRows

(* Nothing that is drawn, listed or selected is outside Items. *)
LEMMA OnScreenIsOffered ==
  ASSUME TypeOK, NEW i \in DOMAIN shown
  PROVE  i \in offered /\ i \in Items /\ shown[i] \in Entries
BY DEF TypeOK

-----------------------------------------------------------------------------
LEMMA InitInv == Init => IInv
<1> SUFFICES ASSUME Init PROVE IInv
  OBVIOUS
<1>1. /\ DOMAIN items = {} /\ DOMAIN shown = {}
      /\ items \in [DOMAIN items -> Entries] /\ shown \in [DOMAIN shown -> Entries]
  BY DEF Init
<1>2. \A i \in Items, l \in Lanes : call[i][l] = NoCall
  BY DEF Init
<1>3. call \in [Items -> [Lanes -> CallRows]]
  BY NoCallShape DEF Init
<1>4. TypeOK
  BY <1>1, <1>2, <1>3 DEF Init, TypeOK, Filters, Lanes
<1>5. DoneIsDecided
  BY <1>2, NoCallShape DEF DoneIsDecided
<1>6. ScreenAgrees /\ QueueBusyOK /\ CardsOK /\ GoneIsDecided /\ LoadOK
  BY <1>1 DEF Init, ScreenAgrees, QueueBusyOK, CardsOK, GoneIsDecided, LoadOK
<1> QED BY <1>4, <1>5, <1>6 DEF IInv

LEMMA LoadingStep ==
  ASSUME IInv, Loading
  PROVE  IInv'
<1> USE DEF IInv, loader, backend, bulk
<1>1. CASE \E p \in Parts : Fetch(p) \/ FetchFails(p)
  <2>1. /\ UNCHANGED <<row, offered, items, shown, filter, selected, bulkBusy, call,
                       failedSince>>
        /\ load = "loading" /\ load' \in {"loading", "failed"}
        /\ fetched' \subseteq Parts /\ got' \subseteq Items
    BY <1>1 DEF Fetch, FetchFails, TypeOK
  <2>2. TypeOK'
    BY <2>1 DEF TypeOK
  <2> QED BY <2>1, <2>2 DEF LoadOK, DoneIsDecided, ScreenAgrees, QueueBusyOK, CardsOK,
                            Outstanding, GoneIsDecided
<1>2. CASE Loaded
  <2>1. /\ offered = {} /\ selected = {} /\ DOMAIN items = {}
        /\ offered' = got /\ got \subseteq Items
        /\ items' = [i \in got |-> Entry] /\ shown' = Filtered(items', filter)
        /\ failedSince' = {}
    BY <1>2 DEF Loaded, ApplyFilter, LoadOK, TypeOK
  <2>2. DOMAIN items' = got /\ items' \in [DOMAIN items' -> Entries]
    BY <2>1, QueueAssumption DEF Entry, Entries
  <2>3. /\ DOMAIN shown' = {i \in DOMAIN items' : Matches(i, filter)}
        /\ shown' \in [DOMAIN shown' -> Entries]
    BY <2>1, <2>2, FilteredShape
  <2>4. TypeOK'
    BY <1>2, <2>1, <2>2, <2>3 DEF TypeOK, Loaded
  <2>5. LoadOK' /\ DoneIsDecided'
    BY <1>2 DEF LoadOK, DoneIsDecided, Loaded
  <2>6. ScreenAgrees'
    BY <1>2, <2>3 DEF ScreenAgrees, Loaded, Matches
  <2>7. QueueBusyOK' /\ CardsOK'
    <3>1. \A i \in DOMAIN items' : ~items'[i].busy
      BY <2>1, <2>2 DEF Entry
    <3>2. ApplyFilter(items', filter)
      BY <1>2 DEF Loaded
    <3>3. CardsOK'
      BY <3>2, DrawnAnew DEF CardsOK
    <3> QED BY <3>1, <3>3 DEF QueueBusyOK
  <2>8. GoneIsDecided'
    BY <2>1, <2>2 DEF GoneIsDecided
  <2> QED BY <2>4, <2>5, <2>6, <2>7, <2>8
<1> QED BY <1>1, <1>2 DEF Loading

LEMMA ClickStep ==
  ASSUME IInv, Click
  PROVE  IInv'
<1> USE DEF IInv, loader, backend, bulk
<1>1. ASSUME NEW f \in Filters, SetFilter(f) PROVE IInv'
  <2>1. /\ DOMAIN shown' = {i \in DOMAIN items : Matches(i, f)}
        /\ shown' \in [DOMAIN shown' -> Entries]
        /\ failedSince' = {}
    BY <1>1, FilteredShape DEF SetFilter, ApplyFilter, TypeOK
  <2>2. TypeOK'
    BY <1>1, <2>1 DEF SetFilter, TypeOK
  <2>3. ScreenAgrees'
    BY <1>1, <2>1 DEF SetFilter, ScreenAgrees, Matches
  <2>4. CardsOK'
    <3>1. items' = items /\ ApplyFilter(items', f)
      BY <1>1 DEF SetFilter
    <3> QED BY <3>1, DrawnAnew DEF CardsOK
  <2> QED BY <1>1, <2>2, <2>3, <2>4
          DEF SetFilter, LoadOK, DoneIsDecided, QueueBusyOK, Outstanding, GoneIsDecided
<1>2. ASSUME NEW i \in Items, NEW n \in Notes, SetNote(i, n) PROVE IInv'
  <2>1. /\ DOMAIN items' = DOMAIN items
        /\ items' \in [DOMAIN items' -> Entries]
        /\ \A j \in DOMAIN items : items'[j].busy = items[j].busy
    BY <1>2, WithNoteShape DEF SetNote, TypeOK
  <2>2. TypeOK'
    BY <1>2, <2>1 DEF SetNote, TypeOK
  <2>3. ScreenAgrees' /\ QueueBusyOK' /\ CardsOK' /\ GoneIsDecided'
    BY <1>2, <2>1 DEF SetNote, ScreenAgrees, QueueBusyOK, CardsOK, Outstanding, GoneIsDecided,
                      Matches
  <2> QED BY <1>2, <2>2, <2>3 DEF SetNote, LoadOK, DoneIsDecided
<1>3. ASSUME SelectAll \/ \E i \in Items : ToggleSelection(i) PROVE IInv'
  <2>1. /\ UNCHANGED <<row, load, fetched, got, items, shown, filter, bulkBusy,
                       call, offered, failedSince>>
        /\ selected' \subseteq selected \cup DOMAIN shown
    BY <1>3 DEF SelectAll, ToggleSelection, OnScreen
  <2>2. TypeOK'
    BY <2>1 DEF TypeOK
  <2> QED BY <2>1, <2>2 DEF LoadOK, DoneIsDecided, ScreenAgrees, QueueBusyOK, CardsOK,
                            Outstanding, GoneIsDecided, Matches
<1> QED BY <1>1, <1>2, <1>3 DEF Click

-----------------------------------------------------------------------------
LEMMA DecideStep ==
  ASSUME IInv, NEW i \in Items, Decide(i)
  PROVE  IInv'
<1> USE DEF IInv, loader, backend, bulk
<1>1. PICK k \in Clicks : /\ call[i][k] = NoCall
                          /\ call' = [call EXCEPT ![i][k] = Sent(shown[i].note)]
  BY DEF Decide
<1>2. /\ k \in Lanes /\ k # "bulk"
      /\ Sent(shown[i].note) \in CallRows /\ Sent(shown[i].note).step = "sent"
  BY OnScreenIsOffered, QueueAssumption
  DEF Decide, OnScreen, Sent, CallRows, Entries, Lanes
<1>3. /\ call' \in [Items -> [Lanes -> CallRows]]
      /\ call'[i][k].step = "sent"
      /\ \A j \in Items, l \in Lanes : j # i \/ l # k => call'[j][l] = call[j][l]
  BY <1>1, <1>2, CallShape
<1>4. /\ DOMAIN items' = DOMAIN items
      /\ items' \in [DOMAIN items' -> Entries]
      /\ \A j \in DOMAIN items : j # i => items'[j] = items[j]
      /\ i \in DOMAIN items => items'[i].busy = TRUE
  BY SetBusyShape DEF Decide, TypeOK
<1>5. UNCHANGED <<row, load, fetched, got, offered, shown, filter, selected, bulkBusy, failedSince>>
  BY DEF Decide
<1>6. TypeOK'
  BY <1>2, <1>3, <1>4, <1>5 DEF TypeOK, Lanes
<1>7. LoadOK' /\ GoneIsDecided' /\ ScreenAgrees'
  BY <1>4, <1>5 DEF LoadOK, GoneIsDecided, ScreenAgrees, Matches
<1>8. DoneIsDecided'
  BY <1>3, <1>5 DEF DoneIsDecided
<1>9. QueueBusyOK'
  <2> SUFFICES ASSUME NEW j \in DOMAIN items', items'[j].busy
               PROVE  \E l \in Lanes : call'[j][l] # NoCall
    BY DEF QueueBusyOK, Outstanding
  <2>1. CASE j = i
    BY <2>1, <1>2, <1>3, NoCallShape
  <2>2. CASE j # i
    <3>1. j \in Items /\ \E l \in Lanes : call[j][l] # NoCall
      BY <2>2, <1>4 DEF QueueBusyOK, Outstanding, TypeOK
    <3> QED BY <2>2, <3>1, <1>3
  <2> QED BY <2>1, <2>2
<1>10. CardsOK'
  BY <1>4, <1>5 DEF CardsOK
<1> QED BY <1>6, <1>7, <1>8, <1>9, <1>10

LEMMA BulkActionStep ==
  ASSUME IInv, BulkAction
  PROVE  IInv'
<1> USE DEF IInv, loader, backend, bulk
<1> DEFINE S == selected \cap DOMAIN items
<1>1. /\ UNCHANGED <<row, load, fetched, got, offered, shown, filter, selected, failedSince>>
      /\ bulkBusy' = TRUE
  BY DEF BulkAction
<1>2. /\ DOMAIN items' = DOMAIN items
      /\ items' \in [DOMAIN items' -> Entries]
      /\ \A j \in DOMAIN items : j \notin S => items'[j] = items[j]
      /\ \A j \in S : items'[j].busy = TRUE
  BY DEF BulkAction, TypeOK, Entries
<1>3. /\ call' \in [Items -> [Lanes -> CallRows]]
      /\ \A j \in S : call'[j]["bulk"].step = "sent"
      /\ \A j \in Items, l \in Lanes :
           j \notin S \/ l # "bulk" => call'[j][l] = call[j][l]
  <2>1. \A j \in S : /\ j \in Items /\ Sent(items[j].note) \in CallRows
                     /\ Sent(items[j].note).step = "sent"
    BY DEF TypeOK, Sent, CallRows, Entries
  <2>2. call' = [j \in Items |-> IF j \in S
                   THEN [call[j] EXCEPT !["bulk"] = Sent(items[j].note)] ELSE call[j]]
    BY DEF BulkAction
  <2> QED BY <2>1, <2>2 DEF TypeOK, Lanes
<1>4. TypeOK'
  BY <1>1, <1>2, <1>3 DEF TypeOK
<1>5. LoadOK' /\ GoneIsDecided' /\ ScreenAgrees'
  BY <1>1, <1>2 DEF LoadOK, GoneIsDecided, ScreenAgrees
<1>6. DoneIsDecided'
  BY <1>1, <1>3 DEF DoneIsDecided
<1>7. QueueBusyOK'
  <2> SUFFICES ASSUME NEW j \in DOMAIN items', items'[j].busy
               PROVE  \E l \in Lanes : call'[j][l] # NoCall
    BY DEF QueueBusyOK, Outstanding
  <2>1. CASE j \in S
    BY <2>1, <1>3, NoCallShape DEF Lanes
  <2>2. CASE j \notin S
    <3>1. j \in Items /\ \E l \in Lanes : call[j][l] # NoCall
      BY <2>2, <1>2 DEF QueueBusyOK, Outstanding, TypeOK
    <3> QED BY <2>2, <3>1, <1>3
  <2> QED BY <2>1, <2>2
<1>8. CardsOK'
  BY <1>1, <1>2 DEF CardsOK
<1> QED BY <1>4, <1>5, <1>6, <1>7, <1>8

LEMMA BulkDoneStep ==
  ASSUME IInv, BulkDone
  PROVE  IInv'
<1> USE DEF IInv, loader, backend, bulk
<1>1. /\ UNCHANGED <<row, load, fetched, got, offered, items, filter, call>>
      /\ selected' = {} /\ bulkBusy' = FALSE
      /\ shown' = Filtered(items, filter) /\ failedSince' = {}
      /\ \A i \in Items : call[i]["bulk"] = NoCall
  BY DEF BulkDone, ApplyFilter
<1>2. /\ DOMAIN shown' = {i \in DOMAIN items : Matches(i, filter)}
      /\ shown' \in [DOMAIN shown' -> Entries]
  BY <1>1, FilteredShape DEF TypeOK
<1>3. TypeOK'
  BY <1>1, <1>2 DEF TypeOK
<1>4. ScreenAgrees'
  BY <1>1, <1>2 DEF ScreenAgrees, Matches
<1>5. CardsOK'
  <2>1. ApplyFilter(items', filter)
    BY <1>1 DEF BulkDone
  <2> QED BY <2>1, DrawnAnew DEF CardsOK
<1> QED BY <1>1, <1>3, <1>4, <1>5 DEF LoadOK, DoneIsDecided, QueueBusyOK, Outstanding, GoneIsDecided

-----------------------------------------------------------------------------
(* The backend decides, refuses, or is overtaken. *)
LEMMA BackendStep ==
  ASSUME IInv, NEW i \in Items, NEW l \in Lanes,
         Commit(i, l) \/ Refuse(i, l) \/ Elsewhere(i)
  PROVE  IInv'
<1> USE DEF IInv, loader, backend, bulk
<1>1. /\ UNCHANGED <<load, fetched, got, offered, items, shown, filter, selected,
                     bulkBusy, failedSince>>
      /\ row' = row \/ row' = [row EXCEPT ![i] = "decided"]
  BY DEF Commit, Refuse, Elsewhere
<1>2. /\ row' \in [Items -> {"pending", "decided"}]
      /\ \A j \in Items : row[j] = "decided" => row'[j] = "decided"
  BY <1>1 DEF TypeOK
<1>3. /\ call' \in [Items -> [Lanes -> CallRows]]
      /\ \A j \in Items, k \in Lanes : call'[j][k] = NoCall <=> call[j][k] = NoCall
      /\ DoneIsDecided'
  <2>1. CASE Elsewhere(i)
    BY <2>1, <1>2 DEF Elsewhere, TypeOK, DoneIsDecided
  <2>2. ASSUME NEW s \in {"done", "failed"}, call[i][l].step = "sent",
               call' = [call EXCEPT ![i][l].step = s],
               s = "done" => row'[i] = "decided"
        PROVE  /\ call' \in [Items -> [Lanes -> CallRows]]
               /\ \A j \in Items, k \in Lanes :
                    call'[j][k] = NoCall <=> call[j][k] = NoCall
               /\ DoneIsDecided'
    <3> DEFINE c == [call[i][l] EXCEPT !.step = s]
    <3>1. call[i][l] \in CallRows /\ c \in CallRows /\ c.step = s
      BY <2>2 DEF TypeOK, CallRows
    <3>2. call' = [call EXCEPT ![i][l] = c]
      BY <2>2
    <3>3. /\ call' \in [Items -> [Lanes -> CallRows]]
          /\ call'[i][l] = c
          /\ \A j \in Items, k \in Lanes :
               j # i \/ k # l => call'[j][k] = call[j][k]
      BY <3>1, <3>2, CallShape
    <3>4. call[i][l] # NoCall /\ c # NoCall
      BY <2>2, <3>1, NoCallShape
    <3>5. DoneIsDecided'
      BY <2>2, <3>1, <3>3, <1>2 DEF DoneIsDecided
    <3> QED BY <3>3, <3>4, <3>5
  <2>3. CASE Commit(i, l)
    <3>1. row'[i] = "decided"
      BY <2>3 DEF Commit, TypeOK
    <3> QED BY <2>2, <2>3, <3>1 DEF Commit
  <2>4. CASE Refuse(i, l)
    BY <2>2, <2>4 DEF Refuse
  <2> QED BY <2>1, <2>3, <2>4
<1>4. TypeOK'
  <2>1. \A j \in Items : call'[j]["bulk"] # NoCall => bulkBusy'
    BY <1>1, <1>3 DEF TypeOK, Lanes
  <2> QED BY <1>1, <1>2, <1>3, <2>1 DEF TypeOK
<1>5. LoadOK' /\ ScreenAgrees'
  BY <1>1 DEF LoadOK, ScreenAgrees, Matches
<1>6. QueueBusyOK' /\ CardsOK'
  BY <1>1, <1>3 DEF QueueBusyOK, CardsOK, Outstanding, TypeOK
<1>7. GoneIsDecided'
  BY <1>1, <1>2 DEF GoneIsDecided, TypeOK
<1> QED BY <1>3, <1>4, <1>5, <1>6, <1>7

(* An answer arrives. *)
LEMMA AnswerStep ==
  ASSUME IInv, NEW i \in Items, NEW l \in Lanes, Success(i, l) \/ Failure(i, l)
  PROVE  IInv'
<1> USE DEF IInv, loader, backend, bulk
<1>1. /\ UNCHANGED <<row, load, fetched, got, offered, filter, selected, bulkBusy>>
      /\ call' = [call EXCEPT ![i][l] = NoCall] /\ call[i][l] # NoCall
  BY NoCallShape DEF Success, Failure
<1>2. /\ call' \in [Items -> [Lanes -> CallRows]]
      /\ call'[i][l] = NoCall
      /\ \A j \in Items, k \in Lanes : j # i \/ k # l => call'[j][k] = call[j][k]
  BY <1>1, NoCallShape, CallShape
<1>3. DoneIsDecided' /\ \A j \in Items : call'[j]["bulk"] # NoCall => bulkBusy'
  BY <1>1, <1>2, NoCallShape DEF DoneIsDecided, TypeOK, Lanes
<1>4. /\ DOMAIN items' \subseteq DOMAIN items
      /\ items' \in [DOMAIN items' -> Entries]
      /\ \A j \in DOMAIN items' : j # i => items'[j] = items[j]
      /\ i \in DOMAIN items' => ~items'[i].busy
      /\ \A j \in DOMAIN items \ DOMAIN items' : j = i /\ row[i] = "decided"
      /\ bulkBusy \/ DOMAIN shown' = {j \in DOMAIN items' : Matches(j, filter)}
      /\ DOMAIN shown' \subseteq offered /\ shown' \in [DOMAIN shown' -> Entries]
      /\ failedSince' \subseteq Items /\ CardsOK'
  <2>1. CASE Success(i, l)
    <3>1. /\ DOMAIN items' = DOMAIN items \ {i}
          /\ items' \in [DOMAIN items' -> Entries]
          /\ \A j \in DOMAIN items' : items'[j] = items[j]
      BY <2>1, WithoutShape DEF Success, TypeOK
    <3>2. row[i] = "decided"
      BY <2>1 DEF Success, DoneIsDecided
    <3>3. CASE l = "bulk"
      <4>1. bulkBusy /\ shown' = shown /\ failedSince' = failedSince
        BY <2>1, <3>3, <1>1 DEF Success, TypeOK
      <4> QED BY <3>1, <3>2, <4>1 DEF TypeOK, CardsOK
    <3>4. CASE l # "bulk"
      <4>1. ApplyFilter(items', filter)
        BY <2>1, <3>4 DEF Success
      <4>2. /\ DOMAIN shown' = {j \in DOMAIN items' : Matches(j, filter)}
            /\ shown' \in [DOMAIN shown' -> Entries]
            /\ failedSince' = {}
        BY <3>1, <4>1, FilteredShape DEF ApplyFilter
      <4>3. CardsOK'
        BY <4>1, DrawnAnew DEF CardsOK
      <4> QED BY <3>1, <3>2, <4>2, <4>3 DEF TypeOK
    <3> QED BY <3>3, <3>4
  <2>2. CASE Failure(i, l)
    <3>1. /\ DOMAIN items' = DOMAIN items
          /\ items' \in [DOMAIN items' -> Entries]
          /\ \A j \in DOMAIN items : j # i => items'[j] = items[j]
          /\ i \in DOMAIN items => items'[i].busy = FALSE
      BY <2>2, SetBusyShape DEF Failure, TypeOK
    <3>2. shown' = shown /\ failedSince' = failedSince \cup {i}
      BY <2>2 DEF Failure
    <3>3. CardsOK'
      BY <3>1, <3>2 DEF CardsOK
    <3> QED BY <3>1, <3>2, <3>3 DEF TypeOK, ScreenAgrees, Matches
  <2> QED BY <2>1, <2>2
<1>5. TypeOK'
  BY <1>1, <1>2, <1>3, <1>4 DEF TypeOK
<1>6. LoadOK' /\ ScreenAgrees'
  BY <1>1, <1>4 DEF LoadOK, ScreenAgrees, Matches
<1>7. QueueBusyOK'
  <2> SUFFICES ASSUME NEW j \in DOMAIN items', items'[j].busy
               PROVE  \E k \in Lanes : call'[j][k] # NoCall
    BY DEF QueueBusyOK, Outstanding
  <2>1. j # i /\ j \in DOMAIN items /\ j \in Items /\ items[j].busy
    BY <1>4 DEF TypeOK
  <2> QED BY <2>1, <1>2 DEF QueueBusyOK, Outstanding
<1>8. GoneIsDecided'
  BY <1>1, <1>4 DEF GoneIsDecided
<1> QED BY <1>3, <1>4, <1>5, <1>6, <1>7, <1>8

LEMMA StepInv == IInv /\ [Next]_vars => IInv'
<1> SUFFICES ASSUME IInv, [Next]_vars PROVE IInv'
  OBVIOUS
<1>1. CASE UNCHANGED vars
  BY <1>1 DEF vars, IInv, TypeOK, LoadOK, DoneIsDecided, ScreenAgrees,
              QueueBusyOK, CardsOK, Outstanding, GoneIsDecided, Matches
<1>2. CASE Next
  <2>1. "bulk" \in Lanes
    BY DEF Lanes
  <2> QED BY <1>2, <2>1, StepCases, LoadingStep, ClickStep, DecideStep,
             BulkActionStep, BulkDoneStep, BackendStep, AnswerStep
<1> QED BY <1>1, <1>2

LEMMA Invariant == Spec => []IInv
BY InitInv, StepInv, PTL DEF Spec

-----------------------------------------------------------------------------
(* The state of the screen has its shape in every behaviour. *)
THEOREM TypeCorrect == Spec => []TypeOK
<1>1. IInv => TypeOK
  BY DEF IInv
<1> QED BY <1>1, Invariant, PTL

(* applyFilter is called where it must be: but for a bulk action under way, *)
(* the screen shows the queue as the tab selects it.                        *)
THEOREM ScreenShowsQueue == Spec => []ScreenAgrees
<1>1. IInv => ScreenAgrees
  BY DEF IInv
<1> QED BY <1>1, Invariant, PTL

(* The copy of an item that is drawn, and that review.html disables the     *)
(* buttons by: it is busy only while an answer about the item is            *)
(* outstanding, or when one has failed since applyFilter last ran.          *)
THEOREM BusyIsTemporary == Spec => []BusyIsAnswered
<1>1. IInv => BusyIsAnswered
  BY DEF IInv, QueueBusyOK, CardsOK, BusyIsAnswered, Disabled
<1> QED BY <1>1, Invariant, PTL

(* No answer, lost answer or refusal takes an open item out of the queue. *)
THEOREM NothingIsDropped == Spec => []GoneIsDecided
<1>1. IInv => GoneIsDecided
  BY DEF IInv
<1> QED BY <1>1, Invariant, PTL

-----------------------------------------------------------------------------
(* Reports. *)

(* The types of what the service and the dialog keep. *)
ServiceOK ==
  /\ visible \subseteq Targets /\ filed \subseteq Targets
  /\ report \in [Ids -> [status : {"absent"} \cup Tabs, by : {None} \cup Servers]]
  /\ serving \in [Servers -> [step : {"idle", "read", "write"}, id : {None} \cup Ids,
                              outcome : {None} \cup Outcomes]]
  /\ \A s \in Servers : serving[s].step # "idle" =>
       serving[s].id \in Ids /\ serving[s].outcome \in Outcomes

DialogOK ==
  /\ target \in {None} \cup Targets
  /\ sent \in BOOLEAN /\ overtaken \in BOOLEAN
  /\ filing # None =>
       filing \in [target : Targets, step : {"check", "insert", "ok", "failed"}]

(* Of the list: loads and decisions have numbers of their own. *)
LoadRows == [no : Nat \ {0}, tab : Tabs, read : BOOLEAN, got : SUBSET Ids, touched : SUBSET Ids]
DecisionRows == [no : Decisions, id : Ids, made : Nat, answer : {"none", "ok", "failed"}]

ListOK ==
  /\ status \in Tabs /\ loading \in BOOLEAN /\ estranged \subseteq Ids
  /\ rows \subseteq [id : Ids, made : Nat, busy : BOOLEAN]
  /\ listed \in [tab : Tabs, ids : SUBSET Ids]
  /\ loads \subseteq LoadRows /\ decides \subseteq DecisionRows
  /\ loadNo \in Nat /\ shownNo \in Nat /\ decideNo \in Nat

NumbersOK ==
  /\ shownNo <= loadNo
  /\ \A l \in loads : l.no <= loadNo /\ l.no # shownNo
  /\ \A l, m \in loads : l.no = m.no => l = m
  /\ \A d \in decides : d.no <= decideNo /\ d.made <= loadNo
  /\ \A d \in decides, l \in loads : d.made # l.no
  /\ \A d, e \in decides : d.no = e.no => d = e
  /\ \A d, e \in decides : d.id = e.id /\ d.made = e.made => d = e

-----------------------------------------------------------------------------
(* The request under way is about what the dialog is open about, unless it  *)
(* was opened again; and one answered well has stored its report.           *)
FilingOK ==
  /\ filing # None /\ target # None /\ ~overtaken => filing.target = target
  /\ filing # None /\ filing.step = "ok" => filing.target \in filed

(* An answer of at most Limit reports, and the last one asked for: a report *)
(* that did not change since is in it just if it has the status asked for,  *)
(* unless the answer was full before it.                                    *)
LoadsOK ==
  \A l \in loads :
    /\ l.no = loadNo => l.tab = status
    /\ l.read => \A id \in Ids \ l.touched :
         IF id \in l.got THEN report[id].status = l.tab
         ELSE report[id].status # l.tab \/ Beyond(l.got, l.tab, id)

(* The request of an unanswered decision is served for what was clicked. *)
ServedOK ==
  \A s \in Decisions : serving[s].step # "idle" =>
    \E d \in decides : d.no = s /\ d.id = serving[s].id /\ d.answer = "none"

(* The rows shown were made by one load; busy is who waits for an answer. *)
RowsOK ==
  /\ \A r \in rows : r.made = shownNo
  /\ \A r, q \in rows : r.id = q.id => r = q
  /\ \A r \in rows : r.busy <=> \E d \in decides : d.id = r.id /\ d.made = r.made

(* A decision about a report nobody else changed was made on the list as it *)
(* is shown, and its row is there yet.                                      *)
DecisionsOK ==
  \A d \in decides : d.id \notin estranged =>
    /\ d.made = shownNo
    /\ Listed(d.id)
    /\ d.answer = "ok" => report[d.id].status \in Outcomes /\ listed.tab = "open"

(* It was found open, and so the list is one of open reports.               *)
WritesOK ==
  \A s \in Decisions :
    serving[s].step = "write" /\ serving[s].id \notin estranged => listed.tab = "open"

(* The list shown is the answer it was made of, but for the rows whose      *)
(* decision is done and not yet heard of.                                   *)
Lingers(id) == \E d \in decides : d.id = id /\ d.answer = "ok"
RowsFollow ==
  /\ shownNo = loadNo => listed.tab = status
  /\ rows # {} => shownNo # 0
  /\ shownNo # 0 => \A id \in Ids \ estranged :
       IF Listed(id) THEN report[id].status = listed.tab \/ Lingers(id)
       ELSE report[id].status # listed.tab \/ Beyond(listed.ids, listed.tab, id)

ListInv == /\ ListOK /\ NumbersOK /\ LoadsOK /\ ServedOK /\ RowsOK
           /\ DecisionsOK /\ WritesOK /\ RowsFollow
DialogInv == DialogOK /\ FilingOK /\ ThanksAreDue

ReportsInv == ServiceOK /\ DialogInv /\ ListInv

-----------------------------------------------------------------------------
(* Frames: who is not concerned by a step. *)
LEMMA ServiceFrame ==
  ASSUME ServiceOK, UNCHANGED tables
  PROVE  ServiceOK'
BY DEF ServiceOK, tables

LEMMA DialogFrame ==
  ASSUME DialogInv, UNCHANGED <<dialog, filed>>
  PROVE  DialogInv'
BY DEF DialogInv, DialogOK, FilingOK, ThanksAreDue, dialog

LEMMA ListFrame ==
  ASSUME ListInv, UNCHANGED <<report, serving, list, estranged>>
  PROVE  ListInv'
BY DEF ListInv, ListOK, NumbersOK, LoadsOK, ServedOK, RowsOK, DecisionsOK, WritesOK,
       RowsFollow, Listed, Lingers, list

LEMMA InitReportsInv == ReportsInit => ReportsInv
<1> SUFFICES ASSUME ReportsInit PROVE ReportsInv
  OBVIOUS
<1>1. ServiceOK
  BY DEF ReportsInit, ServiceOK, Row, Idle, Request, Tabs
<1>2. DialogInv
  BY DEF ReportsInit, DialogInv, DialogOK, FilingOK, ThanksAreDue
<1>3. ListOK /\ NumbersOK
  BY DEF ReportsInit, ListOK, NumbersOK, Tabs, LoadRows
<1>4. LoadsOK /\ ServedOK /\ RowsOK /\ DecisionsOK /\ WritesOK /\ RowsFollow
  BY DEF ReportsInit, LoadsOK, ServedOK, RowsOK, DecisionsOK, WritesOK, RowsFollow, Idle,
         Request, Servers
<1> QED BY <1>1, <1>2, <1>3, <1>4 DEF ReportsInv, ListInv

-----------------------------------------------------------------------------
(* The dialog. *)
LEMMA DialogStep ==
  ASSUME ReportsInv,
         \/ \E t \in Targets : Open(t)
         \/ Close \/ Submit \/ CreateCheck \/ CreateRefused \/ Submitted \/ SubmitFailed
  PROVE  ReportsInv'
<1> USE DEF ReportsInv, DialogInv, DialogOK, FilingOK, ThanksAreDue, At
<1>1. UNCHANGED tables /\ UNCHANGED list /\ UNCHANGED estranged
  BY DEF Open, Close, Submit, CreateCheck, CreateRefused, Submitted, SubmitFailed
<1>2. ServiceOK' /\ ListInv'
  BY <1>1, ServiceFrame, ListFrame DEF tables
<1>3. filed' = filed
  BY <1>1 DEF tables
<1>4. ASSUME NEW t \in Targets, Open(t) PROVE DialogInv'
  BY <1>3, <1>4 DEF Open
<1>5. ASSUME Close PROVE DialogInv'
  BY <1>3, <1>5 DEF Close
<1>6. ASSUME Submit PROVE DialogInv'
  BY <1>3, <1>6 DEF Submit
<1>7. ASSUME CreateCheck \/ CreateRefused PROVE DialogInv'
  BY <1>3, <1>7 DEF CreateCheck, CreateRefused
<1>8. ASSUME SubmitFailed PROVE DialogInv'
  BY <1>3, <1>8 DEF SubmitFailed
<1>9. ASSUME Submitted PROVE DialogInv'
  <2>1. DialogOK' /\ FilingOK'
    BY <1>3, <1>9 DEF Submitted
  <2>2. target # None /\ ~overtaken => target \in filed
    BY <1>9 DEF Submitted
  <2>3. ThanksAreDue'
    BY <1>3, <1>9, <2>2 DEF Submitted
  <2> QED BY <2>1, <2>3
<1> QED BY <1>2, <1>4, <1>5, <1>6, <1>7, <1>8, <1>9

-----------------------------------------------------------------------------
(* What the helpers return. *)
LEMMA TouchShape ==
  ASSUME loads \subseteq LoadRows, NumbersOK, NEW id \in Ids
  PROVE  /\ Touch(id) \subseteq LoadRows
         /\ \A m \in Touch(id) : \E l \in loads :
              /\ m.no = l.no /\ m.tab = l.tab /\ m.read = l.read /\ m.got = l.got
              /\ m.read => m.touched = l.touched \cup {id}
         /\ \A m, n \in Touch(id) : m.no = n.no => m = n
<1> DEFINE Touched(l) == IF l.read THEN [l EXCEPT !.touched = @ \cup {id}] ELSE l
<1>1. Touch(id) = {Touched(l) : l \in loads}
  BY DEF Touch
<1>2. \A l \in loads :
        /\ Touched(l) \in LoadRows
        /\ Touched(l).no = l.no /\ Touched(l).tab = l.tab /\ Touched(l).read = l.read
        /\ Touched(l).got = l.got
        /\ l.read => Touched(l).touched = l.touched \cup {id}
  BY DEF LoadRows
<1>3. \A l, m \in loads : l.no = m.no => l = m
  BY DEF NumbersOK
<1> HIDE DEF Touched
<1> QED BY <1>1, <1>2, <1>3

LEMMA AnswerShape ==
  ASSUME ListOK, NumbersOK, NEW s \in Servers, NEW a \in {"ok", "failed"}, Answer(s, a)
  PROVE  /\ decides' \subseteq DecisionRows
         /\ \A e \in decides' : \E d \in decides :
              /\ e.no = d.no /\ e.id = d.id /\ e.made = d.made
              /\ e.answer = IF d.no = s THEN a ELSE d.answer
         /\ \A d \in decides : \E e \in decides' :
              /\ e.no = d.no /\ e.id = d.id /\ e.made = d.made
              /\ e.answer = IF d.no = s THEN a ELSE d.answer
         /\ \A d, e \in decides' : d.no = e.no => d = e
<1> DEFINE Told(d) == IF d.no = s THEN [d EXCEPT !.answer = a] ELSE d
<1>1. decides' = {Told(d) : d \in decides}
  BY DEF Answer
<1>2. \A d \in decides :
        /\ Told(d) \in DecisionRows
        /\ Told(d).no = d.no /\ Told(d).id = d.id /\ Told(d).made = d.made
        /\ Told(d).answer = IF d.no = s THEN a ELSE d.answer
  BY DEF ListOK, DecisionRows
<1> HIDE DEF Told
<1> QED BY <1>1, <1>2 DEF NumbersOK

LEMMA AnswerList ==
  ASSUME ReportsInv, NEW s \in Servers, NEW a \in {"ok", "failed"}, Answer(s, a),
         UNCHANGED <<status, rows, loading, loadNo, shownNo, listed, decideNo>>,
         estranged' \subseteq Ids, estranged \subseteq estranged',
         loads' = loads \/ \E id \in Ids : loads' = Touch(id)
  PROVE  ListOK' /\ NumbersOK' /\ ServedOK' /\ RowsOK' /\ WritesOK'
<1> USE DEF ReportsInv, ListInv
<1>1. /\ decides' \subseteq DecisionRows
      /\ \A e \in decides' : \E d \in decides :
           /\ e.no = d.no /\ e.id = d.id /\ e.made = d.made
           /\ e.answer = IF d.no = s THEN a ELSE d.answer
      /\ \A d \in decides : \E e \in decides' :
           /\ e.no = d.no /\ e.id = d.id /\ e.made = d.made
           /\ e.answer = IF d.no = s THEN a ELSE d.answer
      /\ \A d, e \in decides' : d.no = e.no => d = e
  BY AnswerShape
<1>2. /\ loads' \subseteq LoadRows
      /\ \A m \in loads' : \E l \in loads : m.no = l.no
      /\ \A m, n \in loads' : m.no = n.no => m = n
  <2>1. CASE loads' = loads
    BY <2>1 DEF ListOK, NumbersOK
  <2>2. ASSUME NEW id \in Ids, loads' = Touch(id) PROVE <1>2!:
    BY <2>2, TouchShape DEF ListOK
  <2> QED BY <2>1, <2>2
<1>3. ListOK'
  BY <1>1, <1>2 DEF ListOK
<1>4. NumbersOK'
  BY <1>1, <1>2 DEF NumbersOK, ListOK, LoadRows, DecisionRows
<1>5. ServedOK'
  <2>1. SUFFICES ASSUME NEW q \in Decisions, serving'[q].step # "idle"
                 PROVE  \E e \in decides' :
                          e.no = q /\ e.id = serving'[q].id /\ e.answer = "none"
    BY DEF ServedOK
  <2>2. q # s /\ serving'[q] = serving[q]
    BY <2>1 DEF Answer, ServiceOK, Servers, Idle, Request
  <2>3. PICK d \in decides : d.no = q /\ d.id = serving[q].id /\ d.answer = "none"
    BY <2>1, <2>2 DEF ServedOK
  <2> QED BY <1>1, <2>2, <2>3
<1>6. RowsOK'
  BY <1>1 DEF RowsOK
<1>7. WritesOK'
  BY DEF WritesOK, Answer, ServiceOK, Servers, Idle, Request
<1> QED BY <1>3, <1>4, <1>5, <1>6, <1>7

-----------------------------------------------------------------------------
(* The backend: one lemma per statement. *)
LEMMA WithdrawStep ==
  ASSUME ReportsInv, NEW t \in Targets, Withdraw(t)
  PROVE  ReportsInv'
<1>1. ServiceOK'
  BY DEF Withdraw, ReportsInv, ServiceOK
<1>2. DialogInv' /\ ListInv'
  BY DialogFrame, ListFrame DEF Withdraw, ReportsInv
<1> QED BY <1>1, <1>2 DEF ReportsInv

LEMMA ArriveStep ==
  ASSUME ReportsInv, NEW c \in Colleagues, Arrive(c)
  PROVE  ReportsInv'
<1>1. ServiceOK'
  BY DEF Arrive, ReportsInv, ServiceOK, Request, Servers
<1>2. DialogInv'
  BY DialogFrame DEF Arrive, ReportsInv
<1>3. c \notin Decisions
  BY ReportsAssumption
<1>4. ServedOK'
  BY <1>3 DEF Arrive, ReportsInv, ListInv, ServedOK, list, ServiceOK, Servers
<1>5. WritesOK'
  BY <1>3 DEF Arrive, ReportsInv, ListInv, WritesOK, list, ServiceOK, Servers
<1>6. ListInv'
  BY <1>4, <1>5 DEF Arrive, ReportsInv, ListInv, ListOK, NumbersOK, LoadsOK, RowsOK, DecisionsOK,
              RowsFollow, Listed, Lingers, list
<1> QED BY <1>1, <1>2, <1>6 DEF ReportsInv

LEMMA AnswerService ==
  ASSUME ReportsInv, NEW s \in Servers, NEW a, Answer(s, a), UNCHANGED <<visible, report, filed>>
  PROVE  ServiceOK'
BY DEF ReportsInv, ServiceOK, Answer, Idle, Request

(* A failure takes no row from the list. *)
LEMMA FailsStep ==
  ASSUME ReportsInv, NEW s \in Servers, serving[s].step # "idle", Answer(s, "failed"),
         UNCHANGED <<parties, visible, report, filed, dialog, status, rows, loading, loads,
                     loadNo, shownNo, listed, decideNo, estranged>>
  PROVE  ReportsInv'
<1> USE DEF ReportsInv, ListInv
<1>1. \A e \in decides' : \E d \in decides :
        /\ e.id = d.id /\ e.made = d.made
        /\ e.answer = IF d.no = s THEN "failed" ELSE d.answer
  BY AnswerShape
<1>2. ListOK' /\ NumbersOK' /\ ServedOK' /\ RowsOK' /\ WritesOK'
  BY AnswerList DEF ListOK
<1>3. LoadsOK'
  BY DEF LoadsOK
<1>4. DecisionsOK'
  BY <1>1 DEF DecisionsOK, Listed
<1>5. \A id : Lingers(id) <=> Lingers(id)'
  <2>1. \A d \in decides : d.answer = "ok" => d.no # s
    BY DEF ServedOK, NumbersOK, ListOK, DecisionRows
  <2>2. \A d \in decides : \E e \in decides' :
          e.id = d.id /\ e.answer = IF d.no = s THEN "failed" ELSE d.answer
    BY AnswerShape
  <2> QED BY <1>1, <2>1, <2>2 DEF Lingers
<1>6. RowsFollow'
  BY <1>5 DEF RowsFollow, Listed
<1>7. ServiceOK' /\ DialogInv'
  BY AnswerService, DialogFrame
<1> QED BY <1>2, <1>3, <1>4, <1>6, <1>7

LEMMA ResolveReadStep ==
  ASSUME ReportsInv, NEW s \in Servers, ResolveRead(s)
  PROVE  ReportsInv'
<1>1. CASE Answer(s, "failed")
  BY <1>1, FailsStep DEF ResolveRead
<1>2. CASE /\ report[serving[s].id].status = "open"
           /\ serving' = [serving EXCEPT ![s].step = "write"] /\ UNCHANGED decides
  <2>1. ServiceOK'
    BY <1>2 DEF ResolveRead, ReportsInv, ServiceOK
  <2>2. DialogInv'
    BY DialogFrame DEF ResolveRead, ReportsInv
  <2>3. ServedOK'
    BY <1>2 DEF ResolveRead, ReportsInv, ListInv, ServedOK, ServiceOK, Servers
  <2>4. ASSUME s \in Decisions, serving[s].id \notin estranged PROVE listed.tab = "open"
    <3>1. /\ serving[s].step = "read" /\ serving[s].id \in Ids
          /\ report[serving[s].id].status = "open"
      BY <1>2 DEF ResolveRead, ReportsInv, ServiceOK
    <3>2. PICK d \in decides : d.id = serving[s].id
      BY <2>4, <3>1 DEF ReportsInv, ListInv, ServedOK
    <3>3. Listed(d.id) /\ shownNo # 0
      BY <2>4, <3>2 DEF ReportsInv, ListInv, DecisionsOK, RowsFollow, Listed
    <3>4. ~Lingers(d.id)
      BY <2>4, <3>1, <3>2 DEF ReportsInv, ListInv, DecisionsOK, Lingers, Outcomes
    <3> QED BY <2>4, <3>1, <3>2, <3>3, <3>4 DEF ReportsInv, ListInv, RowsFollow
  <2>5. WritesOK'
    BY <1>2, <2>4 DEF ResolveRead, ReportsInv, ListInv, WritesOK, ServiceOK, Servers
  <2>6. ListInv'
    BY <1>2, <2>3, <2>5 DEF ResolveRead, ReportsInv, ListInv, ListOK, NumbersOK, LoadsOK, RowsOK,
                      DecisionsOK, RowsFollow, Listed, Lingers
  <2> QED BY <2>1, <2>2, <2>6 DEF ReportsInv
<1> QED BY <1>1, <1>2 DEF ResolveRead

LEMMA DecideRefusedStep ==
  ASSUME ReportsInv, NEW s \in Servers, DecideRefused(s)
  PROVE  ReportsInv'
BY FailsStep DEF DecideRefused

(* A report changes: every list that was read knows. *)
LEMMA TouchLoads ==
  ASSUME ReportsInv, NEW id \in Ids, NEW v, report' = [report EXCEPT ![id] = v],
         loads' = Touch(id), UNCHANGED <<loadNo, status>>
  PROVE  LoadsOK'
<1>1. \A m \in loads' : \E l \in loads :
        /\ m.no = l.no /\ m.tab = l.tab /\ m.read = l.read /\ m.got = l.got
        /\ m.read => m.touched = l.touched \cup {id}
  BY TouchShape DEF ReportsInv, ListInv, ListOK
<1> QED BY <1>1 DEF LoadsOK, ReportsInv, ListInv, ServiceOK

LEMMA ResolveWriteStep ==
  ASSUME ReportsInv, NEW s \in Servers, ResolveWrite(s)
  PROVE  ReportsInv'
<1> USE DEF ReportsInv, ListInv
<1> DEFINE id == serving[s].id
<1>1. /\ id \in Ids /\ serving[s].outcome \in Outcomes /\ serving[s].step = "write"
      /\ report' = [report EXCEPT ![id] = Row(serving[s].outcome, s)]
      /\ loads' = Touch(id)
  BY DEF ResolveWrite, ServiceOK
<1>2. PICK a \in {"ok", "failed"} :
        /\ Answer(s, a)
        /\ IF a = "ok" /\ s \in Decisions THEN estranged' = estranged
                                           ELSE estranged' = estranged \cup {id}
  BY ReportsAssumption DEF ResolveWrite, Servers
<1>3. ServiceOK'
  BY <1>1, <1>2 DEF ResolveWrite, ServiceOK, Answer, Idle, Request, Row, Tabs
<1>4. DialogInv'
  BY DialogFrame DEF ResolveWrite
<1>5. ListOK' /\ NumbersOK' /\ ServedOK' /\ RowsOK' /\ WritesOK'
  BY <1>1, <1>2, AnswerList DEF ResolveWrite, ListOK
<1>6. LoadsOK'
  BY <1>1, TouchLoads DEF ResolveWrite
<1>7. /\ \A e \in decides' : \E d \in decides :
           /\ e.no = d.no /\ e.id = d.id /\ e.made = d.made
           /\ e.answer = IF d.no = s THEN a ELSE d.answer
      /\ \A d \in decides : \E e \in decides' :
           /\ e.no = d.no /\ e.id = d.id /\ e.made = d.made
           /\ e.answer = IF d.no = s THEN a ELSE d.answer
  BY <1>2, AnswerShape
<1>8. estranged \subseteq estranged' /\ UNCHANGED <<rows, shownNo, listed, loadNo, status>>
  BY <1>2 DEF ResolveWrite
<1>9. /\ report'[id].status \in Outcomes
      /\ \A i \in Ids : i # id => report'[i] = report[i]
  BY <1>1 DEF ServiceOK, Row
<1>10. \A d \in decides : d.no = s => d.id = id
  BY <1>1 DEF ServedOK, NumbersOK, ListOK, DecisionRows
<1>11. DecisionsOK'
  <2>1. SUFFICES ASSUME NEW e \in decides', e.id \notin estranged'
                 PROVE  /\ e.made = shownNo
                        /\ Listed(e.id)
                        /\ e.answer = "ok" => /\ report'[e.id].status \in Outcomes
                                             /\ listed.tab = "open"
    BY <1>8 DEF DecisionsOK, Listed
  <2>2. PICK d \in decides : e.no = d.no /\ e.id = d.id /\ e.made = d.made
                             /\ e.answer = IF d.no = s THEN a ELSE d.answer
    BY <1>7
  <2>3. d.id \notin estranged /\ d.id \in Ids
    BY <1>8, <2>1, <2>2 DEF ListOK, DecisionRows
  <2>4. e.answer = "ok" => report'[e.id].status \in Outcomes /\ listed.tab = "open"
    <3>1. CASE d.no = s
      <4>1. d.id = id /\ s \in Decisions
        BY <1>10, <3>1 DEF ListOK, DecisionRows
      <4> QED BY <1>1, <1>9, <2>2, <2>3, <4>1 DEF WritesOK
    <3>2. CASE d.no # s
      BY <1>9, <2>2, <2>3, <3>2 DEF DecisionsOK
    <3> QED BY <3>1, <3>2
  <2> QED BY <2>2, <2>3, <2>4 DEF DecisionsOK, Listed
<1>12. RowsFollow'
  <2>1. SUFFICES ASSUME shownNo # 0, NEW i \in Ids \ estranged'
                 PROVE  IF Listed(i) THEN report'[i].status = listed.tab \/ Lingers(i)'
                        ELSE report'[i].status # listed.tab \/ Beyond(listed.ids, listed.tab, i)
    BY <1>8 DEF RowsFollow, Listed
  <2>2. CASE i # id
    <3>1. report'[i] = report[i]
      BY <1>9, <2>2
    <3>2. Lingers(i)' <=> Lingers(i)
      BY <1>7, <1>10, <2>2 DEF Lingers
    <3> QED BY <1>8, <2>1, <3>1, <3>2 DEF RowsFollow
  <2>3. CASE i = id
    <3>1. a = "ok" /\ s \in Decisions
      BY <1>2, <2>1, <2>3
    <3>2. PICK d \in decides : d.no = s /\ d.id = id
      BY <1>1, <3>1 DEF ServedOK
    <3>3. Lingers(i)'
      BY <1>7, <2>3, <3>1, <3>2 DEF Lingers
    <3>4. Listed(i)
      BY <1>8, <2>1, <2>3, <3>2 DEF DecisionsOK
    <3> QED BY <3>3, <3>4
  <2> QED BY <2>2, <2>3
<1> QED BY <1>3, <1>4, <1>5, <1>6, <1>11, <1>12

LEMMA CreateInsertStep ==
  ASSUME ReportsInv, CreateInsert
  PROVE  ReportsInv'
<1> USE DEF ReportsInv, ListInv
<1>1. PICK id \in Ids :
        /\ report[id].status = "absent"
        /\ report' = [report EXCEPT ![id] = Row("open", None)]
        /\ estranged' = estranged \cup {id} /\ loads' = Touch(id)
  BY DEF CreateInsert
<1>2. /\ filing # None /\ filing.step = "insert" /\ filed' = filed \cup {filing.target}
      /\ filing \in [target : Targets, step : {"check", "insert", "ok", "failed"}]
  BY DEF CreateInsert, At, DialogInv, DialogOK
<1>3. PICK a \in {"ok", "failed"} : filing' = [filing EXCEPT !.step = a]
  BY DEF CreateInsert
<1>4. ServiceOK'
  BY <1>1, <1>2 DEF CreateInsert, ServiceOK, Row, Tabs
<1>5. DialogInv'
  <2>1. filing'.target = filing.target /\ filing'.step = a
        /\ filing' \in [target : Targets, step : {"check", "insert", "ok", "failed"}]
    BY <1>2, <1>3
  <2>2. UNCHANGED <<target, sent, overtaken>>
    BY DEF CreateInsert
  <2> QED BY <1>2, <2>1, <2>2 DEF DialogInv, DialogOK, FilingOK, ThanksAreDue
<1>6. UNCHANGED <<serving, status, rows, loading, loadNo, shownNo, listed, decides, decideNo>>
  BY DEF CreateInsert
<1>7. LoadsOK'
  BY <1>1, <1>6, TouchLoads
<1>8. /\ loads' \subseteq LoadRows
      /\ \A m \in loads' : \E l \in loads : m.no = l.no
      /\ \A m, n \in loads' : m.no = n.no => m = n
  BY <1>1, TouchShape DEF ListOK
<1>9. ListOK' /\ NumbersOK'
  BY <1>1, <1>6, <1>8 DEF ListOK, NumbersOK, LoadRows, DecisionRows
<1>10. \A i \in Ids : i # id => report'[i] = report[i]
  BY <1>1 DEF ServiceOK
<1>11. ServedOK' /\ RowsOK' /\ WritesOK'
  BY <1>1, <1>6 DEF ServedOK, RowsOK, WritesOK
<1>12. DecisionsOK'
  BY <1>1, <1>6, <1>10 DEF DecisionsOK, Listed, ListOK, DecisionRows
<1>13. RowsFollow'
  BY <1>1, <1>6, <1>10 DEF RowsFollow, Listed, Lingers
<1> QED BY <1>4, <1>5, <1>7, <1>9, <1>11, <1>12, <1>13

-----------------------------------------------------------------------------
(* The list. *)
LEMMA ShowStep ==
  ASSUME ReportsInv, NEW tab \in Tabs, Show(tab)
  PROVE  ReportsInv'
<1> USE DEF ReportsInv, ListInv
<1>1. ServiceOK' /\ DialogInv'
  BY ServiceFrame, DialogFrame DEF Show, tables
<1>2. UNCHANGED <<report, serving, rows, shownNo, listed, decides, decideNo, estranged>>
  BY DEF Show, tables
<1> DEFINE new == [no |-> loadNo + 1, tab |-> tab, read |-> FALSE, got |-> {}, touched |-> {}]
<1>3. /\ loads' = loads \cup {new} /\ loadNo' = loadNo + 1 /\ status' = tab /\ loading' = TRUE
      /\ loadNo \in Nat /\ shownNo \in Nat /\ shownNo <= loadNo
  BY DEF Show, ListOK, NumbersOK
<1>n. new \in LoadRows /\ new.no = loadNo + 1 /\ new.tab = tab /\ new.read = FALSE
  BY <1>3 DEF LoadRows
<1> HIDE DEF new
<1>4. ListOK'
  BY <1>2, <1>3, <1>n DEF ListOK
<1>5. NumbersOK'
  <2>1. \A l \in loads : l.no \in Nat
    BY DEF ListOK, LoadRows
  <2>2. \A d \in decides : d.no \in Nat /\ d.made \in Nat
    BY ReportsAssumption DEF ListOK, DecisionRows
  <2> QED BY <1>2, <1>3, <1>n, <2>1, <2>2 DEF NumbersOK
<1>6. LoadsOK'
  BY <1>2, <1>3, <1>n DEF LoadsOK, NumbersOK, ListOK, LoadRows
<1>7. ServedOK' /\ RowsOK' /\ WritesOK'
  BY <1>2 DEF ServedOK, RowsOK, WritesOK
<1>8. DecisionsOK' /\ RowsFollow'
  BY <1>2, <1>3 DEF DecisionsOK, RowsFollow, Listed, Lingers
<1> QED BY <1>1, <1>4, <1>5, <1>6, <1>7, <1>8

(* An answer leaves a report out only when it is full before it. *)
LEMMA AnswerIsFirst ==
  ASSUME NEW found \in SUBSET Ids, NEW tab, IsAnswer(found, tab), NEW id \in Ids
  PROVE  IF id \in found THEN report[id].status = tab
         ELSE report[id].status # tab \/ Beyond(found, tab, id)
BY DEF IsAnswer, Beyond

LEMMA FindByStatusStep ==
  ASSUME ReportsInv, NEW l \in loads, FindByStatus(l)
  PROVE  ReportsInv'
<1> USE DEF ReportsInv, ListInv
<1>1. ServiceOK' /\ DialogInv'
  BY ServiceFrame, DialogFrame DEF FindByStatus, tables
<1>2. UNCHANGED <<report, serving, status, rows, loading, loadNo, shownNo, listed, decides,
                  decideNo, estranged>>
  BY DEF FindByStatus, tables
<1>f. PICK found \in SUBSET Ids :
        /\ IsAnswer(found, l.tab)
        /\ loads' = (loads \ {l}) \cup {[l EXCEPT !.read = TRUE, !.got = found]}
  BY DEF FindByStatus
<1> DEFINE m == [l EXCEPT !.read = TRUE, !.got = found]
<1>3. loads' = (loads \ {l}) \cup {m}
  BY <1>f
<1>4. /\ m \in LoadRows /\ m.no = l.no /\ m.tab = l.tab /\ m.got = found
      /\ \A id \in Ids : IF id \in m.got THEN report[id].status = m.tab
                         ELSE report[id].status # m.tab \/ Beyond(m.got, m.tab, id)
  <2>1. m \in LoadRows /\ m.no = l.no /\ m.tab = l.tab /\ m.got = found
    BY <1>f DEF ListOK, LoadRows
  <2> HIDE DEF m
  <2> QED BY <1>f, <2>1, AnswerIsFirst
<1> HIDE DEF m
<1>5. ListOK'
  BY <1>2, <1>3, <1>4 DEF ListOK
<1>6. NumbersOK'
  BY <1>2, <1>3, <1>4 DEF NumbersOK
<1>7. LoadsOK'
  BY <1>2, <1>3, <1>4 DEF LoadsOK
<1>8. ServedOK' /\ RowsOK' /\ DecisionsOK' /\ WritesOK' /\ RowsFollow'
  BY <1>2 DEF ServedOK, RowsOK, DecisionsOK, WritesOK, RowsFollow, Listed, Lingers
<1> QED BY <1>1, <1>5, <1>6, <1>7, <1>8

LEMMA LoadArrivesStep ==
  ASSUME ReportsInv, NEW l \in loads, LoadArrives(l)
  PROVE  ReportsInv'
<1> USE DEF ReportsInv, ListInv
<1>1. ServiceOK' /\ DialogInv'
  BY ServiceFrame, DialogFrame DEF LoadArrives, tables
<1>2. UNCHANGED <<report, serving, status, loadNo, decides, decideNo>>
  BY DEF LoadArrives, tables
<1>3. /\ l.read /\ l \in LoadRows
      /\ rows' = {[id |-> id, made |-> l.no, busy |-> FALSE] : id \in l.got}
      /\ loading' = FALSE /\ loads' = loads \ {l} /\ shownNo' = l.no
      /\ estranged' = l.touched \cup {d.id : d \in decides}
      /\ listed' = [tab |-> l.tab, ids |-> l.got]
  BY DEF LoadArrives, ListOK
<1>r. /\ \A r \in rows' : r.id \in l.got /\ r.made = l.no /\ ~r.busy
      /\ \A r, q \in rows' : r.id = q.id => r = q
      /\ \A id \in l.got : \E r \in rows' : r.id = id
      /\ l.got \subseteq Ids => rows' \subseteq [id : Ids, made : Nat, busy : BOOLEAN]
  <2> DEFINE Fresh(id) == [id |-> id, made |-> l.no, busy |-> FALSE]
  <2>1. rows' = {Fresh(id) : id \in l.got}
    BY <1>3
  <2>2. \A id \in l.got : Fresh(id).id = id /\ Fresh(id).made = l.no /\ ~Fresh(id).busy
    OBVIOUS
  <2>3. l.no \in Nat
    BY <1>3 DEF LoadRows
  <2>4. l.got \subseteq Ids => \A id \in l.got : Fresh(id) \in [id : Ids, made : Nat, busy : BOOLEAN]
    BY <2>3
  <2> HIDE DEF Fresh
  <2> QED BY <2>1, <2>2, <2>4
<1>4. ListOK'
  <2>1. l.no \in Nat /\ l.got \subseteq Ids /\ l.touched \subseteq Ids
    BY <1>3 DEF LoadRows
  <2>2. rows' \subseteq [id : Ids, made : Nat, busy : BOOLEAN]
    BY <1>r, <2>1
  <2>3. estranged' \subseteq Ids
    BY <1>3, <2>1 DEF ListOK, DecisionRows
  <2>4. listed' \in [tab : Tabs, ids : SUBSET Ids]
    BY <1>3, <2>1 DEF LoadRows
  <2> QED BY <1>2, <1>3, <2>1, <2>2, <2>3, <2>4 DEF ListOK
<1>5. NumbersOK'
  BY <1>2, <1>3 DEF NumbersOK
<1>6. LoadsOK' /\ ServedOK'
  BY <1>2, <1>3 DEF LoadsOK, ServedOK
<1>7. RowsOK'
  <2>1. \A d \in decides : d.made # l.no
    BY DEF NumbersOK
  <2> QED BY <1>2, <1>3, <1>r, <2>1 DEF RowsOK
<1>8. DecisionsOK'
  BY <1>2, <1>3 DEF DecisionsOK
<1>9. WritesOK'
  BY <1>2, <1>3 DEF WritesOK, ServedOK
<1>10. RowsFollow'
  <2>1. shownNo' # 0 /\ (shownNo' = loadNo' => listed'.tab = status')
    BY <1>2, <1>3 DEF LoadsOK, LoadRows
  <2>2. SUFFICES ASSUME NEW id \in Ids \ estranged'
                 PROVE  IF Listed(id)' THEN report[id].status = l.tab
                        ELSE report[id].status # l.tab \/ Beyond(l.got, l.tab, id)
    BY <1>2, <1>3, <2>1 DEF RowsFollow, Beyond
  <2>3. Listed(id)' <=> id \in l.got
    BY <1>r DEF Listed
  <2> QED BY <1>3, <2>2, <2>3 DEF LoadsOK
<1> QED BY <1>1, <1>4, <1>5, <1>6, <1>7, <1>8, <1>9, <1>10

LEMMA LoadFailsStep ==
  ASSUME ReportsInv, NEW l \in loads, LoadFails(l)
  PROVE  ReportsInv'
<1>1. ServiceOK' /\ DialogInv'
  BY ServiceFrame, DialogFrame DEF LoadFails, tables, ReportsInv
<1>2. UNCHANGED <<report, serving, status, rows, loadNo, shownNo, listed, decides, decideNo,
                  estranged>>
      /\ loading' = FALSE /\ loads' = loads \ {l}
  BY DEF LoadFails, tables
<1>3. ListOK' /\ NumbersOK' /\ LoadsOK'
  BY <1>2 DEF ReportsInv, ListInv, ListOK, NumbersOK, LoadsOK
<1>4. ServedOK' /\ RowsOK' /\ DecisionsOK' /\ WritesOK' /\ RowsFollow'
  BY <1>2 DEF ReportsInv, ListInv, ServedOK, RowsOK, DecisionsOK, WritesOK, RowsFollow, Listed,
              Lingers
<1> QED BY <1>1, <1>3, <1>4 DEF ReportsInv, ListInv

LEMMA MarkBusyShape ==
  ASSUME ListOK, NEW r \in rows
  PROVE  /\ MarkBusy(r, TRUE) \subseteq [id : Ids, made : Nat, busy : BOOLEAN]
         /\ \A q \in MarkBusy(r, TRUE) : \E o \in rows :
              q.id = o.id /\ q.made = o.made /\ (q.busy <=> (o.busy \/ o = r))
         /\ \A o \in rows : \E q \in MarkBusy(r, TRUE) : q.id = o.id
<1> DEFINE Marked(q) == IF q = r THEN [q EXCEPT !.busy = TRUE] ELSE q
<1>1. MarkBusy(r, TRUE) = {Marked(q) : q \in rows}
  BY DEF MarkBusy
<1>2. \A q \in rows :
        /\ Marked(q) \in [id : Ids, made : Nat, busy : BOOLEAN]
        /\ Marked(q).id = q.id /\ Marked(q).made = q.made
        /\ Marked(q).busy <=> (q.busy \/ q = r)
  BY DEF ListOK
<1> HIDE DEF Marked
<1>3. ASSUME NEW q \in MarkBusy(r, TRUE)
      PROVE  \E o \in rows : q.id = o.id /\ q.made = o.made /\ (q.busy <=> (o.busy \/ o = r))
  <2>1. PICK o \in rows : q = Marked(o)
    BY <1>1
  <2> QED BY <1>2, <2>1
<1>4. ASSUME NEW q \in MarkBusy(r, TRUE)
      PROVE  q \in [id : Ids, made : Nat, busy : BOOLEAN]
  <2>1. PICK o \in rows : q = Marked(o)
    BY <1>1
  <2> QED BY <1>2, <2>1
<1>5. ASSUME NEW o \in rows PROVE \E q \in MarkBusy(r, TRUE) : q.id = o.id
  <2>1. Marked(o) \in MarkBusy(r, TRUE) /\ Marked(o).id = o.id
    BY <1>1, <1>2
  <2> QED BY <2>1
<1> QED BY <1>3, <1>4, <1>5

LEMMA DecideReportStep ==
  ASSUME ReportsInv, NEW r \in rows, DecideReport(r)
  PROVE  ReportsInv'
<1> USE DEF ReportsInv, ListInv
<1>1. UNCHANGED <<visible, report, filed, dialog, status, loading, loads, loadNo, shownNo,
                  listed, estranged>>
  BY DEF DecideReport
<1> DEFINE no == decideNo + 1
           new == [no |-> no, id |-> r.id, made |-> r.made, answer |-> "none"]
<1>2. /\ status = "open" /\ ~r.busy /\ no \in Decisions /\ no \in Servers
      /\ decideNo' = no /\ decides' = decides \cup {new}
      /\ rows' = MarkBusy(r, TRUE)
  BY DEF DecideReport, Servers
<1>3. PICK o \in Outcomes : serving' = [serving EXCEPT ![no] = Request("read", r.id, o)]
  BY DEF DecideReport
<1>4. /\ r.id \in Ids /\ r.made \in Nat /\ r.made = shownNo
      /\ new \in DecisionRows /\ new.no = no /\ new.id = r.id /\ new.made = r.made
      /\ new.answer = "none"
  BY <1>2 DEF ListOK, RowsOK, DecisionRows
<1>5. /\ rows' \subseteq [id : Ids, made : Nat, busy : BOOLEAN]
      /\ \A q \in rows' : \E p \in rows :
           q.id = p.id /\ q.made = p.made /\ (q.busy <=> (p.busy \/ p = r))
      /\ \A p \in rows : \E q \in rows' : q.id = p.id
  <2>1. ListOK
    OBVIOUS
  <2>2. rows' = MarkBusy(r, TRUE)
    BY <1>2
  <2>3. /\ MarkBusy(r, TRUE) \subseteq [id : Ids, made : Nat, busy : BOOLEAN]
        /\ \A q \in MarkBusy(r, TRUE) : \E p \in rows :
             q.id = p.id /\ q.made = p.made /\ (q.busy <=> (p.busy \/ p = r))
        /\ \A p \in rows : \E q \in MarkBusy(r, TRUE) : q.id = p.id
    BY <2>1, MarkBusyShape
  <2> QED BY <2>2, <2>3
<1> HIDE DEF new
<1>6. ServiceOK'
  BY <1>1, <1>2, <1>3, <1>4 DEF ServiceOK, Request
<1>7. DialogInv'
  BY <1>1, DialogFrame
<1>8. decideNo \in Nat /\ \A d \in decides : d.no \in Nat /\ d.no <= decideNo
  BY ReportsAssumption DEF ListOK, NumbersOK, DecisionRows
<1>9. ListOK'
  <2>1. decides' \subseteq DecisionRows
    BY <1>2, <1>4 DEF ListOK
  <2>2. decideNo' \in Nat
    BY <1>2, <1>8
  <2>3. rows' \subseteq [id : Ids, made : Nat, busy : BOOLEAN]
    BY <1>5
  <2> QED BY <1>1, <2>1, <2>2, <2>3 DEF ListOK, dialog
<1>10. \A d \in decides : ~(d.id = r.id /\ d.made = r.made)
  BY <1>2 DEF RowsOK
<1>11. NumbersOK'
  BY <1>1, <1>2, <1>4, <1>8, <1>10 DEF NumbersOK
<1>12. LoadsOK'
  BY <1>1 DEF LoadsOK
<1>13. ServedOK'
  <2>1. \A s \in Decisions : s # no => serving'[s] = serving[s]
    BY <1>3 DEF ServiceOK, Servers
  <2>2. serving'[no].id = r.id
    BY <1>2, <1>3 DEF ServiceOK, Request
  <2> QED BY <1>2, <1>4, <2>1, <2>2 DEF ServedOK
<1>14. RowsOK'
  <2>1. \A q \in rows' : q.made = shownNo
    BY <1>5 DEF RowsOK
  <2>2. \A q, p \in rows' : q.id = p.id => q = p
    BY <1>5 DEF RowsOK
  <2>3. ASSUME NEW q \in rows'
        PROVE  q.busy <=> \E d \in decides' : d.id = q.id /\ d.made = q.made
    <3>1. PICK p \in rows : q.id = p.id /\ q.made = p.made /\ (q.busy <=> (p.busy \/ p = r))
      BY <1>5
    <3> QED BY <1>2, <1>4, <3>1 DEF RowsOK
  <2> QED BY <1>1, <2>1, <2>2, <2>3 DEF RowsOK
<1>15. DecisionsOK'
  <2>1. SUFFICES ASSUME NEW d \in decides', d.id \notin estranged
                 PROVE  /\ d.made = shownNo
                        /\ \E q \in rows' : q.id = d.id
                        /\ d.answer = "ok" => /\ report[d.id].status \in Outcomes
                                             /\ listed.tab = "open"
    BY <1>1 DEF DecisionsOK, Listed
  <2>2. CASE d = new
    <3>1. d.made = shownNo /\ d.answer = "none" /\ d.id = r.id
      BY <1>2, <1>4, <2>2
    <3>2. \E q \in rows' : q.id = d.id
      BY <1>5, <3>1
    <3> QED BY <3>1, <3>2
  <2>3. CASE d \in decides
    BY <1>5, <2>1, <2>3 DEF DecisionsOK, Listed
  <2> QED BY <1>2, <2>2, <2>3
<1>16. RowsFollow'
  <2>1. \A id : Lingers(id)' <=> Lingers(id)
    BY <1>2, <1>4 DEF Lingers
  <2>2. \A id : Listed(id)' <=> Listed(id)
    BY <1>5 DEF Listed
  <2>3. shownNo # 0
    BY DEF RowsFollow
  <2> QED BY <1>1, <2>1, <2>2, <2>3 DEF RowsFollow, Beyond
<1>17. WritesOK'
  BY <1>1, <1>2, <1>3 DEF WritesOK, ServiceOK, Request
<1> QED BY <1>6, <1>7, <1>9, <1>11, <1>12, <1>13, <1>14, <1>15, <1>16, <1>17

LEMMA DecidedStep ==
  ASSUME ReportsInv, NEW d \in decides, Decided(d)
  PROVE  ReportsInv'
<1> USE DEF ReportsInv, ListInv
<1>1. ServiceOK' /\ DialogInv'
  BY ServiceFrame, DialogFrame DEF Decided, tables
<1>2. /\ UNCHANGED <<report, serving, status, loading, loads, loadNo, shownNo, listed, decideNo,
                     estranged>>
      /\ d.answer = "ok" /\ decides' = decides \ {d} /\ rows' = {r \in rows : r.id # d.id}
  BY DEF Decided, tables
<1>3. ListOK' /\ NumbersOK' /\ LoadsOK'
  BY <1>2 DEF ListOK, NumbersOK, LoadsOK
<1>4. ServedOK' /\ WritesOK'
  BY <1>2 DEF ServedOK, WritesOK
<1>5. RowsOK'
  BY <1>2 DEF RowsOK
<1>6. ASSUME NEW e \in decides', e.id \notin estranged PROVE e.id # d.id
  BY <1>2, <1>6 DEF DecisionsOK, NumbersOK
<1>7. DecisionsOK'
  BY <1>2, <1>6 DEF DecisionsOK, Listed
<1>8. RowsFollow'
  <2>1. SUFFICES ASSUME shownNo # 0, NEW id \in Ids \ estranged
                 PROVE  IF Listed(id)' THEN report[id].status = listed.tab \/ Lingers(id)'
                        ELSE report[id].status # listed.tab \/ Beyond(listed.ids, listed.tab, id)
    BY <1>2 DEF RowsFollow, Beyond
  <2>2. CASE id # d.id
    <3>1. Listed(id)' <=> Listed(id)
      BY <1>2, <2>2 DEF Listed
    <3>2. Lingers(id)' <=> Lingers(id)
      BY <1>2, <2>2 DEF Lingers
    <3> QED BY <2>1, <3>1, <3>2 DEF RowsFollow
  <2>3. CASE id = d.id
    <3>1. ~Listed(id)'
      BY <1>2, <2>3 DEF Listed
    <3>2. report[id].status # listed.tab
      BY <1>2, <2>1, <2>3 DEF DecisionsOK, Outcomes
    <3> QED BY <3>1, <3>2
  <2> QED BY <2>2, <2>3
<1> QED BY <1>1, <1>3, <1>4, <1>5, <1>7, <1>8

LEMMA DecideFailsStep ==
  ASSUME ReportsInv, NEW d \in decides, DecideFails(d)
  PROVE  ReportsInv'
<1> USE DEF ReportsInv, ListInv
<1>1. ServiceOK' /\ DialogInv'
  BY ServiceFrame, DialogFrame DEF DecideFails, tables
<1> DEFINE Freed(r) == IF r.id = d.id /\ r.made = d.made THEN [r EXCEPT !.busy = FALSE] ELSE r
<1>2. /\ UNCHANGED <<report, serving, status, loading, loads, loadNo, shownNo, listed, decideNo,
                     estranged>>
      /\ d.answer = "failed" /\ decides' = decides \ {d} /\ rows' = {Freed(r) : r \in rows}
  BY DEF DecideFails, tables
<1>3. \A r \in rows :
        /\ Freed(r) \in [id : Ids, made : Nat, busy : BOOLEAN]
        /\ Freed(r).id = r.id /\ Freed(r).made = r.made
        /\ Freed(r).busy <=> (r.busy /\ ~(r.id = d.id /\ r.made = d.made))
  BY DEF ListOK
<1> HIDE DEF Freed
<1>4. ListOK'
  <2>1. rows' \subseteq [id : Ids, made : Nat, busy : BOOLEAN]
    BY <1>2, <1>3
  <2> QED BY <1>2, <2>1 DEF ListOK
<1>5. NumbersOK' /\ LoadsOK'
  BY <1>2 DEF NumbersOK, LoadsOK
<1>6. ServedOK' /\ WritesOK'
  BY <1>2 DEF ServedOK, WritesOK
<1>7. \A r \in rows' : \E q \in rows : r = Freed(q)
  BY <1>2
<1>8. RowsOK'
  <2>1. \A r \in rows' : r.made = shownNo
    BY <1>3, <1>7 DEF RowsOK
  <2>2. \A r, q \in rows' : r.id = q.id => r = q
    BY <1>3, <1>7 DEF RowsOK
  <2>3. ASSUME NEW r \in rows'
        PROVE  r.busy <=> \E e \in decides' : e.id = r.id /\ e.made = r.made
    <3>1. PICK q \in rows : r = Freed(q)
      BY <1>7
    <3>2. q.busy <=> \E e \in decides : e.id = q.id /\ e.made = q.made
      BY DEF RowsOK
    <3>3. \A e \in decides : e.id = d.id /\ e.made = d.made => e = d
      BY DEF NumbersOK
    <3> QED BY <1>2, <1>3, <3>1, <3>2, <3>3
  <2> QED BY <1>2, <2>1, <2>2, <2>3 DEF RowsOK
<1>9. \A id : Listed(id)' <=> Listed(id)
  BY <1>2, <1>3 DEF Listed
<1>10. DecisionsOK'
  BY <1>2, <1>9 DEF DecisionsOK
<1>11. \A id : Lingers(id)' <=> Lingers(id)
  BY <1>2 DEF Lingers
<1>12. RowsFollow'
  <2>1. rows' # {} => rows # {}
    BY <1>7
  <2> QED BY <1>2, <1>9, <1>11, <2>1 DEF RowsFollow, Beyond
<1> QED BY <1>1, <1>4, <1>5, <1>6, <1>8, <1>10, <1>12

-----------------------------------------------------------------------------
LEMMA ReportsStepInv == ReportsInv /\ [ReportsNext]_reportsVars => ReportsInv'
<1> SUFFICES ASSUME ReportsInv, [ReportsNext]_reportsVars PROVE ReportsInv'
  OBVIOUS
<1>1. CASE UNCHANGED reportsVars
  BY <1>1, ServiceFrame, DialogFrame, ListFrame DEF reportsVars, tables, ReportsInv
<1>2. CASE ReportsNext
  BY <1>2, DialogStep, WithdrawStep, ArriveStep, ResolveReadStep, DecideRefusedStep,
     ResolveWriteStep, CreateInsertStep, ShowStep, FindByStatusStep, LoadArrivesStep,
     LoadFailsStep, DecideReportStep, DecidedStep, DecideFailsStep DEF ReportsNext
<1> QED BY <1>1, <1>2

LEMMA ReportsInductive == ReportsSpec => []ReportsInv
BY InitReportsInv, ReportsStepInv, PTL DEF ReportsSpec

(* The list settles (reports-queue.ts): whichever list was shown last, and  *)
(* however loads, decisions and their answers cross, no row stays busy, and *)
(* for a report that others left alone the row is there just if the report  *)
(* has the status that list was asked for, unless the answer was full       *)
(* before it (findByStatus takes 200 at most).                              *)
THEOREM ReportsListSettles == ReportsSpec => []ListSettles
<1>1. ReportsInv => ListSettles
  BY DEF ReportsInv, ListInv, ListSettles, RowsOK, RowsFollow, Lingers
<1> QED BY <1>1, ReportsInductive, PTL

(* The dialog thanks only for a report that is stored.                      *)
THEOREM ReportsThanksAreDue == ReportsSpec => []ThanksAreDue
<1>1. ReportsInv => ThanksAreDue
  BY DEF ReportsInv, DialogInv
<1> QED BY <1>1, ReportsInductive, PTL

(* A step at a report that is handled, with no request about to write. *)
LEMMA StandsStep ==
  ASSUME ReportsInv, [ReportsNext]_reportsVars, NEW id \in Ids, Handled(id), Racing(id) = {}
  PROVE  Racing(id)' = {} /\ report'[id] = report[id]
<1> USE DEF ReportsInv
<1>1. CASE UNCHANGED <<report, serving>>
  BY <1>1 DEF Racing
<1>2. ASSUME NEW c \in Colleagues, Arrive(c) PROVE Racing(id)' = {} /\ report'[id] = report[id]
  BY <1>2 DEF Arrive, Racing, ServiceOK, Servers, Request
<1>3. ASSUME NEW s \in Servers, NEW a, Answer(s, a), report'[id] = report[id]
      PROVE  Racing(id)' = {} /\ report'[id] = report[id]
  BY <1>3 DEF Racing, ServiceOK, Answer, Idle, Request
<1>4. ASSUME NEW s \in Servers, ResolveRead(s) PROVE Racing(id)' = {} /\ report'[id] = report[id]
  <2>1. CASE report[serving[s].id].status = "open"
    <3>1. serving[s].id # id
      BY <2>1 DEF Handled, Outcomes
    <3> QED BY <1>4, <2>1, <3>1 DEF ResolveRead, Racing, ServiceOK
  <2>2. CASE report[serving[s].id].status # "open"
    BY <1>3, <1>4, <2>2 DEF ResolveRead
  <2> QED BY <2>1, <2>2
<1>5. ASSUME NEW s \in Servers, ResolveWrite(s) PROVE Racing(id)' = {} /\ report'[id] = report[id]
  <2>1. serving[s].id # id
    BY <1>5 DEF ResolveWrite, Racing
  <2>2. report'[id] = report[id]
    BY <1>5, <2>1 DEF ResolveWrite, ServiceOK
  <2> QED BY <1>3, <1>5, <2>2 DEF ResolveWrite
<1>6. ASSUME NEW s \in Servers, DecideRefused(s) PROVE Racing(id)' = {} /\ report'[id] = report[id]
  BY <1>3, <1>6 DEF DecideRefused
<1>7. CASE CreateInsert
  <2>1. UNCHANGED serving /\ report'[id] = report[id]
    BY <1>7 DEF CreateInsert, Handled, Outcomes, ServiceOK
  <2> QED BY <2>1 DEF Racing
<1>8. ASSUME NEW r \in rows, DecideReport(r) PROVE Racing(id)' = {} /\ report'[id] = report[id]
  <2>1. PICK o \in Outcomes : serving' = [serving EXCEPT ![decideNo'] = Request("read", r.id, o)]
    BY <1>8 DEF DecideReport
  <2>2. report' = report
    BY <1>8 DEF DecideReport
  <2> QED BY <2>1, <2>2 DEF Racing, ServiceOK, Request
<1>9. CASE UNCHANGED reportsVars
  BY <1>1, <1>9 DEF reportsVars, tables
<1>10. CASE ReportsNext /\ ~CreateInsert
  <2>1. ASSUME NEW t \in Targets, Withdraw(t) \/ Open(t) PROVE UNCHANGED <<report, serving>>
    BY <2>1 DEF Withdraw, Open, tables
  <2>2. ASSUME Close \/ Submit \/ CreateCheck \/ CreateRefused \/ Submitted \/ SubmitFailed
        PROVE  UNCHANGED <<report, serving>>
    BY <2>2 DEF Close, Submit, CreateCheck, CreateRefused, Submitted, SubmitFailed, tables
  <2>3. ASSUME NEW tab \in Tabs, Show(tab) PROVE UNCHANGED <<report, serving>>
    BY <2>3 DEF Show, tables
  <2>4. ASSUME NEW l \in loads, FindByStatus(l) \/ LoadArrives(l) \/ LoadFails(l)
        PROVE  UNCHANGED <<report, serving>>
    BY <2>4 DEF FindByStatus, LoadArrives, LoadFails, tables
  <2>5. ASSUME NEW d \in decides, Decided(d) \/ DecideFails(d) PROVE UNCHANGED <<report, serving>>
    BY <2>5 DEF Decided, DecideFails, tables
  <2> QED BY <1>1, <1>2, <1>4, <1>5, <1>6, <1>8, <1>10, <2>1, <2>2, <2>3, <2>4, <2>5
          DEF ReportsNext
<1> QED BY <1>7, <1>9, <1>10

(* resolve() reads a report and writes it one statement later, by its id:   *)
(* once it is handled and no request is between the two, its outcome and    *)
(* who stands for it stay for ever, and no request gets that far again.     *)
THEOREM ReportsOutcomeStands == ReportsSpec => OutcomeStands
<1>1. ReportsInv /\ [ReportsNext]_reportsVars
        => [\A id \in Ids : Handled(id) /\ Racing(id) = {}
              => Racing(id)' = {} /\ report'[id] = report[id]]_reportsVars
  BY StandsStep
<1> QED BY <1>1, ReportsInductive, PTL DEF ReportsSpec, OutcomeStands
=============================================================================

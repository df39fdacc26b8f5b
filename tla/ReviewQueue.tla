---------------------------- MODULE ReviewQueue ----------------------------
(***************************************************************************)
(* A reviewer's screen (ReviewComponent): the queue as it was loaded, the  *)
(* part of it on the screen, and the decisions sent to the backend.        *)
(*                                                                         *)
(* The queue is kept twice.  `items` is changed by notes, busy marks and   *)
(* answers; `filteredItems`, which the template draws and hands back to    *)
(* the handlers, is copied from it by applyFilter only.  Single decisions, *)
(* one bulk action and the tabs go on at the same time, and answers come   *)
(* in any order.  What is decided, the sorting and the messages shown make *)
(* no difference to any of this and are left out, as is a reload of the    *)
(* page, which starts the screen afresh.                                   *)
(***************************************************************************)

CONSTANTS
  Items,      \* ids of submissions and edit proposals
  Kind,       \* [Items -> {"poi", "district"}]
  Proposed,   \* the items that are edit proposals
  Notes,      \* what a note can say
  Blank,      \* the empty note
  Clicks      \* bound: single decisions of one item under way at a time

ASSUME QueueAssumption ==
  /\ Kind \in [Items -> {"poi", "district"}]
  /\ Proposed \subseteq Items
  /\ Blank \in Notes
  /\ "bulk" \notin Clicks

VARIABLES
  row,         \* Items -> status in the backend
  load,        \* how far load is: "loading", "ready" or "failed"
  fetched,     \* the lists that have arrived while loading
  got,         \* the items in them
  items,       \* the queue: a function from the ids in it
  shown,       \* filteredItems, likewise
  filter,      \* filterType
  selected,    \* selectedIds
  bulkBusy,    \* a bulk action is under way
  call,        \* Items -> Lanes -> the request that decides the item
  offered,     \* history: the items the queue was loaded with
  failedSince  \* history: items that failed since applyFilter last ran

backend == <<row>>
loader == <<load, fetched, got, offered>>
bulk == <<selected, bulkBusy>>
vars == <<row, load, fetched, got, items, shown, filter, selected, bulkBusy,
          call, offered, failedSince>>

Parts == {"poi", "district", "edits"}
Part(i) == IF i \in Proposed THEN "edits" ELSE Kind[i]
Filters == {"all", "poi", "district", "reports"}
Lanes == Clicks \cup {"bulk"}

Entry == [note |-> Blank, busy |-> FALSE]
NoCall == [step |-> "none", note |-> Blank]
Sent(note) == [step |-> "sent", note |-> note]

Init ==
  /\ row \in [Items -> {"pending", "decided"}]
  /\ load = "loading"
  /\ fetched = {} /\ got = {} /\ offered = {} /\ failedSince = {}
  /\ items = [i \in {} |-> Entry]
  /\ shown = [i \in {} |-> Entry]
  /\ filter = "all"
  /\ selected = {}
  /\ bulkBusy = FALSE
  /\ call = [i \in Items |-> [l \in Lanes |-> NoCall]]

-----------------------------------------------------------------------------
(* The entries that the tab f shows of a queue. *)
Matches(i, f) == f = "all" \/ f = Kind[i]
Filtered(queue, f) ==
  [i \in {j \in DOMAIN queue : Matches(j, f)} |-> queue[i]]

(* applyFilter: the cards are drawn anew. *)
ApplyFilter(queue, f) == shown' = Filtered(queue, f) /\ failedSince' = {}

Without(i) == [j \in DOMAIN items \ {i} |-> items[j]]
SetBusy(i, b) ==
  [j \in DOMAIN items |-> IF j = i THEN [items[j] EXCEPT !.busy = b] ELSE items[j]]
WithNote(i, n) ==
  [j \in DOMAIN items |-> IF j = i THEN [items[j] EXCEPT !.note = n] ELSE items[j]]

(* The card of i is drawn. *)
OnScreen(i) == load # "loading" /\ filter # "reports" /\ i \in DOMAIN shown

-----------------------------------------------------------------------------
(* load: three lists, read by the backend at different times. *)
Fetch(p) ==
  /\ load = "loading" /\ p \notin fetched
  /\ fetched' = fetched \cup {p}
  /\ got' = got \cup {i \in Items : Part(i) = p /\ row[i] = "pending"}
  /\ UNCHANGED <<backend, load, offered, items, shown, filter, bulk, call, failedSince>>

(* Promise.all fails with the first of them; the others are ignored. *)
FetchFails(p) ==
  /\ load = "loading" /\ p \notin fetched
  /\ load' = "failed"
  /\ fetched' = {} /\ got' = {}
  /\ UNCHANGED <<backend, offered, items, shown, filter, bulk, call, failedSince>>

Loaded ==
  /\ load = "loading" /\ fetched = Parts
  /\ load' = "ready"
  /\ items' = [i \in got |-> Entry]
  /\ ApplyFilter(items', filter)
  /\ offered' = got
  /\ fetched' = {} /\ got' = {}
  /\ UNCHANGED <<backend, filter, bulk, call>>

-----------------------------------------------------------------------------
SetFilter(f) ==
  /\ filter' = f
  /\ ApplyFilter(items, f)
  /\ UNCHANGED <<backend, loader, items, bulk, call>>

SetNote(i, n) ==
  /\ OnScreen(i)
  /\ items' = WithNote(i, n)
  /\ UNCHANGED <<backend, loader, shown, filter, bulk, call, failedSince>>

ToggleSelection(i) ==
  /\ OnScreen(i)
  /\ selected' = IF i \in selected THEN selected \ {i} ELSE selected \cup {i}
  /\ UNCHANGED <<backend, loader, items, shown, filter, bulkBusy, call, failedSince>>

SelectAll ==
  /\ filter # "reports" /\ DOMAIN shown # {}
  /\ selected' = DOMAIN shown
  /\ UNCHANGED <<backend, loader, items, shown, filter, bulkBusy, call, failedSince>>

(* decide: both the button and the note are those of the entry drawn. *)
Decide(i) ==
  /\ OnScreen(i) /\ ~shown[i].busy
  /\ \E k \in Clicks :
       /\ call[i][k] = NoCall
       /\ call' = [call EXCEPT ![i][k] = Sent(shown[i].note)]
  /\ items' = SetBusy(i, TRUE)
  /\ UNCHANGED <<backend, loader, shown, filter, bulk, failedSince>>

(* bulkAction: what is selected, shown or not, that the queue still holds. *)
BulkAction ==
  /\ filter # "reports" /\ DOMAIN shown # {}
  /\ selected # {} /\ ~bulkBusy
  /\ bulkBusy' = TRUE
  /\ items' = [i \in DOMAIN items |-> IF i \in selected
                 THEN [items[i] EXCEPT !.busy = TRUE] ELSE items[i]]
  /\ call' = [i \in Items |-> IF i \in selected \cap DOMAIN items
                THEN [call[i] EXCEPT !["bulk"] = Sent(items[i].note)] ELSE call[i]]
  /\ UNCHANGED <<backend, loader, shown, filter, selected, failedSince>>

-----------------------------------------------------------------------------
(* The backend decides: a proposal once, a submission any number of times.  *)
(* The answer can be lost on its way back.                                  *)
Commit(i, l) ==
  /\ call[i][l].step = "sent"
  /\ i \in Proposed => row[i] = "pending"
  /\ row' = [row EXCEPT ![i] = "decided"]
  /\ \E s \in {"done", "failed"} : call' = [call EXCEPT ![i][l].step = s]
  /\ UNCHANGED <<loader, items, shown, filter, bulk, failedSince>>

(* It refuses, fails or is not reached. *)
Refuse(i, l) ==
  /\ call[i][l].step = "sent"
  /\ call' = [call EXCEPT ![i][l].step = "failed"]
  /\ UNCHANGED <<backend, loader, items, shown, filter, bulk, failedSince>>

(* Another reviewer, or enough votes. *)
Elsewhere(i) ==
  /\ row[i] = "pending"
  /\ row' = [row EXCEPT ![i] = "decided"]
  /\ UNCHANGED <<loader, items, shown, filter, bulk, call, failedSince>>

-----------------------------------------------------------------------------
SuccessWithoutRefresh(i, l) ==      \* defect: applyFilter is left to the bulk action
  /\ call[i][l].step = "done"
  /\ call' = [call EXCEPT ![i][l] = NoCall]
  /\ items' = Without(i)
  /\ UNCHANGED <<backend, loader, shown, filter, bulk, failedSince>>

(* next: the item leaves the queue, and the screen at once when it was      *)
(* decided by itself, or when all of the bulk action has ended.             *)
Success(i, l) ==
  /\ call[i][l].step = "done"
  /\ call' = [call EXCEPT ![i][l] = NoCall]
  /\ items' = Without(i)
  /\ IF l = "bulk" THEN UNCHANGED <<shown, failedSince>> ELSE ApplyFilter(items', filter)
  /\ UNCHANGED <<backend, loader, filter, bulk>>

FailureStaysBusy(i, l) ==           \* defect: the busy mark is not taken back
  /\ call[i][l].step = "failed"
  /\ call' = [call EXCEPT ![i][l] = NoCall]
  /\ failedSince' = failedSince \cup {i}
  /\ UNCHANGED <<backend, loader, items, shown, filter, bulk>>

FailureRemoves(i, l) ==             \* defect: bulk items leave whatever the answer
  /\ call[i][l].step = "failed"
  /\ call' = [call EXCEPT ![i][l] = NoCall]
  /\ items' = IF l = "bulk" THEN Without(i) ELSE SetBusy(i, FALSE)
  /\ failedSince' = failedSince \cup {i}
  /\ UNCHANGED <<backend, loader, shown, filter, bulk>>

FailureUnresolved(i, l) ==          \* defect: a failed bulk item never resolves
  /\ call[i][l].step = "failed"
  /\ call' = IF l = "bulk" THEN call ELSE [call EXCEPT ![i][l] = NoCall]
  /\ items' = SetBusy(i, FALSE)
  /\ failedSince' = failedSince \cup {i}
  /\ UNCHANGED <<backend, loader, shown, filter, bulk>>

(* error: the busy mark is taken back in the queue.  applyFilter does not   *)
(* run, so a card that was drawn with the mark keeps it.                    *)
Failure(i, l) ==
  /\ call[i][l].step = "failed"
  /\ call' = [call EXCEPT ![i][l] = NoCall]
  /\ items' = SetBusy(i, FALSE)
  /\ failedSince' = failedSince \cup {i}
  /\ UNCHANGED <<backend, loader, shown, filter, bulk>>

(* Promise.all(promises).then *)
BulkDone ==
  /\ bulkBusy
  /\ \A i \in Items : call[i]["bulk"] = NoCall
  /\ bulkBusy' = FALSE
  /\ selected' = {}
  /\ ApplyFilter(items, filter)
  /\ UNCHANGED <<backend, loader, items, filter, call>>

-----------------------------------------------------------------------------
Next ==
  \/ \E p \in Parts : Fetch(p) \/ FetchFails(p)
  \/ Loaded
  \/ \E f \in Filters : SetFilter(f)
  \/ \E i \in Items, n \in Notes : SetNote(i, n)
  \/ \E i \in Items : ToggleSelection(i) \/ Decide(i) \/ Elsewhere(i)
  \/ SelectAll \/ BulkAction \/ BulkDone
  \/ \E i \in Items, l \in Lanes :
       Commit(i, l) \/ Refuse(i, l) \/ Success(i, l) \/ Failure(i, l)

Spec == Init /\ [][Next]_vars

(* The browser settles every request, with an answer or with an error, and  *)
(* runs the callbacks of what is settled.  What the reviewer does is free.  *)
Fairness ==
  /\ \A p \in Parts : WF_vars(Fetch(p) \/ FetchFails(p))
  /\ WF_vars(Loaded) /\ WF_vars(BulkDone)
  /\ \A i \in Items, l \in Lanes :
       /\ WF_vars(Commit(i, l) \/ Refuse(i, l))
       /\ WF_vars(Success(i, l)) /\ WF_vars(Failure(i, l))

FairSpec == Spec /\ Fairness

-----------------------------------------------------------------------------
Entries == [note : Notes, busy : BOOLEAN]
CallRows == [step : {"none", "sent", "done", "failed"}, note : Notes]

(* The shape of the state.  What is listed, drawn or selected was loaded,   *)
(* and requests of a bulk action go on only while it is under way.          *)
TypeOK ==
  /\ row \in [Items -> {"pending", "decided"}]
  /\ load \in {"loading", "ready", "failed"}
  /\ fetched \subseteq Parts
  /\ got \subseteq Items /\ offered \subseteq Items /\ failedSince \subseteq Items
  /\ DOMAIN items \subseteq offered /\ items \in [DOMAIN items -> Entries]
  /\ DOMAIN shown \subseteq offered /\ shown \in [DOMAIN shown -> Entries]
  /\ filter \in Filters
  /\ selected \subseteq offered
  /\ bulkBusy \in BOOLEAN
  /\ call \in [Items -> [Lanes -> CallRows]]
  /\ \A i \in Items : call[i]["bulk"] # NoCall => bulkBusy

(* review.ts: the queue is kept twice.  Except while a bulk action is under *)
(* way, what is drawn is what the queue holds for the tab: no decided item  *)
(* lingers and none that is open is missing.                                *)
ScreenAgrees ==
  ~bulkBusy => DOMAIN shown = {i \in DOMAIN items : Matches(i, filter)}

Outstanding(i) == \E l \in Lanes : call[i][l] # NoCall

(* The buttons of an item still on the queue are drawn disabled.            *)
Disabled(i) == i \in DOMAIN shown \cap DOMAIN items /\ shown[i].busy

(* review.html disables the buttons of a card by the copy that is drawn.    *)
(* However single and bulk decisions of one item and the tabs overlap, they *)
(* are disabled only while an answer about the item is outstanding, or when *)
(* one has failed since the cards were last drawn (setBusy in the error     *)
(* callbacks writes to the other copy): drawn anew, they are free.          *)
BusyIsAnswered ==
  \A i \in Items : Disabled(i) => Outstanding(i) \/ i \in failedSince

(* review.ts:169, "Could not save your decision. Please try again.": when   *)
(* the answer has failed, the buttons of the card can be pressed again.     *)
FailureFreesTheCard == \A i \in Items : Disabled(i) => Outstanding(i)

(* An item leaves the queue only when it is decided: a lost, refused or     *)
(* failed request leaves it there.                                          *)
GoneIsDecided ==
  \A i \in offered \ DOMAIN items : row[i] = "decided"

(* Loading ends, and a bulk action ends and gives its buttons back,         *)
(* whatever becomes of the requests.  So does the busy mark of an item: the *)
(* one in the queue goes away for good, and the card drawn with it is freed *)
(* or left over by a failure until the cards are drawn anew.                *)
ScreenSettles ==
  /\ load = "loading" ~> load # "loading"
  /\ bulkBusy ~> ~bulkBusy
  /\ \A i \in Items :
       /\ (i \in DOMAIN items /\ items[i].busy)
            ~> ~(i \in DOMAIN items /\ items[i].busy)
       /\ Disabled(i) ~> (~Disabled(i) \/ i \in failedSince)
=============================================================================

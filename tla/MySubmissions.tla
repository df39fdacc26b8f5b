---------------------------- MODULE MySubmissions ----------------------------
(***************************************************************************)
(* The page of a person's own submissions (my-submissions.ts), the update  *)
(* and delete handlers it calls, and what the public then sees of the      *)
(* author (public-serializer.ts).                                          *)
(*                                                                         *)
(* The page keeps the list it loaded last; one form serves every row, its  *)
(* Save button is not locked while a save is under way, and the answer of  *)
(* a save closes whatever edit is open by then.  Lists are two requests    *)
(* waited for together, and an older pair can be answered last.            *)
(***************************************************************************)
EXTENDS Integers, FiniteSets

CONSTANTS
  Places, Areas,   \* the author's submissions, by kind
  Anonymous,       \* those made with "hide my name"
  Typed,           \* what can be typed into the form; "first" is what is there at first
  Sends,        \* bound: 1..n, the saves and deletions sent from the page
  Reviews,         \* bound: decisions and removals made by moderators
  Nothing

Ids == Places \cup Areas
Kinds == {"poi", "district"}
Of(kind) == IF kind = "poi" THEN Places ELSE Areas

ASSUME MySubmissionsAssumption ==
  /\ Places \cap Areas = {} /\ Anonymous \subseteq Ids
  /\ Sends \subseteq Nat \ {0} /\ Reviews \in Nat
  /\ "first" \notin Typed /\ Nothing \notin Ids

VARIABLES
  admin,       \* the author has the role the delete route asks for; stays
  row,         \* Ids -> [status, text, anonymous], status "absent" once deleted
  reviews,     \* decisions made by moderators
  rows,        \* page: set of [id, status, text]
  loading,     \* page: it shows "Loading"
  editing,     \* page: the row the form is open for, or Nothing (editingRow)
  form,        \* page: what is in the form, or Nothing when it was reset
  deleting,    \* page: the id to confirm, or Nothing (deletingId)
  loads,       \* pairs of lists not answered yet
  loadNo,      \* pairs asked for
  shownNo,     \* the pair whose rows are shown
  requests,    \* saves and deletions not answered yet
  requestNo,   \* saves and deletions sent
  estranged    \* history: rows changed without the page being told

page == <<rows, loading, editing, form, deleting, shownNo>>
backend == <<row, reviews>>
pageVars == <<admin, backend, page, loads, loadNo, requests, requestNo, estranged>>

Text(id, t) == [of |-> id, is |-> t]
View(id) == [id |-> id, status |-> row[id].status, text |-> row[id].text]
InTable(id) == row[id].status # "absent"

Load(no) == [no |-> no, unread |-> Kinds, got |-> {}, touched |-> {}]

PageInit ==
  /\ admin \in BOOLEAN
  /\ row = [id \in Ids |-> [status |-> "pending", text |-> Text(id, "first"),
                            anonymous |-> id \in Anonymous]]
  /\ reviews = 0
  /\ rows = {} /\ loading = TRUE
  /\ editing = Nothing /\ form = Nothing /\ deleting = Nothing
  /\ loads = {Load(1)} /\ loadNo = 1 /\ shownNo = 0
  /\ requests = {} /\ requestNo = 0
  /\ estranged = {}

-----------------------------------------------------------------------------
(* The lists.  Every pair of which the kind of id has been read by now     *)
(* lacks the change of id.                                                 *)
Touch(id) ==
  {IF \E k \in Kinds \ l.unread : id \in Of(k) THEN [l EXCEPT !.touched = @ \cup {id}] ELSE l : l \in loads}

(* findMine: whatever the status is. *)
ToRows(l, kind) ==
  /\ kind \in l.unread
  /\ loads' = (loads \ {l}) \cup
       {[l EXCEPT !.unread = @ \ {kind}, !.got = @ \cup {View(id) : id \in {i \in Of(kind) : InTable(i)}}]}
  /\ UNCHANGED <<admin, backend, page, loadNo, requests, requestNo, estranged>>

LoadArrives(l) ==
  /\ l.unread = {}
  /\ rows' = l.got /\ loading' = FALSE
  /\ loads' = loads \ {l} /\ shownNo' = l.no
  /\ estranged' = l.touched
  /\ UNCHANGED <<admin, backend, editing, form, deleting, loadNo, requests, requestNo>>

(* One of the two failed; the answer of the other is not looked at. *)
LoadFails(l) ==
  /\ loading' = FALSE
  /\ loads' = loads \ {l}
  /\ UNCHANGED <<admin, backend, rows, editing, form, deleting, shownNo, loadNo, requests,
                 requestNo, estranged>>

Reload ==
  /\ loading' = TRUE
  /\ loadNo' = loadNo + 1
  /\ loads' = loads \cup {Load(loadNo + 1)}

-----------------------------------------------------------------------------
(* The form.  The overlay behind it does not keep the keyboard out, so     *)
(* another row can be taken up while one is open.                          *)
PendingRows == IF loading THEN {} ELSE {r \in rows : r.status = "pending"}

StartEditUnfilled(r) ==    \* defect: the form keeps what the row before left in it
  /\ r \in PendingRows
  /\ editing' = r
  /\ form' = IF form = Nothing THEN r.text ELSE form
  /\ UNCHANGED <<admin, backend, rows, loading, deleting, loads, loadNo, shownNo, requests,
                 requestNo, estranged>>

StartEdit(r) ==
  /\ r \in PendingRows
  /\ editing' = r /\ form' = r.text
  /\ UNCHANGED <<admin, backend, rows, loading, deleting, loads, loadNo, shownNo, requests,
                 requestNo, estranged>>

Type(t) ==
  /\ editing # Nothing
  /\ form' = Text(editing.id, t)
  /\ UNCHANGED <<admin, backend, rows, loading, editing, deleting, loads, loadNo, shownNo,
                 requests, requestNo, estranged>>

CancelEdit ==
  /\ editing # Nothing
  /\ editing' = Nothing /\ form' = Nothing
  /\ UNCHANGED <<admin, backend, rows, loading, deleting, loads, loadNo, shownNo, requests,
                 requestNo, estranged>>

Send(call, id, text) ==
  /\ requestNo + 1 \in Sends /\ requestNo' = requestNo + 1
  /\ requests' = requests \cup {[no |-> requestNo', call |-> call, id |-> id, text |-> text,
                                 step |-> "read"]}
  /\ UNCHANGED <<admin, backend, page, loads, loadNo, estranged>>

(* A form that was reset has no name and is invalid. *)
SaveEdit == editing # Nothing /\ form # Nothing /\ Send("update", editing.id, form)

StartDelete(r) ==
  /\ r \in PendingRows
  /\ deleting' = r.id
  /\ UNCHANGED <<admin, backend, rows, loading, editing, form, loads, loadNo, shownNo,
                 requests, requestNo, estranged>>

CancelDelete ==
  /\ deleting # Nothing /\ deleting' = Nothing
  /\ UNCHANGED <<admin, backend, rows, loading, editing, form, loads, loadNo, shownNo,
                 requests, requestNo, estranged>>

(* The question is put about the row of that id in the list as it is now. *)
ConfirmDelete == \E r \in rows : r.id = deleting /\ Send("delete", r.id, Nothing)

-----------------------------------------------------------------------------
(* The handlers, as far as this page sees them; Moderation has them in full. *)
Goto(q, step) == requests' = (requests \ {q}) \cup {[q EXCEPT !.step = step]}

(* Not logged in any more, too many requests, or it does not get there. *)
Refused(q) ==
  /\ q.step = "read"
  /\ Goto(q, "failed")
  /\ UNCHANGED <<admin, backend, page, loads, loadNo, requestNo, estranged>>

UpdateRead(q) ==
  /\ q.call = "update" /\ q.step = "read"
  /\ Goto(q, IF row[q.id].status = "pending" THEN "write" ELSE "failed")
  /\ UNCHANGED <<admin, backend, page, loads, loadNo, requestNo, estranged>>

(* The answer of a write can be lost; the page is not told then. *)
Written(q) ==
  /\ loads' = Touch(q.id)
  /\ \/ Goto(q, "ok") /\ UNCHANGED estranged
     \/ Goto(q, "failed") /\ estranged' = estranged \cup {q.id}

(* The page sends what its form has.  For whatever else a submission holds, *)
(* the hidden name with it, the handler writes the default.                 *)
UpdateWrite(q) ==
  /\ q.call = "update" /\ q.step = "write"
  /\ row' = IF InTable(q.id)
            THEN [row EXCEPT ![q.id].text = q.text, ![q.id].anonymous = FALSE] ELSE row
  /\ Written(q)
  /\ UNCHANGED <<admin, reviews, page, loadNo, requestNo>>

(* RolesGuard, then delete(): a pending row of one's own is deleted, a row  *)
(* that is not pending any more is rejected.                                *)
DeleteRead(q) ==
  /\ q.call = "delete" /\ q.step = "read"
  /\ Goto(q, CASE ~admin \/ ~InTable(q.id) -> "failed"
               [] admin /\ row[q.id].status = "pending" -> "drop"
               [] OTHER -> "reject")
  /\ UNCHANGED <<admin, backend, page, loads, loadNo, requestNo, estranged>>

DeleteWrite(q) ==
  /\ q.step \in {"drop", "reject"}
  /\ row' = IF InTable(q.id)
            THEN [row EXCEPT ![q.id].status = IF q.step = "drop" THEN "absent" ELSE "rejected"]
            ELSE row
  /\ Written(q)
  /\ UNCHANGED <<admin, reviews, page, loadNo, requestNo>>

(* Moderators at work elsewhere: review() sets either outcome, a removal    *)
(* rejects.                                                                 *)
Review(id, status) ==
  /\ InTable(id) /\ reviews < Reviews
  /\ reviews' = reviews + 1
  /\ row' = [row EXCEPT ![id].status = status]
  /\ loads' = Touch(id) /\ estranged' = estranged \cup {id}
  /\ UNCHANGED <<admin, page, loadNo, requests, requestNo>>

-----------------------------------------------------------------------------
(* The answers. *)
Settles(q, step) == q.step = step /\ requests' = requests \ {q}

OnSavedUnloaded(q) ==    \* defect: the list is left as it was
  /\ q.call = "update" /\ Settles(q, "ok")
  /\ editing' = Nothing
  /\ UNCHANGED <<admin, backend, rows, loading, form, deleting, shownNo, loads, loadNo,
                 requestNo, estranged>>

(* Whatever is being edited by now is closed; what it has typed stays in    *)
(* the form until the next row is taken up.                                 *)
OnSaved(q) ==
  /\ q.call = "update" /\ Settles(q, "ok")
  /\ editing' = Nothing
  /\ Reload
  /\ UNCHANGED <<admin, backend, rows, form, deleting, shownNo, requestNo, estranged>>

OnSaveFails(q) ==
  /\ q.call = "update" /\ Settles(q, "failed")
  /\ UNCHANGED <<admin, backend, page, loads, loadNo, requestNo, estranged>>

OnDeleted(q) ==
  /\ q.call = "delete" /\ Settles(q, "ok")
  /\ deleting' = Nothing
  /\ Reload
  /\ UNCHANGED <<admin, backend, rows, editing, form, shownNo, requestNo, estranged>>

OnDeleteFails(q) ==
  /\ q.call = "delete" /\ Settles(q, "failed")
  /\ deleting' = Nothing
  /\ UNCHANGED <<admin, backend, rows, loading, editing, form, shownNo, loads, loadNo,
                 requestNo, estranged>>

PageNext ==
  \/ \E l \in loads : (\E k \in Kinds : ToRows(l, k)) \/ LoadArrives(l) \/ LoadFails(l)
  \/ \E r \in rows : StartEdit(r) \/ StartDelete(r)
  \/ \E t \in Typed : Type(t)
  \/ CancelEdit \/ SaveEdit \/ CancelDelete \/ ConfirmDelete
  \/ \E q \in requests :
       \/ Refused(q) \/ UpdateRead(q) \/ UpdateWrite(q) \/ DeleteRead(q) \/ DeleteWrite(q)
       \/ OnSaved(q) \/ OnSaveFails(q) \/ OnDeleted(q) \/ OnDeleteFails(q)
  \/ \E id \in Ids, s \in {"approved", "rejected"} : Review(id, s)

PageSpec == PageInit /\ [][PageNext]_pageVars

-----------------------------------------------------------------------------
(* When every answer is in and the pair of lists asked for last is the one  *)
(* shown, the page has of each submission what is stored of it; unless a    *)
(* moderator changed it since, or a write was done whose answer was lost.   *)
ListAgrees ==
  loads = {} /\ requests = {} /\ shownNo = loadNo
    => \A id \in Ids \ estranged :
         {r \in rows : r.id = id} = IF InTable(id) THEN {View(id)} ELSE {}

(* What is stored under a submission, or on its way there, was typed for    *)
(* it, though all rows share one form and saves are answered late.          *)
TypedForThisRow ==
  /\ \A id \in Ids : row[id].text.of = id
  /\ \A q \in requests : q.call = "update" => q.text.of = q.id

(* Who is given the name of the author along with a submission. *)
Viewers == {"guest", "member", "author", "moderator"}
ShowsAuthor(viewer, id) == row[id].anonymous => viewer \in {"author", "moderator"}

(* findVisibleById; the lists of published and of pending submissions.      *)
Visible(viewer, id) ==
  /\ InTable(id)
  /\ row[id].status \in {"approved", "pending"} \/ viewer \in {"author", "moderator"}

(* public-serializer.ts:61: isAnonymous hides the author from everyone      *)
(* except the author and moderators.                                        *)
AnonymityKept ==
  \A id \in Anonymous, v \in Viewers \ {"author", "moderator"} :
    ~(Visible(v, id) /\ ShowsAuthor(v, id))
=============================================================================

------------------------------ MODULE MapEditor ------------------------------
(***************************************************************************)
(* Contributing on the map (frontend map.ts): drawing a place or a         *)
(* district makes a draft with a form; "Suggest edit" in the popup of a    *)
(* public entry opens a second form, whose geometry is changed by dragging *)
(* a pin or by redrawing; both forms are sent and stay open until the      *)
(* server has answered.  A stored draft makes MapLayers load the public    *)
(* lists again.                                                            *)
(*                                                                         *)
(* People go on while a request is under way: they cancel, draw something  *)
(* else, open another entry.  A piece of work is a draft or an opened edit *)
(* form; works are numbered in the order they are begun.                   *)
(***************************************************************************)
EXTENDS MapView

ASSUME MapEditorAssumption ==
  None \notin [work : Nat, kind : Kinds] /\ None \notin [work : Nat, entry : Entries]

VARIABLES
  work,            \* pieces of work begun
  drawing,         \* kinds whose draw handler is enabled
  draft,           \* the draft, or None
  submitting,
  editingTarget,   \* the edit form that is open, or None
  editGeometry,    \* whose location or area the edit form holds: an entry, or None
  editGeometryMode,
  pin,             \* the entry whose pin can be dragged, or None
  editSubmitting,
  posts,           \* submissions and proposals not answered yet
  sent,            \* number of work -> times it was sent
  saved,           \* number of work -> times the server stored it
  proposals,       \* the server: proposals, as <<target, whose geometry>>
  dropped,         \* history: work its owner cancelled or replaced
  crossed,         \* history: work begun while one of the same form was under way
  lost             \* history: work stored by a request whose answer was lost

forms == <<drawing, draft, submitting, editingTarget, editGeometry, editGeometryMode, pin,
           editSubmitting>>
wire == <<posts, sent, saved, proposals, lost>>
fate == <<work, dropped, crossed>>
mapVars == <<layerVars, viewVars, forms, wire, fate>>

Works == 1..visit.work
Post(w, n, target, geometry) ==
  [work |-> w, no |-> n, target |-> target, geometry |-> geometry, answer |-> "none"]

MapInit ==
  /\ LayersInit /\ ViewInit
  /\ work = 0 /\ drawing = {}
  /\ draft = None /\ submitting = FALSE
  /\ editingTarget = None /\ editGeometry = None /\ editGeometryMode = "none" /\ pin = None
  /\ editSubmitting = FALSE
  /\ posts = {} /\ proposals = {}
  /\ sent = [w \in Works |-> 0] /\ saved = [w \in Works |-> 0]
  /\ dropped = {} /\ crossed = {} /\ lost = {}

-----------------------------------------------------------------------------
(* A new piece of work takes the place of old in its form. *)
Begin(old, underWay) ==
  /\ work < visit.work /\ work' = work + 1
  /\ dropped' = IF old = None THEN dropped ELSE dropped \cup {old.work}
  /\ crossed' = IF underWay THEN crossed \cup {work + 1} ELSE crossed
Drop(old) ==
  /\ dropped' = dropped \cup {old.work}
  /\ UNCHANGED <<work, crossed>>

(* The buttons, and the toolbar of the drawing library, which knows nothing *)
(* of the handler the buttons enabled and may leave it on.                  *)
StartDrawing(k) ==
  /\ Done("draw") /\ drawing' \in {{k}, drawing \cup {k}} /\ drawing' # drawing
  /\ UNCHANGED <<layerVars, draft, submitting, editingTarget, editGeometry, editGeometryMode,
                 pin, editSubmitting, wire, fate>>

CancelDrawing ==
  /\ drawing # {} /\ drawing' = {}
  /\ UNCHANGED <<layerVars, draft, submitting, editingTarget, editGeometry, editGeometryMode,
                 pin, editSubmitting, wire, fate>>

Redrawing == editGeometryMode = "redraw" /\ editingTarget # None

(* onShapeCreated: a shape is the new area of the district being edited, or *)
(* it is the beginning of a draft.                                          *)
ShapeForEdit(k) ==
  /\ k \in drawing /\ drawing' = drawing \ {k}
  /\ Redrawing
  /\ IF k = "district"
     THEN /\ editGeometry' = editingTarget.entry
          /\ editGeometryMode' = "none" /\ pin' = None
     ELSE UNCHANGED <<editGeometry, editGeometryMode, pin>>
  /\ UNCHANGED <<layerVars, draft, submitting, editingTarget, editSubmitting, wire, fate>>

ShapeForDraft(k) ==
  /\ k \in drawing /\ drawing' = drawing \ {k}
  /\ ~Redrawing
  /\ Begin(draft, submitting)
  /\ draft' = [work |-> work + 1, kind |-> k]
  /\ UNCHANGED <<layerVars, submitting, editingTarget, editGeometry, editGeometryMode,
                 pin, editSubmitting, wire>>

CancelDraft ==
  /\ draft # None /\ draft' = None
  /\ Drop(draft)
  /\ UNCHANGED <<layerVars, drawing, submitting, editingTarget, editGeometry,
                 editGeometryMode, pin, editSubmitting, wire>>

Send(w, target, geometry) ==
  /\ sent[w] < visit.sends
  /\ sent' = [sent EXCEPT ![w] = @ + 1]
  /\ posts' = posts \cup {Post(w, sent[w] + 1, target, geometry)}
  /\ UNCHANGED <<saved, proposals, lost>>

Submit ==
  /\ draft # None /\ ~submitting
  /\ submitting' = TRUE
  /\ Send(draft.work, None, None)
  /\ UNCHANGED <<layerVars, drawing, draft, editingTarget, editGeometry, editGeometryMode,
                 pin, editSubmitting, fate>>

-----------------------------------------------------------------------------
(* clearEditGeometry also takes the pin off the map. *)
ClearEditGeometry == editGeometry' = None /\ editGeometryMode' = "none" /\ pin' = None

StartEditKeepingPin(e) ==    \* defect: the geometry is replaced, the pin stays
  /\ Done("edit") /\ e \in publicLayer
  /\ Begin(editingTarget, editSubmitting)
  /\ editingTarget' = [work |-> work + 1, entry |-> e]
  /\ editGeometry' = e /\ editGeometryMode' = "none" /\ UNCHANGED pin
  /\ UNCHANGED <<layerVars, drawing, draft, submitting, editSubmitting, wire>>

StartEditProposal(e) ==
  /\ Done("edit") /\ e \in publicLayer
  /\ Begin(editingTarget, editSubmitting)
  /\ editingTarget' = [work |-> work + 1, entry |-> e]
  /\ editGeometry' = e /\ editGeometryMode' = "none" /\ pin' = None
  /\ UNCHANGED <<layerVars, drawing, draft, submitting, editSubmitting, wire>>

CancelEditProposal ==
  /\ editingTarget # None /\ editingTarget' = None
  /\ ClearEditGeometry
  /\ Drop(editingTarget)
  /\ UNCHANGED <<layerVars, drawing, draft, submitting, editSubmitting, wire>>

StartMovePoi ==
  /\ editingTarget # None /\ editingTarget.entry \in Pois
  /\ editGeometry # None /\ editGeometryMode # "move"
  /\ pin' = editingTarget.entry /\ editGeometryMode' = "move"
  /\ UNCHANGED <<layerVars, drawing, draft, submitting, editingTarget, editGeometry,
                 editSubmitting, wire, fate>>

(* dragend: the pin can be moved as long as it is on the map. *)
DragPin ==
  /\ pin # None
  /\ editGeometry' = IF editGeometry = None THEN None ELSE pin
  /\ UNCHANGED <<layerVars, drawing, draft, submitting, editingTarget, editGeometryMode,
                 pin, editSubmitting, wire, fate>>

StartRedrawDistrict ==
  /\ editingTarget # None /\ editingTarget.entry \in Districts
  /\ editGeometryMode # "redraw"
  /\ editGeometryMode' = "redraw" /\ pin' = None
  /\ UNCHANGED <<layerVars, drawing, draft, submitting, editingTarget, editGeometry,
                 editSubmitting, wire, fate>>

SubmitEditProposal ==
  /\ editingTarget # None /\ ~editSubmitting
  /\ editSubmitting' = TRUE
  /\ Send(editingTarget.work, editingTarget.entry, editGeometry)
  /\ UNCHANGED <<layerVars, drawing, draft, submitting, editingTarget, editGeometry,
                 editGeometryMode, pin, fate>>

-----------------------------------------------------------------------------
(* The server stores what was sent or refuses it; the answer may be lost. *)
ServePost(p) ==
  /\ p \in posts /\ p.answer = "none"
  /\ \/ /\ saved' = [saved EXCEPT ![p.work] = @ + 1]
        /\ proposals' = IF p.target = None THEN proposals
                        ELSE proposals \cup {<<p.target, p.geometry>>}
        /\ \/ posts' = (posts \ {p}) \cup {[p EXCEPT !.answer = "ok"]} /\ UNCHANGED lost
           \/ /\ posts' = (posts \ {p}) \cup {[p EXCEPT !.answer = "failed"]}
              /\ lost' = lost \cup {p.work}
     \/ /\ posts' = (posts \ {p}) \cup {[p EXCEPT !.answer = "failed"]}
        /\ UNCHANGED <<saved, proposals, lost>>
  /\ UNCHANGED <<layerVars, forms, sent, fate>>

Comes(p, answer) ==
  /\ p \in posts /\ p.answer = answer /\ posts' = posts \ {p}
  /\ UNCHANGED <<sent, saved, proposals, lost, fate>>

(* reloadStats: the lists are asked for once more. *)
OnSubmitted(p) ==
  /\ p.target = None /\ Comes(p, "ok")
  /\ submitting' = FALSE /\ draft' = None
  /\ IF loaded < visit.loads
     THEN loaded' = loaded + 1 /\ loads' = loads \cup LoadApproved(loaded + 1)
     ELSE UNCHANGED <<loaded, loads>>
  /\ UNCHANGED <<visit, stored, filter, all, publicLayer, pendingLayer, clicks, timers,
                 drawing, editingTarget, editGeometry, editGeometryMode, pin, editSubmitting>>

OnSubmitErrorClearing(p) ==    \* defect: the form is cleared whatever the answer
  /\ p.target = None /\ Comes(p, "failed")
  /\ submitting' = FALSE /\ draft' = None
  /\ UNCHANGED <<layerVars, drawing, editingTarget, editGeometry, editGeometryMode,
                 pin, editSubmitting>>

OnSubmitError(p) ==
  /\ p.target = None /\ Comes(p, "failed")
  /\ submitting' = FALSE
  /\ UNCHANGED <<layerVars, drawing, draft, editingTarget, editGeometry, editGeometryMode,
                 pin, editSubmitting>>

EditSubmitted(p) ==
  /\ p.target # None /\ Comes(p, "ok")
  /\ editSubmitting' = FALSE /\ editingTarget' = None
  /\ ClearEditGeometry
  /\ UNCHANGED <<layerVars, drawing, draft, submitting>>

EditSubmitError(p) ==
  /\ p.target # None /\ Comes(p, "failed")
  /\ editSubmitting' = FALSE
  /\ UNCHANGED <<layerVars, drawing, draft, submitting, editingTarget, editGeometry,
                 editGeometryMode, pin>>

EditorNext ==
  \/ \E k \in Kinds : StartDrawing(k) \/ ShapeForEdit(k) \/ ShapeForDraft(k)
  \/ CancelDrawing \/ CancelDraft \/ Submit
  \/ \E e \in Entries : StartEditProposal(e)
  \/ CancelEditProposal \/ StartMovePoi \/ DragPin \/ StartRedrawDistrict
  \/ SubmitEditProposal
  \/ \E p \in posts : \/ ServePost(p) \/ OnSubmitted(p) \/ OnSubmitError(p)
                      \/ EditSubmitted(p) \/ EditSubmitError(p)

MapNext ==
  \/ EditorNext /\ UNCHANGED viewVars
  \/ ViewNext /\ UNCHANGED <<forms, wire, fate>>

MapSpec == MapInit /\ [][MapNext]_mapVars

-----------------------------------------------------------------------------
(* What somebody drew or opened is still in its form, was given up by them, *)
(* or is stored: a failed or lost answer costs nothing.  And it is stored   *)
(* once, however often the button is pressed, unless an answer was lost and *)
(* the form sent again.  The exception is work begun while the one before   *)
(* it was being sent: the success of the earlier one clears the form,       *)
(* whatever is in it by then.                                               *)
NothingLostOrDoubled ==
  \A w \in 1..work :
    /\ \/ draft # None /\ draft.work = w
       \/ editingTarget # None /\ editingTarget.work = w
       \/ w \in dropped \cup crossed \/ saved[w] > 0
    /\ saved[w] > 1 => w \in lost

(* A proposal carries the geometry of its own target: what was dragged or   *)
(* drawn for another entry, earlier or since, never gets into it.           *)
EditGoesToItsTarget == \A p \in proposals : p[1] = p[2]
=============================================================================

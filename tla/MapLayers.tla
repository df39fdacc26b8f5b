------------------------------ MODULE MapLayers ------------------------------
(***************************************************************************)
(* What the map shows (frontend map.ts): approved places and districts on  *)
(* the public layers, rebuilt from the loaded lists whenever a list        *)
(* arrives or a filter changes, and pending ones on a layer of their own,  *)
(* loaded once.  The page is used by an administrator who is logged in:    *)
(* everybody else sees and does part of this.                              *)
(*                                                                         *)
(* Nothing cancels a request, so answers arrive in any order.  The server  *)
(* is modelled by what the page relies on: a list is read at some moment   *)
(* between request and answer, and an answer can be lost after the server  *)
(* has done the work.                                                      *)
(***************************************************************************)
EXTENDS Integers, FiniteSets

CONSTANTS
  Pois, Districts,   \* ids
  Filters,           \* settings of the category, rating and wheelchair filters
  Matching,          \* Filters -> the entries that pass
  None,
  Visits             \* bound: the visits checked, each with what is done in it

Entries == Pois \cup Districts
Kinds == {"poi", "district"}
OfKind(k) == IF k = "poi" THEN Pois ELSE Districts
KindOf(e) == IF e \in Pois THEN "poi" ELSE "district"

(* A visit: what is done (does) and which entries there are (on), whether   *)
(* the pending lists are asked for with success (pending), how many times   *)
(* the approved lists are loaded, and how many pieces of work are begun,    *)
(* each sent how many times.                                                *)
Doings == {"filter", "look", "vote", "remove", "review", "draw", "edit"}
VisitType == [does : SUBSET Doings, on : SUBSET Entries, pending : BOOLEAN,
              loads : Nat \ {0}, work : Nat, sends : Nat]

ASSUME MapLayersAssumption ==
  /\ Pois \cap Districts = {} /\ None \notin Entries
  /\ Matching \in [Filters -> SUBSET Entries]
  /\ Visits \subseteq VisitType

VARIABLES
  visit,         \* what is done in this visit; it stays as it is
  stored,        \* the server: Entries -> pending, approved or gone
  filter,        \* the filters chosen
  all,           \* allPois and allDistricts
  publicLayer,   \* entries with a marker or polygon on the public layers
  pendingLayer,  \* entries with one on the pending layer
  loads,         \* requests for lists that are not answered yet
  loaded,        \* times the approved lists were asked for
  clicks,        \* votes and removals that are not answered yet
  timers         \* auto-approved entries that leave the pending layer soon

layers == <<filter, all, publicLayer, pendingLayer, loads, loaded, clicks, timers>>
layerVars == <<visit, stored, layers>>

Done(what) == what \in visit.does

Load(list, k, n) == [list |-> list, kind |-> k, no |-> n, read |-> FALSE, got |-> {}]
LoadApproved(n) == {Load("approved", k, n) : k \in Kinds}
LoadPendingData == {Load("pending", k, 1) : k \in Kinds}

LayersInit ==
  /\ visit \in Visits
  /\ stored \in [Entries -> {"pending", "approved", "gone"}]
  /\ \A e \in Entries : stored[e] = "gone" <=> e \notin visit.on
  /\ filter \in Filters
  /\ all = {} /\ publicLayer = {} /\ pendingLayer = {}
  /\ loads = LoadApproved(1) \cup IF visit.pending THEN LoadPendingData ELSE {}
  /\ loaded = 1
  /\ clicks = {} /\ timers = {}

-----------------------------------------------------------------------------
(* The server answers at its own pace, and others review meanwhile. *)
ReadList(l) ==
  /\ l \in loads /\ ~l.read
  /\ loads' = (loads \ {l}) \cup
       {[l EXCEPT !.read = TRUE, !.got = {e \in OfKind(l.kind) : stored[e] = l.list}]}
  /\ UNCHANGED <<visit, stored, filter, all, publicLayer, pendingLayer, loaded, clicks, timers>>

OthersReview(e) ==
  /\ Done("review")
  /\ \/ stored[e] = "pending" /\ stored' = [stored EXCEPT ![e] = "approved"]
     \/ stored[e] = "approved" /\ stored' = [stored EXCEPT ![e] = "gone"]
  /\ UNCHANGED <<visit, layers>>

-----------------------------------------------------------------------------
(* applyFilters clears both layers and builds them anew: a popup that was   *)
(* open, and a removal under way, hold on to a marker that is gone.         *)
ApplyFilters(entries, f) ==
  /\ publicLayer' = entries \cap Matching[f]
  /\ clicks' = {IF c.layer = "public" THEN [c EXCEPT !.layer = "replaced"] ELSE c : c \in clicks}

ApprovedArrive(l) ==
  /\ l \in loads /\ l.list = "approved" /\ l.read
  /\ all' = (all \ OfKind(l.kind)) \cup l.got
  /\ ApplyFilters(all', filter)
  /\ loads' = loads \ {l}
  /\ UNCHANGED <<visit, stored, filter, pendingLayer, loaded, timers>>

PendingArrive(l) ==
  /\ l \in loads /\ l.list = "pending" /\ l.read
  /\ pendingLayer' = pendingLayer \cup l.got
  /\ loads' = loads \ {l}
  /\ UNCHANGED <<visit, stored, filter, all, publicLayer, loaded, clicks, timers>>

LoadFails(l) ==
  /\ l \in loads
  /\ loads' = loads \ {l}
  /\ UNCHANGED <<visit, stored, filter, all, publicLayer, pendingLayer, loaded, clicks, timers>>

(* onCategoryChange, onRatingChange, onWheelchairChange. *)
ChangeFilter(f) ==
  /\ Done("filter") /\ f # filter /\ filter' = f
  /\ ApplyFilters(all, f)
  /\ UNCHANGED <<visit, stored, all, pendingLayer, loads, loaded, timers>>

-----------------------------------------------------------------------------
(* The buttons of a popup.  Each entry has at most one vote and one removal *)
(* under way (a bound: the buttons stay enabled).                           *)
Click(what, e, layer) == [what |-> what, entry |-> e, layer |-> layer, answer |-> "none"]

Press(what, e, layer) ==
  /\ Done(what)
  /\ e \in IF layer = "public" THEN publicLayer ELSE pendingLayer
  /\ ~\E c \in clicks : c.what = what /\ c.entry = e
  /\ clicks' = clicks \cup {Click(what, e, layer)}
  /\ UNCHANGED <<visit, stored, filter, all, publicLayer, pendingLayer, loads, loaded, timers>>

Vote(e) == Press("vote", e, "pending")
PressRemove(e) == Press("remove", e, "public") \/ Press("remove", e, "pending")

(* What the server makes of a click; the answer may be lost. *)
ServeClick(c) ==
  LET e == c.entry IN
  /\ c \in clicks /\ c.answer = "none"
  /\ \/ /\ c.what = "remove" /\ stored[e] # "gone"
        /\ stored' = [stored EXCEPT ![e] = "gone"]
        /\ \E a \in {"done", "failed"} : clicks' = (clicks \ {c}) \cup {[c EXCEPT !.answer = a]}
     \/ /\ c.what = "vote" /\ stored[e] = "pending"
        /\ \/ UNCHANGED stored /\ clicks' = (clicks \ {c}) \cup {[c EXCEPT !.answer = "counted"]}
           \/ /\ stored' = [stored EXCEPT ![e] = "approved"]
              /\ \E a \in {"done", "failed"} :
                   clicks' = (clicks \ {c}) \cup {[c EXCEPT !.answer = a]}
     \/ /\ UNCHANGED stored
        /\ clicks' = (clicks \ {c}) \cup {[c EXCEPT !.answer = "failed"]}
  /\ UNCHANGED <<visit, filter, all, publicLayer, pendingLayer, loads, loaded, timers>>

Answered(c, answer, what) == c \in clicks /\ c.what = what /\ c.answer = answer

(* Counting a vote changes the text of the popup only. *)
VoteAnswer(c) ==
  /\ \/ Answered(c, "done", "vote") /\ timers' = timers \cup {c.entry}
     \/ (Answered(c, "counted", "vote") \/ Answered(c, "failed", "vote")) /\ UNCHANGED timers
  /\ clicks' = clicks \ {c}
  /\ UNCHANGED <<visit, stored, filter, all, publicLayer, pendingLayer, loads, loaded>>

LeavePending(e) ==
  /\ e \in timers
  /\ timers' = timers \ {e}
  /\ pendingLayer' = pendingLayer \ {e}
  /\ UNCHANGED <<visit, stored, filter, all, publicLayer, loads, loaded, clicks>>

RemovalAnswerAnyway(c) ==    \* defect: the marker is taken off before the answer is looked at
  /\ Answered(c, "done", "remove") \/ Answered(c, "failed", "remove")
  /\ publicLayer' = IF c.layer = "public" THEN publicLayer \ {c.entry} ELSE publicLayer
  /\ pendingLayer' = IF c.layer = "pending" THEN pendingLayer \ {c.entry} ELSE pendingLayer
  /\ clicks' = clicks \ {c}
  /\ UNCHANGED <<visit, stored, filter, all, loads, loaded, timers>>

(* source.removeLayer(layer): of no effect when the layer was rebuilt.      *)
(* allPois and allDistricts keep the entry.                                 *)
RemovalAnswer(c) ==
  /\ \/ /\ Answered(c, "done", "remove")
        /\ publicLayer' = IF c.layer = "public" THEN publicLayer \ {c.entry} ELSE publicLayer
        /\ pendingLayer' = IF c.layer = "pending" THEN pendingLayer \ {c.entry} ELSE pendingLayer
     \/ Answered(c, "failed", "remove") /\ UNCHANGED <<publicLayer, pendingLayer>>
  /\ clicks' = clicks \ {c}
  /\ UNCHANGED <<visit, stored, filter, all, loads, loaded, timers>>

(* The layers are rebuilt, or they are not. *)
Rebuilding == (\E l \in loads : ApprovedArrive(l)) \/ (\E f \in Filters : ChangeFilter(f))
Looking ==
  \/ \E l \in loads : ReadList(l) \/ PendingArrive(l) \/ LoadFails(l)
  \/ \E e \in Entries : OthersReview(e) \/ Vote(e) \/ PressRemove(e) \/ LeavePending(e)
  \/ \E c \in clicks : ServeClick(c) \/ VoteAnswer(c) \/ RemovalAnswer(c)

-----------------------------------------------------------------------------
(* In whatever order lists, filters, votes and removals come, the public    *)
(* layers show what the loaded lists hold and the filters let through, and  *)
(* nothing is missing from them but what the server has really taken down.  *)
PublicLayerMatches ==
  /\ publicLayer \subseteq all \cap Matching[filter]
  /\ \A e \in (all \cap Matching[filter]) \ publicLayer : stored[e] = "gone"
=============================================================================

------------------------------- MODULE MapView -------------------------------
(***************************************************************************)
(* Where the map is, and the list of the places in view that goes with it  *)
(* (frontend map.ts): the map is moved by hand, to a place that was        *)
(* searched for, to where the visitor is, or to a place opened from the    *)
(* list; the position comes from the browser, asked for as the page opens  *)
(* or by a button, the search from another site, and both answer whenever  *)
(* they like.                                                              *)
(*                                                                         *)
(* Of the map library this is taken: setView jumps, or glides and reports  *)
(* the end of the move later; a move that is overtaken ends where it is.   *)
(***************************************************************************)
EXTENDS MapLayers, Sequences

CONSTANTS
  Views,          \* parts of the world the map can show
  Fallback, Here, \* views: the one to begin with, and that of the visitor
  Between,        \* what is in view while the map glides
  InView,         \* view -> the places in it
  Distance,       \* view -> place -> distance from the middle of the view
  PLACE_LIST_LIMIT

ASSUME MapViewAssumption ==
  /\ {Fallback, Here} \subseteq Views /\ Between \notin Views /\ None \notin Views
  /\ IsFiniteSet(Pois)
  /\ InView \in [Views \cup {Between} -> SUBSET Pois]
  /\ Distance \in [Views \cup {Between} -> [Pois -> Nat]]
  /\ PLACE_LIST_LIMIT \in Nat \ {0}

VARIABLES
  view,                \* what the map shows
  goal,                \* where it glides to, or None
  located,             \* userLocation is known
  locating,            \* requests for the position not answered yet
  searching,           \* what is searched for, or None
  pendingAnnouncement, \* what the next end of a move is announced as, or None
  visiblePlaces,       \* the list
  visibleTotal

place == <<view, goal, located, locating, searching>>
viewVars == <<place, pendingAnnouncement, visiblePlaces, visibleTotal>>

(* updateVisiblePlaces: of the filtered places those in view, sorted by     *)
(* their distance from the visitor, or from the middle of the map, those    *)
(* as far as each other in any order; the list is the first of them.        *)
ByDistance(ps, origin) ==
  {s \in [1..Cardinality(ps) -> ps] :
     /\ \A p \in ps : \E i \in DOMAIN s : s[i] = p
     /\ \A i, j \in DOMAIN s :
          i < j => s[i] # s[j] /\ Distance[origin][s[i]] <= Distance[origin][s[j]]}
Nearest(ps, origin) ==
  {IF Len(s) <= PLACE_LIST_LIMIT THEN s ELSE SubSeq(s, 1, PLACE_LIST_LIMIT)
     : s \in ByDistance(ps, origin)}
UpdateVisiblePlaces(entries, f, v, known) ==
  LET inView == entries \cap Pois \cap Matching[f] \cap InView[v] IN
  /\ visiblePlaces' \in Nearest(inView, IF known THEN Here ELSE v)
  /\ visibleTotal' = Cardinality(inView)

(* A link to a place wins over the position of the visitor. *)
ViewInit ==
  /\ \/ ~Done("look") /\ view = Fallback /\ locating = {}
     \/ Done("look") /\ view = Fallback /\ locating = {"auto"}
     \/ Done("look") /\ view \in Views /\ locating = {}
  /\ goal = None /\ located = FALSE /\ searching = None
  /\ pendingAnnouncement = None /\ visiblePlaces = <<>> /\ visibleTotal = 0

-----------------------------------------------------------------------------
OnMapMovedEither(v, known, announcement) ==    \* defect: announces instead of updating the list
  /\ pendingAnnouncement' = None
  /\ IF announcement = None THEN UpdateVisiblePlaces(all, filter, v, known)
                            ELSE UNCHANGED <<visiblePlaces, visibleTotal>>

(* The end of a move that shows v: the list is made anew, and what waits    *)
(* to be announced is.                                                      *)
OnMapMoved(v, known, announcement) ==
  /\ pendingAnnouncement' = None
  /\ UpdateVisiblePlaces(all, filter, v, known)

SetView(v, known, announcement) ==
  \/ view' = v /\ goal' = None /\ OnMapMoved(v, known, announcement)
  \/ /\ view' = Between /\ goal' = v
     /\ IF goal # None THEN OnMapMoved(Between, known, announcement)
        ELSE /\ pendingAnnouncement' = announcement
             /\ UNCHANGED <<visiblePlaces, visibleTotal>>

MoveEnd ==
  /\ goal # None
  /\ view' = goal /\ goal' = None
  /\ OnMapMoved(goal, located, pendingAnnouncement)
  /\ UNCHANGED <<located, locating, searching>>

Drag(v) ==
  /\ Done("look") /\ v # goal /\ v # view
  /\ SetView(v, located, pendingAnnouncement)
  /\ UNCHANGED <<located, locating, searching>>

(* openPlace: zoomToShowLayer moves the map as far as it has to.            *)
OpenPlace(i) ==
  /\ Done("look") /\ i \in DOMAIN visiblePlaces
  /\ \E v \in Views : /\ visiblePlaces[i] \in InView[v]
                      /\ SetView(v, located, pendingAnnouncement)
  /\ UNCHANGED <<located, locating, searching>>

(* The button is disabled until the answer is in. *)
DetectUserLocation ==
  /\ Done("look") /\ "button" \notin locating
  /\ locating' = locating \cup {"button"}
  /\ UNCHANGED <<view, goal, located, searching, pendingAnnouncement, visiblePlaces, visibleTotal>>

(* Only what the visitor has asked for is announced. *)
Located(how) ==
  /\ how \in locating /\ locating' = locating \ {how}
  /\ located' = TRUE
  /\ SetView(Here, TRUE, IF how = "button" THEN Here ELSE pendingAnnouncement)
  /\ UNCHANGED searching

NotLocated(how) ==
  /\ how \in locating /\ locating' = locating \ {how}
  /\ UNCHANGED <<view, goal, located, searching, pendingAnnouncement, visiblePlaces, visibleTotal>>

OnSearch(v) ==
  /\ Done("look") /\ searching = None
  /\ searching' = v
  /\ UNCHANGED <<view, goal, located, locating, pendingAnnouncement, visiblePlaces, visibleTotal>>

SearchAnswered ==
  /\ searching # None /\ searching' = None
  /\ SetView(searching, located, searching)
  /\ UNCHANGED <<located, locating>>

SearchFails ==
  /\ searching # None /\ searching' = None
  /\ UNCHANGED <<view, goal, located, locating, pendingAnnouncement, visiblePlaces, visibleTotal>>

(* Opening the list makes it anew; so does every change of the filters or   *)
(* of the lists loaded (ApplyFilters).                                      *)
ToggleList ==
  /\ Done("look")
  /\ UpdateVisiblePlaces(all, filter, view, located)
  /\ UNCHANGED <<place, pendingAnnouncement>>

MapMoves ==
  \/ MoveEnd \/ DetectUserLocation \/ SearchAnswered \/ SearchFails \/ ToggleList
  \/ \E v \in Views : Drag(v) \/ OnSearch(v)
  \/ \E i \in DOMAIN visiblePlaces : OpenPlace(i)
  \/ \E how \in locating : Located(how) \/ NotLocated(how)

ViewNext ==
  \/ /\ Rebuilding
     /\ UpdateVisiblePlaces(all', filter', view, located)
     /\ UNCHANGED <<place, pendingAnnouncement>>
  \/ Looking /\ UNCHANGED viewVars
  \/ MapMoves /\ UNCHANGED layerVars

-----------------------------------------------------------------------------
(* Whatever lists, filters, positions and results of searches come in while *)
(* the map moves: when it rests, the list has the nearest of the filtered   *)
(* places in view, nearest first, the total counts them all, every place    *)
(* with a marker in view is among those counted, and no announcement is     *)
(* left over for a move the visitor makes next.                             *)
ListIsOfView ==
  LET inView == {p \in Pois \cap all : p \in Matching[filter] \cap InView[view]}
      listed == {visiblePlaces[i] : i \in DOMAIN visiblePlaces}
      origin == IF located THEN Here ELSE view
  IN
  goal = None =>
    /\ listed \subseteq inView /\ visibleTotal = Cardinality(inView)
    /\ Len(visiblePlaces) = Cardinality(listed)
    /\ Len(visiblePlaces) = PLACE_LIST_LIMIT \/ listed = inView
    /\ \A i \in DOMAIN visiblePlaces, p \in inView :
         p \in listed \/ Distance[origin][visiblePlaces[i]] <= Distance[origin][p]
    /\ \A i, j \in DOMAIN visiblePlaces :
         i < j => Distance[origin][visiblePlaces[i]] <= Distance[origin][visiblePlaces[j]]
    /\ publicLayer \cap Pois \cap InView[view] \subseteq inView
    /\ pendingAnnouncement = None
=============================================================================

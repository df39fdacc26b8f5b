----------------------------- MODULE MCMapEditor -----------------------------
(* An instance of MapEditor for TLC. *)
EXTENDS MapEditor, TLC

CONSTANTS p1, p2, p3, d1, any, rated, home, here, between

(* The stricter filter lets the second place and the district through.      *)
Passing == (any :> {p1, p2, p3, d1}) @@ (rated :> {p2, d1})

(* The first view has all places, one more than the list, with the near one *)
(* farther from the visitor, in whose own view it is missing.               *)
Seen == (home :> {p1, p2, p3}) @@ (here :> {p2, p3}) @@ (between :> {p1, p3})
Far == (home :> (p1 :> 1 @@ p2 :> 2 @@ p3 :> 3)) @@ (here :> (p1 :> 3 @@ p2 :> 1 @@ p3 :> 2))
         @@ (between :> (p1 :> 1 @@ p2 :> 3 @@ p3 :> 2))

Visit(does, on, pending, nloads, nwork, nsends) ==
  [does |-> does, on |-> on, pending |-> pending, loads |-> nloads, work |-> nwork,
   sends |-> nsends]

(* Somebody who looks on, votes and removes; somebody who contributes twice *)
(* and may have to send again; somebody who does some of each; and two who  *)
(* look around, among more places than the list has room for or removing    *)
(* one of them.                                                             *)
FiveVisits ==
  {Visit({"filter", "vote", "remove", "review"}, {p1, d1}, TRUE, 1, 0, 0),
   Visit({"draw", "edit"}, {p1, d1}, FALSE, 1, 2, 2),
   Visit({"draw", "edit", "filter", "remove"}, {p1, d1}, FALSE, 2, 1, 1),
   Visit({"look", "filter"}, {p1, p2, p3}, FALSE, 1, 0, 0),
   Visit({"look", "remove"}, {p1, p2}, FALSE, 1, 0, 0)}
=============================================================================

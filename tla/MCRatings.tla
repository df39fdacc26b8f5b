----------------------------- MODULE MCRatings -----------------------------
(* An instance of Ratings for TLC. *)
EXTENDS Ratings, TLC

CONSTANTS ann, rex, p1, h1, h2

(* The place belongs to one of the two accounts. *)
OwnedByRex == [p \in Places |-> rex]

Everything == [h \in Handlers |-> Ops]

Symmetry == Permutations(Ids)
=============================================================================

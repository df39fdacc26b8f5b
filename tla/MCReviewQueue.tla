--------------------------- MODULE MCReviewQueue ---------------------------
(* An instance of ReviewQueue for TLC: a place and a proposal for an area. *)
EXTENDS ReviewQueue, TLC

CONSTANTS place, edit

KindOf == (place :> "poi") @@ (edit :> "district")
=============================================================================

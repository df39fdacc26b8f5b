--------------------------- MODULE MCMySubmissions ---------------------------
(* An instance of MySubmissions for TLC. *)
EXTENDS MySubmissions

TwoSends == 1..2
=============================================================================

------------------------------ MODULE MCReports ------------------------------
(* An instance of Reports for TLC. *)
EXTENDS Reports, TLC

(* Moderators at the list, moderators beside a reporter, a reporter alone   *)
(* with what may be withdrawn meanwhile.                                    *)
ThreeMeetings ==
  {{"moderator", "colleague"}, {"moderator", "reporter"}, {"reporter", "author"}}
TwoReports == 1..2
TwoLoads == 1..2
TwoDecisions == 1..2

(* No definition tells one target from another; reports are in order. *)
Symmetry == Permutations(Targets)
=============================================================================

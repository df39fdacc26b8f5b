---------------------------- MODULE MCModeration ----------------------------
(* An instance of Moderation for TLC. *)
EXTENDS Moderation, TLC

CONSTANTS ann, rex, h1, h2, h3

(* Two voters race each other, a reviewer, the owner's changes, a removal   *)
(* and the deletion of an account.                                          *)
VotingWorkload ==
  (h1 :> {"create", "vote"}) @@ (h2 :> {"vote", "review", "update", "delete"})
    @@ (h3 :> {"account"})

(* No definition tells one address, or one text, from another. *)
Symmetry == Permutations(Ips) \cup Permutations(Texts)
=============================================================================

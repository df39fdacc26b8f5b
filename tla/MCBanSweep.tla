----------------------------- MODULE MCBanSweep -----------------------------
(* An instance of BanSweep for TLC. *)
EXTENDS BanSweep, TLC

CONSTANTS ann, ada, h1, h2, h3

(* Two sweeps at once, and the submissions of their subject. *)
SweepWorkload ==
  (h1 :> {"create", "account"}) @@ (h2 :> {"ban", "unban"}) @@ (h3 :> {"unban", "ban"})
=============================================================================

------------------------------ MODULE MCOwners ------------------------------
(* The submissions of an account, for TLC: hidden and shown again with the  *)
(* ban of their owner, or listed, edited and deleted by the owner.  Neither *)
(* module reads or writes what the other keeps (a person's own list has the *)
(* hidden ones too), so each is checked with the other at rest.             *)
EXTENDS MCBanSweep, MCMySubmissions

VARIABLE at   \* which of the two it is; it stays as it is

OwnersInit ==
  /\ at \in {"ban", "page"}
  /\ Init /\ PageInit
  /\ at = "ban" => ~admin      \* admin plays no part there

OwnersNext ==
  /\ UNCHANGED at
  /\ \/ at = "ban" /\ Next /\ UNCHANGED pageVars
     \/ at = "page" /\ PageNext /\ UNCHANGED vars

OwnersSpec == OwnersInit /\ [][OwnersNext]_<<at, vars, pageVars>>
=============================================================================

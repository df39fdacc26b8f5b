----------------------------- MODULE MCAccounts -----------------------------
(* An instance of Accounts for TLC. *)
EXTENDS Accounts, TLC

CONSTANTS h1, h2

Everything == [h \in Handlers |-> Ops]

Symmetry == Permutations(Tokens) \cup Permutations(Emails) \cup Permutations(Users)
AllAlike == Symmetry \cup Permutations(Handlers)
=============================================================================

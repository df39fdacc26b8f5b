--------------------------- MODULE MCClientSession ---------------------------
(* An instance of ClientSession for TLC. *)
EXTENDS ClientSession, TLC

CONSTANTS u1, u2, t1, t2, h1, h2

Scn(calls, callers, tab, r1, r2, ticks, asks) ==
  [calls |-> calls, callers |-> callers, tab |-> tab,
   roles |-> (u1 :> r1) @@ (u2 :> r2), ticks |-> ticks, asks |-> asks]

(* Logins, changes and resets of passwords in two seconds and a half; roles *)
(* and bans given and taken, accounts deleted; a tab in which all is done;  *)
(* a tab while a ban or a reset comes from elsewhere.                       *)
AllScenes ==
  {Scn({"login", "password", "reset"}, {u1}, {}, "user", "user", 4, 3),
   Scn({"role", "ban", "unban", "delete"}, {u1, u2}, {}, "super_admin", "admin", 0, 3),
   Scn({}, {}, {"me", "login", "logout", "password", "delete"}, "user", "user", 0, 4),
   Scn({"reset", "ban"}, {u1, u2}, {"me", "login"}, "user", "admin", 2, 3)}

(* Handlers differ only in whether a tab waits for them. *)
Symmetry == Permutations({t1, t2}) \cup Permutations({h1, h2})
=============================================================================

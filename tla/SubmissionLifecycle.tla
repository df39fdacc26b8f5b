------------------------ MODULE SubmissionLifecycle ------------------------
(***************************************************************************)
(* What the moderation of community submissions promises, with every        *)
(* request reduced to one atomic step.  A submission enters as "pending".   *)
(* It is approved either by a reviewer or by at least Threshold votes; it   *)
(* may be rejected, and it may disappear.  It never becomes pending again   *)
(* and never comes back after it has disappeared.                           *)
(***************************************************************************)
EXTENDS Integers

CONSTANTS
  Targets,    \* identifiers a submission can have
  Threshold   \* votes that approve a submission without a reviewer

VARIABLES
  phase,      \* Targets -> where the submission is in its life
  backing,    \* Targets -> how many votes have ever been cast for it
  endorsed    \* Targets -> whether a reviewer has ever approved it

vars == <<phase, backing, endorsed>>

Decided == {"approved", "rejected"}

Init ==
  /\ phase = [t \in Targets |-> "absent"]
  /\ backing = [t \in Targets |-> 0]
  /\ endorsed = [t \in Targets |-> FALSE]

Submit(t) ==
  /\ phase[t] = "absent"
  /\ phase' = [phase EXCEPT ![t] = "pending"]
  /\ UNCHANGED <<backing, endorsed>>

Back(t) ==
  /\ phase[t] # "absent"
  /\ backing' = [backing EXCEPT ![t] = @ + 1]
  /\ UNCHANGED <<phase, endorsed>>

Endorse(t) ==
  /\ phase[t] \in {"pending"} \cup Decided
  /\ phase' = [phase EXCEPT ![t] = "approved"]
  /\ endorsed' = [endorsed EXCEPT ![t] = TRUE]
  /\ UNCHANGED backing

Promote(t) ==
  /\ phase[t] \in {"pending"} \cup Decided
  /\ backing[t] >= Threshold
  /\ phase' = [phase EXCEPT ![t] = "approved"]
  /\ UNCHANGED <<backing, endorsed>>

Refuse(t) ==
  /\ phase[t] \in {"pending"} \cup Decided
  /\ phase' = [phase EXCEPT ![t] = "rejected"]
  /\ UNCHANGED <<backing, endorsed>>

(* An account takes all its submissions with it, so several can go at once. *)
Withdraw(gone) ==
  /\ \A t \in gone : phase[t] \in {"pending"} \cup Decided
  /\ phase' = [t \in Targets |-> IF t \in gone THEN "gone" ELSE phase[t]]
  /\ UNCHANGED <<backing, endorsed>>

Next ==
  \/ \E t \in Targets :
       Submit(t) \/ Back(t) \/ Endorse(t) \/ Promote(t) \/ Refuse(t)
  \/ \E gone \in SUBSET Targets : Withdraw(gone)

Spec == Init /\ [][Next]_vars
=============================================================================

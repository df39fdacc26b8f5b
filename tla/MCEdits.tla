------------------------------ MODULE MCEdits ------------------------------
(* Instances of Edits for TLC: one imported and one owned entry. *)
EXTENDS Edits, TLC

CONSTANTS ann, rex, t1, t2, f1, f2, old, new, padded, bad, h1, h2, h3

AsPublished == [t \in Entries |-> [f \in {f1, f2} |-> old]]
OwnedByAnn == [t \in Entries |-> IF t = t2 THEN ann ELSE None]

(* f1 is one of the optional details, f2 is not. *)
Trimming == (f1 :> [v \in Values |-> IF v = padded THEN new ELSE v])
              @@ (f2 :> [v \in Values |-> v])

(* Each field alone, both, and a value that is refused. *)
SomeChanges == {f1 :> padded, (f1 :> old) @@ (f2 :> new), f2 :> bad}

(* Two reviewers at once, beside the author. *)
ReviewWorkload ==
  (h1 :> {"create", "account"}) @@ (h2 :> {"review"}) @@ (h3 :> {"review"})

(* The reviewing handlers are alike, and so are the proposals' ids. *)
Symmetry == Permutations({h2, h3}) \cup Permutations(Proposals)
=============================================================================

--------------------------- MODULE RatingsProofs ---------------------------
(***************************************************************************)
(* Ratings, proved for every number of places, accounts, ratings and       *)
(* requests.  What the aggregate computes is opened once, for the scale its *)
(* means keep; for the rest it is a function of the rows it is given.      *)
(***************************************************************************)
EXTENDS Ratings, FiniteSetTheorems, WellFoundedInduction, TLAPS

Tables == {rows \in SUBSET Rows : IsFiniteSet(rows)}
Reads == {SummaryOf(rows) : rows \in Tables}
Shapes == [step : Steps, who : Accounts \cup {None}, place : Places \cup {None},
           stars : Stars \cup {None}, id : Ids \cup {None},
           read : Reads, fresh : BOOLEAN]

Shape ==
  /\ ratings \in Tables
  /\ present \subseteq Places
  /\ summary \in [Places -> Reads]
  /\ live \subseteq Accounts /\ banned \subseteq live
  /\ used \subseteq Ids
  /\ req \in [Handlers -> Shapes]
  /\ drifted \subseteq Places

(* A request is about a place, and one that rates has a rating to give. *)
About(q) == /\ q.step # "idle" => q.place \in Places
            /\ q.step \in {"rate.place", "rate.find", "rate.save"} => q.stars \in Stars
AboutOK == \A h \in Handlers : About(req[h])

(* The requests that carry the id of a row they have found. *)
Carries(q) == q.step \in {"rate.save", "drop.row"} /\ q.id # None

(* An id names one row for ever: the rating of one person for one place,    *)
(* whoever has found it and however often it is removed and saved again.    *)
IdsOK ==
  /\ \A r \in ratings : r.id \in used
  /\ \A h \in Handlers : Carries(req[h]) =>
       /\ req[h].id \in used
       /\ \A r \in ratings : r.id = req[h].id =>
            /\ r.place = req[h].place
            /\ req[h].step = "rate.save" => r.author = req[h].who
  /\ \A g, h \in Handlers : Carries(req[g]) /\ Carries(req[h]) /\ req[g].id = req[h].id =>
       /\ req[g].place = req[h].place
       /\ req[g].step = "rate.save" /\ req[h].step = "rate.save" => req[g].who = req[h].who

(* A refresh that nothing disturbed is about to write what is right. *)
FreshIsRight == \A h \in Handlers :
  req[h].step = "sum.write" /\ req[h].fresh /\ req[h].place \in present =>
    req[h].read = SummaryOf(Listed(req[h].place))

TypeInv == Shape /\ AboutOK
OneInv == TypeInv /\ IdsOK /\ OneRatingPerPerson
IInv == OneInv /\ FreshIsRight /\ SummaryHeals

(* What the other requests keep while one goes on. *)
Kept(g) ==
  /\ req'[g].step = req[g].step /\ req'[g].who = req[g].who
  /\ req'[g].place = req[g].place /\ req'[g].stars = req[g].stars
  /\ req'[g].id = req[g].id /\ req'[g].read = req[g].read
  /\ req'[g].fresh => req[g].fresh

(* h goes on to step s and keeps whom and what it is about. *)
Goes(h, s) ==
  /\ req'[h].step = s /\ req'[h].who = req[h].who
  /\ req'[h].place = req[h].place /\ req'[h].stars = req[h].stars
  /\ req'[h].id = req[h].id

-----------------------------------------------------------------------------
(* The total of the stars of finitely many ratings.  There is no induction  *)
(* here: what holds of every finite set is proved of a smallest set of      *)
(* which it would not hold.                                                 *)
First(s) == CHOOSE r \in s : TRUE
IsTotals(S, g) ==
  g = [s \in SUBSET S |-> IF s = {} THEN 0 ELSE First(s).stars + g[s \ {First(s)}]]
Totals(S) == CHOOSE g : IsTotals(S, g)
Total(S) == MapThenSumSet(LAMBDA r : r.stars, S)

LEMMA SmallestSet ==
  ASSUME NEW S, IsFiniteSet(S), NEW T, T \subseteq SUBSET S, T # {}
  PROVE  \E s \in T : \A t \in T : t \subseteq s => t = s
<1>1. IsWellFoundedOn(StrictSubsetOrdering(S), SUBSET S)
  BY FS_StrictSubsetOrderingWellFounded, FS_FiniteSubsetsOfFinite
<1>2. PICK s \in T : \A t \in T : <<t, s>> \notin StrictSubsetOrdering(S)
  BY <1>1, WFMin
<1> QED BY <1>2 DEF StrictSubsetOrdering

LEMMA TotalsUnfold ==
  ASSUME NEW S, NEW g, IsTotals(S, g)
  PROVE  \A s \in SUBSET S :
           /\ s = {} => g[s] = 0
           /\ s # {} => First(s) \in s /\ g[s] = First(s).stars + g[s \ {First(s)}]
<1>1. \A s : s # {} => First(s) \in s
  BY DEF First
<1> HIDE DEF First
<1>2. g = [s \in SUBSET S |-> IF s = {} THEN 0 ELSE First(s).stars + g[s \ {First(s)}]]
  BY DEF IsTotals
<1>4. \A s \in SUBSET S :
        g[s] = IF s = {} THEN 0 ELSE First(s).stars + g[s \ {First(s)}]
  BY <1>2
<1> QED BY <1>1, <1>4

LEMMA TotalsAgree ==
  ASSUME NEW S, IsFiniteSet(S), NEW g, IsTotals(S, g), NEW U \in SUBSET S,
         NEW h, IsTotals(U, h)
  PROVE  \A s \in SUBSET U : h[s] = g[s]
<1> DEFINE T == {s \in SUBSET U : h[s] # g[s]}
<1>1. SUFFICES ASSUME T # {} PROVE FALSE
  OBVIOUS
<1> HIDE DEF T
<1>2. PICK s \in T : \A t \in T : t \subseteq s => t = s
  <2>1. T \subseteq SUBSET S
    BY DEF T
  <2> QED BY <1>1, <2>1, SmallestSet
<1> USE DEF T
<1>3. s # {}
  BY <1>2, TotalsUnfold
<1>4. /\ First(s) \in s
      /\ g[s] = First(s).stars + g[s \ {First(s)}]
      /\ h[s] = First(s).stars + h[s \ {First(s)}]
  <2>1. s \in SUBSET S /\ s \in SUBSET U
    BY <1>2
  <2> HIDE DEF T
  <2> QED BY <1>3, <2>1, TotalsUnfold
<1>5. s \ {First(s)} \notin T
  BY <1>2, <1>4
<1>6. h[s \ {First(s)}] = g[s \ {First(s)}]
  BY <1>2, <1>5
<1> QED BY <1>2, <1>4, <1>6

LEMMA TotalsExist ==
  ASSUME NEW S, IsFiniteSet(S)
  PROVE  \A s \in SUBSET S : IsTotals(s, Totals(s))
<1> DEFINE T == {s \in SUBSET S : ~ \E g : IsTotals(s, g)}
<1>1. SUFFICES ASSUME T # {} PROVE FALSE
  BY Zenon DEF Totals
<1> HIDE DEF T
<1>2. PICK s \in T : \A t \in T : t \subseteq s => t = s
  <2>1. T \subseteq SUBSET S
    BY DEF T
  <2> QED BY <1>1, <2>1, SmallestSet
<1> USE DEF T
<1> DEFINE part(t) == Totals(t)[t]
           g == [t \in SUBSET s |->
                   IF t = {} THEN 0 ELSE First(t).stars + part(t \ {First(t)})]
<1>3. \A t \in SUBSET s : t # s => IsTotals(t, Totals(t))
  <2>1. ASSUME NEW t \in SUBSET s, t # s PROVE \E f : IsTotals(t, f)
    BY <1>2, <2>1
  <2> QED BY <2>1, Zenon DEF Totals
<1>4. ASSUME NEW t \in SUBSET s, t # s PROVE part(t) = g[t]
  <2>1. IsTotals(t, Totals(t))
    BY <1>3, <1>4
  <2>2. CASE t = {}
    BY <2>1, <2>2, TotalsUnfold
  <2>3. CASE t # {}
    <3>1. /\ First(t) \in t
          /\ Totals(t)[t] = First(t).stars + Totals(t)[t \ {First(t)}]
      BY <2>1, <2>3, TotalsUnfold
    <3> DEFINE u == t \ {First(t)}
    <3>2. u \in SUBSET t /\ u \in SUBSET s /\ u # s
      BY <1>4, <3>1
    <3>3. IsTotals(u, Totals(u)) /\ IsFiniteSet(t)
      BY <1>2, <1>3, <1>4, <3>2, FS_Subset
    <3>4. Totals(u)[u] = Totals(t)[u]
      BY <2>1, <3>2, <3>3, TotalsAgree
    <3> QED BY <1>4, <2>3, <3>1, <3>4
  <2> QED BY <2>2, <2>3
<1>5. IsTotals(s, g)
  <2>1. ASSUME NEW t \in SUBSET s, t # {}
        PROVE  part(t \ {First(t)}) = g[t \ {First(t)}]
    <3>1. First(t) \in t
      BY <2>1 DEF First
    <3> HIDE DEF part, g
    <3> QED BY <1>4, <2>1, <3>1
  <2> HIDE DEF part
  <2>2. g = [t \in SUBSET s |-> IF t = {} THEN 0 ELSE First(t).stars + g[t \ {First(t)}]]
    BY <2>1
  <2> QED BY <2>2 DEF IsTotals
<1> QED BY <1>2, <1>5

LEMMA TotalIs == ASSUME NEW S PROVE Total(S) = Totals(S)[S]
BY DEF Total, MapThenSumSet, MapThenFoldSet, Totals, IsTotals, First

LEMMA TotalSteps ==
  ASSUME NEW S, IsFiniteSet(S)
  PROVE  /\ S = {} => Total(S) = 0
         /\ S # {} => First(S) \in S /\ Total(S) = First(S).stars + Total(S \ {First(S)})
<1>1. IsTotals(S, Totals(S)) /\ IsTotals(S \ {First(S)}, Totals(S \ {First(S)}))
  BY TotalsExist
<1>2. Totals(S \ {First(S)})[S \ {First(S)}] = Totals(S)[S \ {First(S)}]
  BY <1>1, TotalsAgree
<1>3. \A s : Total(s) = Totals(s)[s]
  BY TotalIs
<1>4. S \in SUBSET S
  OBVIOUS
<1> HIDE DEF Total
<1>5. S = {} => Totals(S)[S] = 0
  BY <1>1, <1>4, TotalsUnfold
<1>6. S # {} => First(S) \in S /\ Totals(S)[S] = First(S).stars + Totals(S)[S \ {First(S)}]
  BY <1>1, <1>4, TotalsUnfold
<1> QED BY <1>2, <1>3, <1>5, <1>6

(* Each rating has between one and five stars. *)
LEMMA TotalBounds ==
  ASSUME NEW S, IsFiniteSet(S), S \subseteq Rows
  PROVE  /\ Total(S) \in Nat /\ Cardinality(S) \in Nat
         /\ Cardinality(S) <= Total(S) /\ Total(S) <= 5 * Cardinality(S)
<1> DEFINE Bounded(s) == /\ Total(s) \in Nat
                         /\ Cardinality(s) <= Total(s) /\ Total(s) <= 5 * Cardinality(s)
           T == {s \in SUBSET S : ~Bounded(s)}
<1>1. SUFFICES ASSUME T # {} PROVE FALSE
  BY FS_CardinalityType
<1> HIDE DEF T
<1>2. PICK s \in T : \A t \in T : t \subseteq s => t = s
  <2>1. T \subseteq SUBSET S
    BY DEF T
  <2> QED BY <1>1, <2>1, SmallestSet
<1> USE DEF T
<1>3. IsFiniteSet(s)
  BY <1>2, FS_Subset
<1> HIDE DEF Total
<1>4. s # {}
  <2>1. s = {} => Cardinality(s) = 0
    BY FS_EmptySet
  <2>2. s = {} => Total(s) = 0
    BY <1>3, TotalSteps
  <2> QED BY <1>2, <2>1, <2>2
<1> DEFINE t == s \ {First(s)}
<1>5. First(s) \in s /\ Total(s) = First(s).stars + Total(t)
  BY <1>3, <1>4, TotalSteps
<1>6. Bounded(t)
  BY <1>2, <1>5
<1>7. Cardinality(s) \in Nat /\ Cardinality(t) \in Nat /\ Cardinality(s) = Cardinality(t) + 1
  <2>1. IsFiniteSet(t) /\ Cardinality(t) = Cardinality(s) - 1
    BY <1>3, <1>5, FS_RemoveElement
  <2>2. Cardinality(s) \in Nat /\ Cardinality(t) \in Nat
    BY <1>3, <2>1, FS_CardinalityType
  <2> QED BY <2>1, <2>2
<1>8. First(s).stars \in 1..5
  BY <1>2, <1>5, RatingsAssumption DEF Rows
<1> HIDE DEF t
<1> QED BY <1>2, <1>5, <1>6, <1>7, <1>8

LEMMA MeanScale ==
  ASSUME NEW n \in Nat \ {0}, NEW t \in Nat, n <= t, t <= 5 * n
  PROVE  (20 * t + n) \div (2 * n) \in 10..50
<1> DEFINE q == (20 * t + n) \div (2 * n)
<1>1. q \in Int /\ (2 * n) * q <= 20 * t + n /\ 20 * t + n < (2 * n) * q + 2 * n
  OBVIOUS
<1> HIDE DEF q
<1>2. (2 * n) * q <= 101 * n /\ 20 * n < (2 * n) * (q + 1)
  BY <1>1
<1>3. q <= 50
  <2>1. SUFFICES ASSUME q >= 51 PROVE FALSE
    BY <1>1
  <2>2. (2 * n) * q >= (2 * n) * 51
    BY <1>1, <2>1
  <2> QED BY <1>1, <1>2, <2>2
<1>4. q >= 10
  <2>1. SUFFICES ASSUME q + 1 <= 10 PROVE FALSE
    BY <1>1
  <2>2. (2 * n) * (q + 1) <= (2 * n) * 10
    BY <1>1, <2>1
  <2> QED BY <1>1, <1>2, <2>2
<1>5. q \in 10..50
  BY <1>1, <1>3, <1>4
<1> QED BY <1>5 DEF q

(* No mean leaves the scale, and there is one exactly when there is a rating. *)
LEMMA SummaryScale ==
  ASSUME NEW S, IsFiniteSet(S), S \subseteq Rows
  PROVE  /\ SummaryOf(S) \in Summaries
         /\ SummaryOf(S).mean = None <=> SummaryOf(S).count = 0
<1> DEFINE n == Cardinality(S)
           mean == IF n = 0 THEN None ELSE (20 * Total(S) + n) \div (2 * n)
<1>1. SummaryOf(S) = [count |-> n, mean |-> mean]
  BY DEF SummaryOf, Total
<1>2. /\ n \in Nat /\ Total(S) \in Nat /\ n <= Total(S) /\ Total(S) <= 5 * n
  BY TotalBounds
<1> HIDE DEF Total, n
<1>3. n # 0 => mean \in 10..50
  BY <1>2, MeanScale
<1>4. None \notin 10..50
  BY RatingsAssumption
<1>5. mean = None <=> n = 0
  BY <1>3, <1>4
<1> HIDE DEF mean
<1> QED BY <1>1, <1>2, <1>3, <1>5 DEF Summaries
-----------------------------------------------------------------------------
(* Tables: finitely many ratings at any time. *)
LEMMA FewerRows == ASSUME NEW rows \in Tables, NEW S \in SUBSET rows PROVE S \in Tables
BY FS_Subset DEF Tables

LEMMA AnotherRow == ASSUME NEW rows \in Tables, NEW r \in Rows PROVE rows \cup {r} \in Tables
BY FS_AddElement DEF Tables

LEMMA EmptySummary ==
  /\ SummaryOf({}) = [count |-> 0, mean |-> None]
  /\ SummaryOf({}) \in Reads
<1>1. Cardinality({}) = 0
  BY FS_EmptySet
<1>2. SummaryOf({}) = [count |-> 0, mean |-> None]
  BY <1>1 DEF SummaryOf
<1>3. {} \in Tables
  BY FS_EmptySet DEF Tables
<1> HIDE DEF SummaryOf
<1>4. SummaryOf({}) \in Reads
  BY <1>3 DEF Reads
<1> QED BY <1>2, <1>4

LEMMA RequestShape ==
  ASSUME NEW s \in Steps, NEW u \in Accounts \cup {None}, NEW p \in Places \cup {None},
         NEW n \in Stars \cup {None}, NEW i \in Ids \cup {None}
  PROVE  Request(s, u, p, n, i) \in Shapes
<1>1. [count |-> 0, mean |-> None] \in Reads
  BY EmptySummary
<1> QED BY <1>1 DEF Request, Shapes

LEMMA IdleShape == Idle \in Shapes /\ Idle.step = "idle" /\ Idle.place = None
<1>1. Idle \in Shapes
  BY RequestShape DEF Idle, Steps
<1> QED BY <1>1 DEF Idle, Request

(* The helpers that change requests: their shape, and what the others keep. *)
LEMMA AnsweredMoves ==
  ASSUME req \in [Handlers -> Shapes], NEW h \in Handlers, Answered(h)
  PROVE  /\ req' \in [Handlers -> Shapes]
         /\ req'[h].step = "idle"
         /\ \A g \in Handlers \ {h} : req'[g] = req[g]
BY IdleShape DEF Answered

LEMMA SetMoves ==
  ASSUME req \in [Handlers -> Shapes], NEW h \in Handlers, NEW q \in Shapes,
         req' = [req EXCEPT ![h] = q]
  PROVE  /\ req' \in [Handlers -> Shapes]
         /\ req'[h] = q
         /\ \A g \in Handlers \ {h} : req'[g] = req[g]
OBVIOUS

LEMMA StepShape ==
  ASSUME NEW q \in Shapes, NEW s \in Steps
  PROVE  /\ [q EXCEPT !.step = s] \in Shapes
         /\ LET r == [q EXCEPT !.step = s] IN
            /\ r.step = s /\ r.who = q.who /\ r.place = q.place
            /\ r.stars = q.stars /\ r.id = q.id
BY DEF Shapes

LEMMA GoToMoves ==
  ASSUME req \in [Handlers -> Shapes], NEW h \in Handlers, NEW s \in Steps, GoTo(h, s)
  PROVE  /\ req' \in [Handlers -> Shapes]
         /\ Goes(h, s)
         /\ \A g \in Handlers \ {h} : req'[g] = req[g]
<1>1. req[h] \in Shapes
  OBVIOUS
<1>2. req' = [req EXCEPT ![h] = [req[h] EXCEPT !.step = s]]
  BY DEF GoTo
<1>3. [req[h] EXCEPT !.step = s] \in Shapes
  BY <1>1, StepShape
<1>4. req'[h] = [req[h] EXCEPT !.step = s]
  BY <1>2
<1>5. Goes(h, s)
  BY <1>1, <1>4, StepShape DEF Goes
<1> QED BY <1>2, <1>3, <1>5, SetMoves

LEMMA UnfreshShape ==
  ASSUME NEW q \in Shapes
  PROVE  /\ [q EXCEPT !.fresh = FALSE] \in Shapes
         /\ LET r == [q EXCEPT !.fresh = FALSE] IN
            /\ r.step = q.step /\ r.who = q.who /\ r.place = q.place
            /\ r.stars = q.stars /\ r.id = q.id /\ r.read = q.read /\ r.fresh = FALSE
BY DEF Shapes

LEMMA StalingMoves ==
  ASSUME req \in [Handlers -> Shapes], NEW h \in Handlers, NEW s \in Steps, NEW p,
         GoOnStaling(h, s, p)
  PROVE  /\ req' \in [Handlers -> Shapes]
         /\ Goes(h, s)
         /\ \A g \in Handlers \ {h} :
              /\ Kept(g)
              /\ req[g].place = p /\ req[g].step = "sum.write" => ~req'[g].fresh
<1>1. \A g \in Handlers : req[g] \in Shapes
  OBVIOUS
<1>2. [req[h] EXCEPT !.step = s] \in Shapes
  BY <1>1, StepShape
<1>3. \A g \in Handlers : [req[g] EXCEPT !.fresh = FALSE] \in Shapes
  BY <1>1, UnfreshShape
<1>4. req' \in [Handlers -> Shapes]
  BY <1>1, <1>2, <1>3 DEF GoOnStaling
<1>5. req'[h] = [req[h] EXCEPT !.step = s]
  BY DEF GoOnStaling
<1>6. Goes(h, s)
  BY <1>1, <1>5, StepShape DEF Goes
<1>7. ASSUME NEW g \in Handlers \ {h}
      PROVE  /\ Kept(g)
             /\ req[g].place = p /\ req[g].step = "sum.write" => ~req'[g].fresh
  <2>1. CASE req[g].place = p /\ req[g].step = "sum.write"
    <3>1. req'[g] = [req[g] EXCEPT !.fresh = FALSE]
      BY <2>1 DEF GoOnStaling
    <3> QED BY <3>1, <1>1, UnfreshShape DEF Kept
  <2>2. CASE ~(req[g].place = p /\ req[g].step = "sum.write")
    <3>1. req'[g] = req[g]
      BY <2>2 DEF GoOnStaling
    <3> QED BY <3>1, <2>2 DEF Kept
  <2> QED BY <2>1, <2>2
<1> QED BY <1>4, <1>6, <1>7

LEMMA StaleMoves ==
  ASSUME req \in [Handlers -> Shapes], NEW P, Stale(P)
  PROVE  /\ req' \in [Handlers -> Shapes]
         /\ \A g \in Handlers :
              /\ Kept(g)
              /\ req[g].place \in P /\ req[g].step = "sum.write" => ~req'[g].fresh
<1>1. \A g \in Handlers : req[g] \in Shapes
  OBVIOUS
<1>3. \A g \in Handlers : [req[g] EXCEPT !.fresh = FALSE] \in Shapes
  BY <1>1, UnfreshShape
<1>4. req' \in [Handlers -> Shapes]
  BY <1>1, <1>3 DEF Stale
<1>7. ASSUME NEW g \in Handlers
      PROVE  /\ Kept(g)
             /\ req[g].place \in P /\ req[g].step = "sum.write" => ~req'[g].fresh
  <2>1. CASE req[g].place \in P /\ req[g].step = "sum.write"
    <3>1. req'[g] = [req[g] EXCEPT !.fresh = FALSE]
      BY <2>1 DEF Stale
    <3> QED BY <3>1, <1>1, UnfreshShape DEF Kept
  <2>2. CASE ~(req[g].place \in P /\ req[g].step = "sum.write")
    <3>1. req'[g] = req[g]
      BY <2>2 DEF Stale
    <3> QED BY <3>1, <2>2 DEF Kept
  <2> QED BY <2>1, <2>2
<1> QED BY <1>4, <1>7

-----------------------------------------------------------------------------
(* One request goes on, is taken up or ends, and no table changes. *)
Quiet(h, q) ==
  /\ q \in Shapes /\ req' = [req EXCEPT ![h] = q]
  /\ UNCHANGED <<ratings, present, summary, live, banned, used>>

LEMMA QuietOne ==
  ASSUME OneInv, NEW h \in Handlers, NEW q, Quiet(h, q), drifted' \subseteq Places,
         About(q),
         Carries(q) =>
           /\ q.id \in used
           /\ \A r \in ratings : r.id = q.id =>
                r.place = q.place /\ (q.step = "rate.save" => r.author = q.who)
           /\ \A g \in Handlers : Carries(req[g]) /\ req[g].id = q.id =>
                /\ req[g].place = q.place
                /\ req[g].step = "rate.save" /\ q.step = "rate.save" => req[g].who = q.who
  PROVE  OneInv'
<1>1. /\ req' \in [Handlers -> Shapes] /\ req'[h] = q
      /\ \A g \in Handlers \ {h} : req'[g] = req[g]
  BY SetMoves DEF OneInv, TypeInv, Shape, Quiet
<1>2. Shape'
  BY <1>1 DEF OneInv, TypeInv, Shape, Quiet
<1>3. AboutOK'
  BY <1>1 DEF OneInv, TypeInv, AboutOK, About
<1>4. \A r \in ratings' : r.id \in used'
  BY DEF OneInv, IdsOK, Quiet
<1>5. ASSUME NEW g \in Handlers, Carries(req'[g])
      PROVE  /\ req'[g].id \in used'
             /\ \A r \in ratings' : r.id = req'[g].id =>
                  /\ r.place = req'[g].place
                  /\ req'[g].step = "rate.save" => r.author = req'[g].who
  <2>1. CASE g = h
    BY <1>1, <1>5, <2>1 DEF Quiet
  <2>2. CASE g # h
    BY <1>1, <1>5, <2>2 DEF OneInv, IdsOK, Quiet
  <2> QED BY <2>1, <2>2
<1>6. ASSUME NEW f \in Handlers, NEW g \in Handlers,
             Carries(req'[f]), Carries(req'[g]), req'[f].id = req'[g].id
      PROVE  /\ req'[f].place = req'[g].place
             /\ req'[f].step = "rate.save" /\ req'[g].step = "rate.save" =>
                  req'[f].who = req'[g].who
  <2>1. CASE f = h \/ g = h
    BY <1>1, <1>6, <2>1
  <2>2. CASE f # h /\ g # h
    BY <1>1, <1>6, <2>2 DEF OneInv, IdsOK
  <2> QED BY <2>1, <2>2
<1>7. IdsOK'
  BY <1>4, <1>5, <1>6 DEF IdsOK, Carries
<1>8. OneRatingPerPerson'
  BY DEF OneInv, OneRatingPerPerson, Quiet
<1> QED BY <1>2, <1>3, <1>7, <1>8 DEF OneInv, TypeInv

(* A request that carries nothing is taken up, goes on or ends. *)
LEMMA EmptyHanded ==
  ASSUME OneInv, NEW h \in Handlers, NEW q, Quiet(h, q), drifted' \subseteq Places,
         About(q),
         ~Carries(q)
  PROVE  OneInv'
BY QuietOne

LEMMA AnsweredOne ==
  ASSUME OneInv, NEW h \in Handlers, Answered(h), drifted' \subseteq Places,
         UNCHANGED <<ratings, present, summary, live, banned, used>>
  PROVE  OneInv'
<1>1. Quiet(h, Idle)
  BY IdleShape DEF Quiet, Answered
<1> QED BY <1>1, IdleShape, EmptyHanded DEF Carries, About

LEMMA GoToOne ==
  ASSUME OneInv, NEW h \in Handlers, NEW s \in Steps, GoTo(h, s), drifted' \subseteq Places,
         UNCHANGED <<ratings, present, summary, live, banned, used>>,
         req[h].step # "idle",
         s \in {"rate.place", "rate.find", "rate.save"} =>
           req[h].step \in {"rate.place", "rate.find", "rate.save"},
         s \notin {"rate.save", "drop.row"}
  PROVE  OneInv'
<1>1. req \in [Handlers -> Shapes] /\ req[h] \in Shapes
  BY DEF OneInv, TypeInv, Shape
<1> DEFINE q == [req[h] EXCEPT !.step = s]
<1>2. q \in Shapes /\ q.step = s /\ q.stars = req[h].stars /\ q.place = req[h].place
  BY <1>1, StepShape
<1>3. Quiet(h, q)
  BY <1>2 DEF Quiet, GoTo
<1>4. About(q)
  BY <1>2 DEF OneInv, TypeInv, AboutOK, About
<1>5. ~Carries(q)
  BY <1>2 DEF Carries
<1> HIDE DEF q
<1> QED BY <1>3, <1>4, <1>5, EmptyHanded

-----------------------------------------------------------------------------
LEMMA InitOne == Init => OneInv
<1> SUFFICES ASSUME Init PROVE OneInv
  OBVIOUS
<1>1. req \in [Handlers -> Shapes] /\ \A h \in Handlers : req[h].step = "idle"
  BY IdleShape DEF Init
<1>2. summary \in [Places -> Reads]
  BY EmptySummary DEF Init
<1>3. Shape
  <2>1. {} \in Tables
    BY FS_EmptySet DEF Tables
  <2> QED BY <1>1, <1>2, <2>1 DEF Init, Shape
<1>4. AboutOK
  BY <1>1 DEF AboutOK, About
<1>5. IdsOK
  BY <1>1 DEF Init, IdsOK, Carries
<1>6. OneRatingPerPerson
  BY DEF Init, OneRatingPerPerson
<1> QED BY <1>3, <1>4, <1>5, <1>6 DEF OneInv, TypeInv

LEMMA ArrivalOne ==
  ASSUME OneInv, NEW h \in Handlers, PutRating(h) \/ DeleteRating(h)
  PROVE  OneInv'
<1>1. used \subseteq Ids /\ drifted \subseteq Places
  BY DEF OneInv, TypeInv, Shape
<1>2. CASE PutRating(h)
  <2>1. PICK u \in Accounts, p \in Places, s \in Stars :
          Arrive(h, "rate", Request("rate.place", u, p, s, None))
    BY <1>2 DEF PutRating
  <2> DEFINE q == Request("rate.place", u, p, s, None)
  <2>2. q \in Shapes
    BY RequestShape DEF Steps
  <2>3. q.step = "rate.place" /\ q.stars = s /\ q.place = p
    BY DEF Request
  <2>4. Quiet(h, q) /\ drifted' = drifted
    BY <2>1, <2>2 DEF Arrive, Quiet, places, accounts
  <2> HIDE DEF q
  <2> QED BY <1>1, <2>3, <2>4, EmptyHanded DEF Carries, About
<1>3. CASE DeleteRating(h)
  <2>1. PICK u \in Accounts, p \in Places, i \in used :
          Arrive(h, "remove", Request("drop.find", u, p, None, i))
    BY <1>3 DEF DeleteRating
  <2> DEFINE q == Request("drop.find", u, p, None, i)
  <2>2. q \in Shapes
    BY <1>1, RequestShape DEF Steps
  <2>3. q.step = "drop.find" /\ q.place = p
    BY DEF Request
  <2>4. Quiet(h, q) /\ drifted' = drifted
    BY <2>1, <2>2 DEF Arrive, Quiet, places, accounts
  <2> HIDE DEF q
  <2> QED BY <1>1, <2>3, <2>4, EmptyHanded DEF Carries, About
<1> QED BY <1>2, <1>3

LEMMA FindPublishedOne ==
  ASSUME OneInv, NEW h \in Handlers, FindPublished(h)
  PROVE  OneInv'
<1>1. drifted' \subseteq Places
  BY DEF FindPublished, OneInv, TypeInv, Shape
<1>2. UNCHANGED <<ratings, present, summary, live, banned, used>>
  BY DEF FindPublished, places, accounts
<1>3. CASE Answered(h)
  BY <1>1, <1>2, <1>3, AnsweredOne
<1>4. CASE GoTo(h, "rate.find")
  BY <1>1, <1>2, <1>4, GoToOne DEF FindPublished, Steps
<1> QED BY <1>3, <1>4 DEF FindPublished

(* The row found is the one rating of this person for this place. *)
LEMMA FindExistingOne ==
  ASSUME OneInv, NEW h \in Handlers, FindExisting(h)
  PROVE  OneInv'
<1>1. drifted' \subseteq Places
  BY DEF FindExisting, OneInv, TypeInv, Shape
<1>2. req[h] \in Shapes /\ req[h].step = "rate.find" /\ About(req[h])
  BY DEF FindExisting, OneInv, TypeInv, Shape, AboutOK
<1>3. PICK i \in Ids \cup {None} :
        /\ IF \E r \in RatingsOf(req[h].place) : r.author = req[h].who
           THEN \E r \in RatingsOf(req[h].place) : r.author = req[h].who /\ i = r.id
           ELSE i = None
        /\ req' = [req EXCEPT ![h].step = "rate.save", ![h].id = i]
  BY DEF FindExisting
<1> DEFINE q == [req[h] EXCEPT !.step = "rate.save", !.id = i]
<1>4. /\ q \in Shapes /\ q.step = "rate.save" /\ q.id = i /\ q.stars = req[h].stars
      /\ q.place = req[h].place /\ q.who = req[h].who
  BY <1>2 DEF Shapes, Steps
<1>5. Quiet(h, q)
  BY <1>3, <1>4 DEF Quiet, FindExisting, places, accounts
<1> HIDE DEF q
<1>6. CASE i = None
  BY <1>1, <1>2, <1>4, <1>5, <1>6, EmptyHanded DEF Carries, About
<1>7. CASE i # None
  <2>1. PICK r \in ratings : r.place = req[h].place /\ r.author = req[h].who /\ r.id = i
    BY <1>3, <1>7 DEF RatingsOf
  <2>2. i \in used
    BY <2>1 DEF OneInv, IdsOK
  <2>3. \A s \in ratings : s.id = i => s = r
    BY <2>1 DEF OneInv, OneRatingPerPerson
  <2>4. ASSUME NEW g \in Handlers, Carries(req[g]), req[g].id = i
        PROVE  /\ req[g].place = r.place
               /\ req[g].step = "rate.save" => req[g].who = r.author
    BY <2>1, <2>4 DEF OneInv, IdsOK
  <2> QED BY <1>1, <1>2, <1>4, <1>5, <2>1, <2>2, <2>3, <2>4, QuietOne DEF About
<1> QED BY <1>6, <1>7

LEMMA FindRatingOne ==
  ASSUME OneInv, NEW h \in Handlers, FindRating(h)
  PROVE  OneInv'
<1>1. drifted' \subseteq Places
  BY DEF FindRating, OneInv, TypeInv, Shape
<1>2. UNCHANGED <<ratings, present, summary, live, banned, used>>
  BY DEF FindRating, places, accounts
<1>3. CASE Answered(h)
  BY <1>1, <1>2, <1>3, AnsweredOne
<1>4. CASE /\ GoTo(h, "drop.row")
           /\ \E r \in RatingsOf(req[h].place) : r.id = req[h].id
  <2>1. req[h] \in Shapes /\ "drop.row" \in Steps
    BY DEF OneInv, TypeInv, Shape, Steps
  <2> DEFINE q == [req[h] EXCEPT !.step = "drop.row"]
  <2>2. /\ q \in Shapes /\ q.step = "drop.row" /\ q.id = req[h].id
        /\ q.place = req[h].place /\ q.stars = req[h].stars
    BY <2>1, StepShape
  <2>3. Quiet(h, q)
    BY <1>2, <1>4, <2>2 DEF Quiet, GoTo
  <2> HIDE DEF q
  <2>4. PICK r \in ratings : r.place = req[h].place /\ r.id = req[h].id
    BY <1>4 DEF RatingsOf
  <2>5. r.id \in used
    BY <2>4 DEF OneInv, IdsOK
  <2>6. \A s \in ratings : s.id = r.id => s = r
    BY DEF OneInv, OneRatingPerPerson
  <2>7. \A g \in Handlers : Carries(req[g]) /\ req[g].id = r.id => req[g].place = r.place
    BY DEF OneInv, IdsOK
  <2>8. About(q)
    BY <2>2 DEF OneInv, TypeInv, AboutOK, About, FindRating
  <2> QED BY <1>1, <2>2, <2>3, <2>4, <2>5, <2>6, <2>7, <2>8, QuietOne
<1> QED BY <1>3, <1>4 DEF FindRating

LEMMA ReadSummaryOne ==
  ASSUME OneInv, NEW h \in Handlers, ReadSummary(h)
  PROVE  OneInv'
<1>1. drifted' \subseteq Places
  BY DEF ReadSummary, OneInv, TypeInv, Shape
<1>2. req[h] \in Shapes /\ ratings \in Tables /\ req[h].place \in Places
  BY DEF OneInv, TypeInv, Shape, AboutOK, About, ReadSummary
<1>3. SummaryOf(Listed(req[h].place)) \in Reads
  <2>1. Listed(req[h].place) \in Tables
    BY <1>2, FewerRows DEF Listed, RatingsOf
  <2> HIDE DEF SummaryOf, Listed
  <2> QED BY <2>1 DEF Reads
<1> DEFINE q == [req[h] EXCEPT !.step = "sum.write", !.fresh = TRUE,
                               !.read = SummaryOf(Listed(req[h].place))]
<1>4. q \in Shapes /\ q.step = "sum.write" /\ q.place = req[h].place
  BY <1>2, <1>3 DEF Shapes, Steps
<1>5. Quiet(h, q)
  BY <1>4 DEF Quiet, ReadSummary, places, accounts
<1> HIDE DEF q
<1> QED BY <1>1, <1>2, <1>4, <1>5, EmptyHanded DEF Carries, About

LEMMA WriteSummaryOne ==
  ASSUME OneInv, NEW h \in Handlers, WriteSummary(h)
  PROVE  OneInv'
<1>1. /\ req \in [Handlers -> Shapes] /\ present \subseteq Places /\ drifted \subseteq Places
      /\ summary \in [Places -> Reads]
  BY DEF OneInv, TypeInv, Shape
<1>2. /\ req' \in [Handlers -> Shapes] /\ req'[h].step = "idle"
      /\ \A g \in Handlers \ {h} : req'[g] = req[g]
  BY <1>1, AnsweredMoves DEF WriteSummary
<1>3. req[h].read \in Reads /\ req[h].place \in Places
  BY <1>1 DEF Shapes, OneInv, TypeInv, AboutOK, About, WriteSummary
<1>4. summary' \in [Places -> Reads]
  BY <1>1, <1>3 DEF WriteSummary
<1>5. drifted' \subseteq Places
  BY <1>1, <1>3 DEF WriteSummary
<1>6. UNCHANGED <<ratings, present, live, banned, used>>
  BY DEF WriteSummary, places, accounts
<1>7. Shape'
  BY <1>2, <1>4, <1>5, <1>6 DEF OneInv, TypeInv, Shape
<1>8. AboutOK'
  BY <1>2 DEF OneInv, TypeInv, AboutOK, About
<1>9. IdsOK'
  BY <1>2, <1>6 DEF OneInv, IdsOK, Carries
<1>10. OneRatingPerPerson'
  BY <1>6 DEF OneInv, OneRatingPerPerson
<1> QED BY <1>7, <1>8, <1>9, <1>10 DEF OneInv, TypeInv

LEMMA FailOne ==
  ASSUME OneInv, NEW h \in Handlers, Fail(h)
  PROVE  OneInv'
<1>1. drifted' \subseteq Places
  BY DEF Fail, OneInv, TypeInv, Shape
<1> QED BY <1>1, AnsweredOne DEF Fail, places, accounts

-----------------------------------------------------------------------------
(* The steps that write ratings.  Requests keep what they are about, except *)
(* for the one that writes, which goes on to the refresh.                   *)
LEMMA SaveOne ==
  ASSUME OneInv, NEW h \in Handlers, Save(h)
  PROVE  OneInv'
<1> DEFINE q == req[h]
           mine == {r \in RatingsOf(q.place) : r.author = q.who}
<1>1. /\ req \in [Handlers -> Shapes] /\ q \in Shapes /\ q.step = "rate.save"
      /\ q.stars \in Stars /\ used \subseteq Ids /\ drifted' = drifted
      /\ UNCHANGED <<present, summary, live, banned>>
  BY DEF OneInv, TypeInv, Shape, AboutOK, About, Save, places, accounts
<1>2. CASE Answered(h) /\ UNCHANGED <<ratings, used>>
  BY <1>1, <1>2, AnsweredOne DEF OneInv, TypeInv, Shape
<1>3. CASE \E i \in IF q.id = None THEN Ids \ used ELSE {q.id} :
             /\ q.place \in present /\ q.who \in live
             /\ ratings' = (ratings \ mine) \cup {Rating(i, q)}
             /\ used' = used \cup {i}
             /\ GoOnStaling(h, "sum.read", q.place)
  <2>1. PICK i \in IF q.id = None THEN Ids \ used ELSE {q.id} :
             /\ q.place \in present /\ q.who \in live
             /\ ratings' = (ratings \ mine) \cup {Rating(i, q)}
             /\ used' = used \cup {i}
             /\ GoOnStaling(h, "sum.read", q.place)
    BY <1>3
  <2> DEFINE new == Rating(i, q)
  <2>2. /\ req' \in [Handlers -> Shapes] /\ Goes(h, "sum.read")
        /\ \A g \in Handlers \ {h} : Kept(g)
    BY <1>1, <2>1, StalingMoves DEF Steps
  <2>3. i \in Ids /\ q.place \in Places /\ q.who \in Accounts
    BY <1>1, <2>1 DEF Shapes, OneInv, TypeInv, Shape
  <2>4. new \in Rows /\ new.id = i /\ new.place = q.place /\ new.author = q.who
    BY <1>1, <2>3 DEF Rating, Rows
  <2>5. \A r \in ratings \ mine : r.id # i
    BY <1>1, <2>1 DEF OneInv, IdsOK, Carries, RatingsOf
  <2>6. \A g \in Handlers : Carries(req[g]) /\ req[g].id = i =>
          /\ req[g].place = q.place
          /\ req[g].step = "rate.save" => req[g].who = q.who
    BY <1>1, <2>1 DEF OneInv, IdsOK, Carries
  <2>7. \A r \in ratings \ mine : ~(r.place = q.place /\ r.author = q.who)
    BY DEF RatingsOf
  <2>8. ratings' = (ratings \ mine) \cup {new} /\ used' = used \cup {i}
    BY <2>1
  <2> HIDE DEF new, mine, q
  <2>9. Shape'
    <3>1. ratings' \in Tables
      BY <2>4, <2>8, FewerRows, AnotherRow DEF OneInv, TypeInv, Shape
    <3> QED BY <1>1, <2>2, <2>3, <2>8, <3>1 DEF OneInv, TypeInv, Shape
  <2>10. AboutOK'
    BY <1>1, <2>2 DEF OneInv, TypeInv, AboutOK, About, Goes, Kept, q
  <2>11. OneRatingPerPerson'
    BY <2>4, <2>5, <2>7, <2>8 DEF OneInv, OneRatingPerPerson
  <2>12. \A g \in Handlers : Carries(req'[g]) =>
           /\ g # h /\ Carries(req[g]) /\ req'[g].id = req[g].id
           /\ req'[g].place = req[g].place /\ req'[g].who = req[g].who
           /\ req'[g].step = req[g].step
    BY <2>2 DEF Carries, Goes, Kept
  <2>13. \A r \in ratings' : r.id \in used'
    BY <2>4, <2>8 DEF OneInv, IdsOK
  <2>14. ASSUME NEW g \in Handlers, Carries(req'[g])
         PROVE  /\ req'[g].id \in used'
                /\ \A r \in ratings' : r.id = req'[g].id =>
                     /\ r.place = req'[g].place
                     /\ req'[g].step = "rate.save" => r.author = req'[g].who
    <3>1. req[g].id \in used'
      BY <2>8, <2>12, <2>14 DEF OneInv, IdsOK
    <3>2. ASSUME NEW r \in ratings', r.id = req[g].id
          PROVE  /\ r.place = req[g].place
                 /\ req[g].step = "rate.save" => r.author = req[g].who
      <4>1. CASE r = new
        BY <2>4, <2>6, <2>12, <2>14, <3>2, <4>1
      <4>2. CASE r \in ratings
        BY <2>12, <2>14, <3>2, <4>2 DEF OneInv, IdsOK
      <4> QED BY <2>8, <4>1, <4>2
    <3> QED BY <2>12, <2>14, <3>1, <3>2
  <2>15. IdsOK'
    <3>1. \A f, g \in Handlers :
            Carries(req'[f]) /\ Carries(req'[g]) /\ req'[f].id = req'[g].id =>
              /\ req'[f].place = req'[g].place
              /\ req'[f].step = "rate.save" /\ req'[g].step = "rate.save" =>
                   req'[f].who = req'[g].who
      BY <2>12 DEF OneInv, IdsOK
    <3> QED BY <2>13, <2>14, <3>1 DEF IdsOK, Carries
  <2> QED BY <2>9, <2>10, <2>11, <2>15 DEF OneInv, TypeInv
<1> QED BY <1>2, <1>3 DEF Save

(* Some ratings go, and nothing is forgotten about those that stay. *)
LEMMA FewerOne ==
  ASSUME OneInv, ratings' \subseteq ratings, used' = used, drifted' \subseteq Places,
         present' \subseteq present, live' \subseteq live, banned' \subseteq live',
         summary' = summary, req' \in [Handlers -> Shapes],
         \A g \in Handlers :
           /\ req'[g].who = req[g].who /\ req'[g].place = req[g].place
           /\ req'[g].stars = req[g].stars /\ req'[g].id = req[g].id
           /\ \/ req'[g].step = req[g].step
              \/ req'[g].step = "sum.read" /\ req[g].step # "idle"
  PROVE  OneInv'
<1>1. Shape'
  BY FewerRows DEF OneInv, TypeInv, Shape
<1>2. AboutOK'
  BY DEF OneInv, TypeInv, AboutOK, About
<1>3. OneRatingPerPerson'
  BY DEF OneInv, OneRatingPerPerson
<1>4. \A g \in Handlers : Carries(req'[g]) =>
        /\ Carries(req[g]) /\ req'[g].id = req[g].id
        /\ req'[g].place = req[g].place /\ req'[g].who = req[g].who
        /\ req'[g].step = req[g].step
  BY DEF Carries
<1>5. IdsOK
  BY DEF OneInv
<1>6. /\ \A r \in ratings' : r.id \in used'
      /\ \A g \in Handlers : Carries(req'[g]) =>
           /\ req'[g].id \in used'
           /\ \A r \in ratings' : r.id = req'[g].id =>
                /\ r.place = req'[g].place
                /\ req'[g].step = "rate.save" => r.author = req'[g].who
  BY <1>4, <1>5 DEF IdsOK
<1>7. \A f, g \in Handlers :
        Carries(req'[f]) /\ Carries(req'[g]) /\ req'[f].id = req'[g].id =>
          /\ req'[f].place = req'[g].place
          /\ req'[f].step = "rate.save" /\ req'[g].step = "rate.save" =>
               req'[f].who = req'[g].who
  BY <1>4, <1>5 DEF IdsOK
<1>8. IdsOK'
  BY <1>6, <1>7 DEF IdsOK, Carries
<1> QED BY <1>1, <1>2, <1>3, <1>8 DEF OneInv, TypeInv

LEMMA DropRowOne ==
  ASSUME OneInv, NEW h \in Handlers, DropRow(h)
  PROVE  OneInv'
<1>1. /\ req \in [Handlers -> Shapes] /\ req[h].step = "drop.row"
      /\ drifted \subseteq Places /\ banned \subseteq live
  BY DEF OneInv, TypeInv, Shape, DropRow
<1>2. /\ req' \in [Handlers -> Shapes] /\ Goes(h, "sum.read")
      /\ \A g \in Handlers \ {h} : Kept(g)
  BY <1>1, StalingMoves DEF DropRow, Steps
<1>3. /\ ratings' \subseteq ratings
      /\ UNCHANGED <<present, summary, live, banned, used, drifted>>
  BY DEF DropRow, places, accounts
<1> QED BY <1>1, <1>2, <1>3, FewerOne DEF Goes, Kept

LEMMA OthersOne ==
  ASSUME OneInv,
         \/ \E u \in Accounts : SetBanStatus(u) \/ DeleteUser(u)
         \/ \E p \in Places : SetPublished(p)
  PROVE  OneInv'
<1>1. /\ req \in [Handlers -> Shapes] /\ drifted \subseteq Places /\ banned \subseteq live
      /\ \A u : RatedBy(u) \subseteq Places
  BY DEF OneInv, TypeInv, Shape, Tables, RatedBy, Rows
<1>2. ASSUME NEW u \in Accounts, SetBanStatus(u) PROVE OneInv'
  <2>1. req' \in [Handlers -> Shapes] /\ \A g \in Handlers : Kept(g)
    BY <1>1, <1>2, StaleMoves DEF SetBanStatus
  <2>2. drifted' \subseteq Places
    BY <1>1, <1>2 DEF SetBanStatus, Stale
  <2>3. /\ banned' \subseteq live /\ UNCHANGED <<ratings, present, summary, live, used>>
    BY <1>1, <1>2 DEF SetBanStatus, places
  <2> QED BY <2>1, <2>2, <2>3, FewerOne DEF Kept
<1>3. ASSUME NEW u \in Accounts, DeleteUser(u) PROVE OneInv'
  <2>1. req' \in [Handlers -> Shapes] /\ \A g \in Handlers : Kept(g)
    BY <1>1, <1>3, StaleMoves DEF DeleteUser
  <2>2. drifted' \subseteq Places
    BY <1>1, <1>3 DEF DeleteUser, Stale
  <2>3. /\ banned' \subseteq live' /\ live' \subseteq live
        /\ ratings' \subseteq ratings /\ present' \subseteq present
        /\ UNCHANGED <<summary, used>>
    BY <1>1, <1>3 DEF DeleteUser
  <2> QED BY <2>1, <2>2, <2>3, FewerOne DEF Kept
<1>4. ASSUME NEW p \in Places, SetPublished(p) PROVE OneInv'
  <2>1. UNCHANGED <<ratings, present, summary, live, banned, used, req, drifted>>
    BY <1>4 DEF SetPublished, accounts
  <2> QED BY <1>1, <2>1, FewerOne
<1> QED BY <1>2, <1>3, <1>4

LEMMA StepCases ==
  ASSUME Next
  PROVE  \/ \E h \in Handlers :
              \/ PutRating(h) \/ DeleteRating(h)
              \/ FindPublished(h) \/ FindExisting(h) \/ Save(h)
              \/ FindRating(h) \/ DropRow(h)
              \/ ReadSummary(h) \/ WriteSummary(h)
              \/ Fail(h)
         \/ \/ \E u \in Accounts : SetBanStatus(u) \/ DeleteUser(u)
            \/ \E p \in Places : SetPublished(p)
BY DEF Next

LEMMA StutterOne == OneInv /\ UNCHANGED vars => OneInv'
BY DEF vars, places, accounts, OneInv, TypeInv, Shape, AboutOK, About, IdsOK, Carries,
       OneRatingPerPerson

LEMMA NextOne == OneInv /\ [Next]_vars => OneInv'
<1> SUFFICES ASSUME OneInv, [Next]_vars PROVE OneInv'
  OBVIOUS
<1>1. CASE Next
  BY <1>1, StepCases, ArrivalOne, FindPublishedOne, FindExistingOne, SaveOne, FindRatingOne,
     DropRowOne, ReadSummaryOne, WriteSummaryOne, FailOne, OthersOne
<1>2. CASE UNCHANGED vars
  BY <1>2, StutterOne
<1> QED BY <1>1, <1>2

LEMMA OneAlways == Spec => []OneInv
<1> QED BY InitOne, NextOne, PTL DEF Spec

(* No two rows share an id, and none share their author and their place,    *)
(* although FindExisting and Save are statements apart and a stale Save can *)
(* insert a row again that was removed.                                     *)
THEOREM RatingsAreUnique == Spec => []OneRatingPerPerson
<1>1. OneInv => OneRatingPerPerson
  BY DEF OneInv
<1> QED BY <1>1, OneAlways, PTL

-----------------------------------------------------------------------------
(* The tables refer to rows that exist: whatever takes an account or a      *)
(* place away takes the ratings by it and of it away.                       *)
Refers == /\ published \subseteq Places
          /\ \A r \in ratings : r.place \in present /\ r.author \in live

LEMMA SaveRefers ==
  ASSUME OneInv, Refers, NEW h \in Handlers, Save(h)
  PROVE  Refers'
<1>1. UNCHANGED <<present, published, live>>
  BY DEF Save, places, accounts
<1>2. ASSUME NEW r \in ratings' PROVE r \in ratings \/ (r.place \in present /\ r.author \in live)
  BY DEF Save, Rating
<1> QED BY <1>1, <1>2 DEF Refers

LEMMA DeleteUserRefers ==
  ASSUME OneInv, Refers, NEW u \in Accounts, DeleteUser(u)
  PROVE  Refers'
BY DEF Refers, DeleteUser

LEMMA RefersStep == OneInv /\ Refers /\ [Next]_vars => Refers'
<1> SUFFICES ASSUME OneInv, Refers, [Next]_vars PROVE Refers'
  OBVIOUS
<1>1. CASE \E h \in Handlers : Save(h)
  BY <1>1, SaveRefers
<1>2. CASE \E u \in Accounts : DeleteUser(u)
  BY <1>2, DeleteUserRefers
<1>3. ASSUME NEW h \in Handlers, DropRow(h) PROVE Refers'
  BY <1>3 DEF DropRow, Refers, places, accounts
<1>4. ASSUME NEW p \in Places, SetPublished(p) PROVE Refers'
  BY <1>4 DEF SetPublished, Refers, accounts
<1>5. ASSUME UNCHANGED <<ratings, present, published, live>> PROVE Refers'
  BY <1>5 DEF Refers
<1>6. CASE \E h \in Handlers : \/ PutRating(h) \/ DeleteRating(h) \/ FindPublished(h)
                              \/ FindExisting(h) \/ FindRating(h) \/ ReadSummary(h)
                              \/ WriteSummary(h) \/ Fail(h)
  BY <1>5, <1>6 DEF PutRating, DeleteRating, Arrive, FindPublished, FindExisting, FindRating,
                    ReadSummary, WriteSummary, Fail, places, accounts
<1>7. CASE \/ \E u \in Accounts : SetBanStatus(u)
           \/ UNCHANGED vars
  BY <1>5, <1>7 DEF SetBanStatus, vars, places, accounts
<1> QED BY <1>1, <1>2, <1>3, <1>4, <1>6, <1>7 DEF Next

LEMMA ReadsScale ==
  ASSUME NEW read \in Reads
  PROVE  read \in Summaries /\ (read.mean = None <=> read.count = 0)
<1>1. PICK rows \in Tables : read = SummaryOf(rows)
  BY DEF Reads
<1> HIDE DEF SummaryOf
<1> QED BY <1>1, SummaryScale DEF Tables

(* The tables keep their shape and refer to rows that exist, and the mean   *)
(* of a place, cached or on its way there, stays on the scale of one to     *)
(* five stars and is there exactly when something is counted.               *)
THEOREM RatingsTypeCorrect == Spec => []TypeOK
<1>1. Init => Refers
  BY DEF Init, Refers
<1>2. OneInv /\ Refers => TypeOK
  <2> SUFFICES ASSUME OneInv, Refers PROVE TypeOK
    OBVIOUS
  <2>1. /\ ratings \subseteq Rows /\ present \subseteq Places
        /\ live \subseteq Accounts /\ banned \subseteq live /\ used \subseteq Ids
        /\ drifted \subseteq Places
        /\ summary \in [Places -> Reads] /\ req \in [Handlers -> Shapes]
    BY DEF OneInv, TypeInv, Shape, Tables
  <2>2. summary \in [Places -> Summaries]
    BY <2>1, ReadsScale
  <2>3. \A p \in Places : summary[p].mean = None <=> summary[p].count = 0
    BY <2>1, ReadsScale
  <2>4. Shapes \subseteq Requests
    BY ReadsScale DEF Shapes, Requests
  <2>5. req \in [Handlers -> Requests]
    BY <2>1, <2>4
  <2> QED BY <2>1, <2>2, <2>3, <2>5 DEF TypeOK, Refers
<1> QED BY <1>1, <1>2, OneAlways, RefersStep, PTL DEF Spec

-----------------------------------------------------------------------------
(* A refresh is between its statements. *)
SumStep(q) == q.step \in {"sum.read", "sum.write"}

(* One request goes on outside of a refresh, and nothing a summary depends  *)
(* on changes.                                                              *)
LEMMA OutsideHeals ==
  ASSUME IInv, NEW h \in Handlers,
         \A g \in Handlers \ {h} : req'[g] = req[g],
         ~SumStep(req[h]), ~SumStep(req'[h]),
         UNCHANGED <<ratings, present, summary, banned, drifted>>
  PROVE  FreshIsRight' /\ SummaryHeals'
<1>1. \A p : Listed(p)' = Listed(p) /\ Refreshing(p)' = Refreshing(p)
  BY DEF Listed, RatingsOf, Refreshing, SumStep
<1>2. FreshIsRight'
  BY <1>1 DEF IInv, FreshIsRight, SumStep
<1>3. SummaryHeals'
  BY <1>1 DEF IInv, SummaryHeals
<1> QED BY <1>2, <1>3

Looks(h) == \/ PutRating(h) \/ DeleteRating(h) \/ FindPublished(h) \/ FindExisting(h)
            \/ FindRating(h)

LEMMA QuietHeals ==
  ASSUME IInv, NEW h \in Handlers,
         Looks(h) \/ (Save(h) /\ Answered(h) /\ UNCHANGED ratings)
  PROVE  FreshIsRight' /\ SummaryHeals'
<1>1. req \in [Handlers -> Shapes] /\ req[h] \in Shapes
  BY DEF IInv, OneInv, TypeInv, Shape
<1>2. UNCHANGED <<ratings, present, summary, banned, drifted>>
  BY DEF Looks, PutRating, DeleteRating, Arrive, FindPublished, FindExisting, FindRating, Save,
         places, accounts
<1>3. ~SumStep(req[h])
  BY DEF Looks, PutRating, DeleteRating, Arrive, FindPublished, FindExisting, FindRating, Save, SumStep
<1>4. \E q : /\ req' = [req EXCEPT ![h] = q] /\ ~SumStep(q)
  <2>1. CASE Answered(h)
    BY <2>1, IdleShape DEF Answered, SumStep
  <2>2. CASE GoTo(h, "rate.find") \/ GoTo(h, "drop.row")
    BY <1>1, <2>2, StepShape DEF GoTo, SumStep, Steps
  <2>3. CASE FindExisting(h)
    <3>1. PICK i : req' = [req EXCEPT ![h].step = "rate.save", ![h].id = i]
      BY <2>3 DEF FindExisting
    <3>2. [req[h] EXCEPT !.step = "rate.save", !.id = i].step = "rate.save"
      BY <1>1 DEF Shapes
    <3> QED BY <3>1, <3>2 DEF SumStep
  <2>4. CASE PutRating(h)
    <3>1. PICK u \in Accounts, p \in Places, s \in Stars :
            req' = [req EXCEPT ![h] = Request("rate.place", u, p, s, None)]
      BY <2>4 DEF PutRating, Arrive
    <3>2. ~SumStep(Request("rate.place", u, p, s, None))
      BY DEF Request, SumStep
    <3> QED BY <3>1, <3>2
  <2>5. CASE DeleteRating(h)
    <3>1. PICK u \in Accounts, p \in Places, i \in used :
            req' = [req EXCEPT ![h] = Request("drop.find", u, p, None, i)]
      BY <2>5 DEF DeleteRating, Arrive
    <3>2. ~SumStep(Request("drop.find", u, p, None, i))
      BY DEF Request, SumStep
    <3> QED BY <3>1, <3>2
  <2> QED BY <2>1, <2>2, <2>3, <2>4, <2>5 DEF Looks, FindPublished, FindRating
<1>5. ~SumStep(req'[h]) /\ \A g \in Handlers \ {h} : req'[g] = req[g]
  BY <1>1, <1>4
<1> QED BY <1>2, <1>3, <1>5, OutsideHeals

(* A rating of p is written: whatever was read of p is out of date, and the *)
(* writer still has its own refresh to do.                                  *)
LEMMA WrittenHeals ==
  ASSUME IInv, NEW h \in Handlers,
         ~SumStep(req[h]), GoOnStaling(h, "sum.read", req[h].place),
         \A r : r.place # req[h].place => (r \in ratings' <=> r \in ratings),
         UNCHANGED <<present, summary, banned, drifted>>
  PROVE  FreshIsRight' /\ SummaryHeals'
<1> DEFINE p == req[h].place
<1>1. /\ Goes(h, "sum.read")
      /\ \A g \in Handlers \ {h} :
           /\ Kept(g)
           /\ req[g].place = p /\ req[g].step = "sum.write" => ~req'[g].fresh
  BY StalingMoves DEF IInv, OneInv, TypeInv, Shape, Steps
<1>2. \A o : o # p => Listed(o)' = Listed(o)
  BY DEF Listed, RatingsOf
<1>3. \A o : o # p => Refreshing(o)' = Refreshing(o)
  BY <1>1 DEF Refreshing, Goes, Kept
<1>5. FreshIsRight'
  <2> SUFFICES ASSUME NEW g \in Handlers, req'[g].step = "sum.write", req'[g].fresh,
                       req'[g].place \in present'
               PROVE  (req[g].read = SummaryOf(Listed(req[g].place)))'
    BY DEF FreshIsRight
  <2>1. g # h
    BY <1>1 DEF Goes
  <2>2. /\ req[g].step = "sum.write" /\ req[g].fresh /\ req[g].place # p
        /\ req[g].place \in present
        /\ req'[g].read = req[g].read /\ req'[g].place = req[g].place
    BY <1>1, <2>1 DEF Kept
  <2>3. req[g].read = SummaryOf(Listed(req[g].place))
    BY <2>2 DEF IInv, FreshIsRight
  <2>4. Listed(req[g].place)' = Listed(req[g].place)
    <3>1. PICK o : o = req[g].place /\ o = req'[g].place /\ o # p
      BY <2>2
    <3>2. Listed(o)' = Listed(o)
      BY <1>2, <3>1
    <3> QED BY <3>1, <3>2 DEF Listed, RatingsOf
  <2> QED BY <2>2, <2>3, <2>4
<1>6. SummaryHeals'
  <2> SUFFICES ASSUME NEW o \in present', Refreshing(o)' = {}, o \notin drifted'
               PROVE  (summary[o] = SummaryOf(Listed(o)))'
    BY DEF SummaryHeals
  <2>1. o # p
    BY <1>1 DEF Refreshing, Goes
  <2> HIDE DEF p
  <2>2. Refreshing(o) = {} /\ Listed(o)' = Listed(o)
    BY <1>2, <1>3, <2>1
  <2>3. summary[o] = SummaryOf(Listed(o))
    BY <2>2 DEF IInv, SummaryHeals
  <2> QED BY <2>2, <2>3
<1> QED BY <1>5, <1>6

LEMMA SaveHeals ==
  ASSUME IInv, NEW h \in Handlers, Save(h)
  PROVE  FreshIsRight' /\ SummaryHeals'
<1>1. CASE Answered(h) /\ UNCHANGED ratings
  BY <1>1, QuietHeals
<1>2. CASE \E i : /\ GoOnStaling(h, "sum.read", req[h].place)
                  /\ ratings' = (ratings \ {r \in RatingsOf(req[h].place) : r.author = req[h].who})
                                  \cup {Rating(i, req[h])}
  <2>1. ~SumStep(req[h]) /\ UNCHANGED <<present, summary, banned, drifted>>
    BY DEF Save, SumStep, places, accounts
  <2>2. \A r : r.place # req[h].place => (r \in ratings' <=> r \in ratings)
    BY <1>2 DEF RatingsOf, Rating
  <2> QED BY <1>2, <2>1, <2>2, WrittenHeals
<1> QED BY <1>1, <1>2 DEF Save

(* The row that goes is one of this place: an id is of one place for ever.  *)
LEMMA DropRowHeals ==
  ASSUME IInv, NEW h \in Handlers, DropRow(h)
  PROVE  FreshIsRight' /\ SummaryHeals'
<1>1. /\ ~SumStep(req[h]) /\ UNCHANGED <<present, summary, banned, drifted>>
      /\ GoOnStaling(h, "sum.read", req[h].place)
      /\ ratings' = {r \in ratings : r.id # req[h].id}
  BY DEF DropRow, SumStep, places, accounts
<1>2. \A r \in ratings : r.id = req[h].id => r.place = req[h].place
  <2>1. CASE req[h].id = None
    <3>1. \A r \in ratings : r.id \in Ids
      BY DEF IInv, OneInv, TypeInv, Shape, Tables, Rows
    <3> QED BY <2>1, <3>1, RatingsAssumption
  <2>2. CASE req[h].id # None
    BY <2>2 DEF IInv, OneInv, IdsOK, Carries, DropRow
  <2> QED BY <2>1, <2>2
<1>3. \A r : r.place # req[h].place => (r \in ratings' <=> r \in ratings)
  BY <1>1, <1>2
<1> QED BY <1>1, <1>3, WrittenHeals

LEMMA ReadSummaryHeals ==
  ASSUME IInv, NEW h \in Handlers, ReadSummary(h)
  PROVE  FreshIsRight' /\ SummaryHeals'
<1> DEFINE q == [req[h] EXCEPT !.step = "sum.write", !.fresh = TRUE,
                               !.read = SummaryOf(Listed(req[h].place))]
<1>1. req \in [Handlers -> Shapes] /\ req[h] \in Shapes /\ req[h].step = "sum.read"
  BY DEF IInv, OneInv, TypeInv, Shape, ReadSummary
<1>2. /\ q.step = "sum.write" /\ q.place = req[h].place
      /\ q.read = SummaryOf(Listed(req[h].place))
  BY <1>1 DEF Shapes
<1>3. /\ req' = [req EXCEPT ![h] = q]
      /\ UNCHANGED <<ratings, present, summary, banned, drifted>>
  BY DEF ReadSummary, places, accounts
<1> HIDE DEF q
<1>4. req'[h] = q /\ \A g \in Handlers \ {h} : req'[g] = req[g]
  BY <1>1, <1>3
<1>5. \A p : Listed(p)' = Listed(p) /\ Refreshing(p)' = Refreshing(p)
  BY <1>1, <1>2, <1>3, <1>4 DEF Listed, RatingsOf, Refreshing
<1>6. FreshIsRight'
  BY <1>2, <1>3, <1>4, <1>5 DEF IInv, FreshIsRight
<1>7. SummaryHeals'
  BY <1>3, <1>5 DEF IInv, SummaryHeals
<1> QED BY <1>6, <1>7

(* The end of a request: what it was refreshing is right, or is known to    *)
(* have drifted.                                                            *)
LEMMA EndHeals ==
  ASSUME IInv, NEW h \in Handlers, WriteSummary(h) \/ Fail(h)
  PROVE  FreshIsRight' /\ SummaryHeals'
<1>1. /\ req \in [Handlers -> Shapes] /\ summary \in [Places -> Reads]
      /\ present \subseteq Places
  BY DEF IInv, OneInv, TypeInv, Shape
<1>2. /\ req'[h].step = "idle"
      /\ \A g \in Handlers \ {h} : req'[g] = req[g]
  BY <1>1, AnsweredMoves DEF WriteSummary, Fail
<1>3. UNCHANGED <<ratings, present, banned>>
  BY DEF WriteSummary, Fail, places, accounts
<1>4. \A p : Listed(p)' = Listed(p)
  BY <1>3 DEF Listed, RatingsOf
<1>5. FreshIsRight'
  BY <1>2, <1>3, <1>4 DEF IInv, FreshIsRight
<1>6. \A p : ~(h \in Refreshing(p)) => Refreshing(p)' = Refreshing(p)
  BY <1>2 DEF Refreshing
<1>7. ASSUME NEW p \in present', Refreshing(p)' = {}, p \notin drifted'
      PROVE  summary'[p] = SummaryOf(Listed(p))'
  <2>1. CASE h \notin Refreshing(p)
    <3>1. summary'[p] = summary[p] /\ p \notin drifted
      <4>1. CASE Fail(h)
        BY <1>7, <4>1 DEF Fail
      <4>2. CASE WriteSummary(h)
        <5>1. req[h].place # p
          BY <2>1, <4>2 DEF WriteSummary, Refreshing
        <5> QED BY <1>1, <1>7, <4>2, <5>1 DEF WriteSummary
      <4> QED BY <4>1, <4>2
    <3>2. summary[p] = SummaryOf(Listed(p))
      BY <1>3, <1>6, <1>7, <2>1, <3>1 DEF IInv, SummaryHeals
    <3> QED BY <1>4, <3>1, <3>2
  <2>2. CASE h \in Refreshing(p)
    <3>1. WriteSummary(h)
      BY <1>1, <1>3, <1>7, <2>2 DEF Fail
    <3>2. /\ req[h].place = p /\ req[h].step = "sum.write" /\ req[h].fresh
          /\ p \in present
      BY <1>3, <1>7, <2>2, <3>1 DEF WriteSummary, Refreshing
    <3>3. req[h].read = SummaryOf(Listed(p))
      BY <3>2 DEF IInv, FreshIsRight
    <3>4. summary'[p] = req[h].read
      BY <1>1, <1>3, <3>1, <3>2 DEF WriteSummary
    <3> QED BY <1>4, <3>3, <3>4
  <2> QED BY <2>1, <2>2
<1>8. SummaryHeals'
  BY <1>7 DEF SummaryHeals
<1> QED BY <1>5, <1>8

(* What happens to accounts and places: a summary that is no longer right   *)
(* counts as drifted, and so does what was read for it.                     *)
LEMMA StaleHeals ==
  ASSUME IInv, NEW P, Stale(P), present' \subseteq present, summary' = summary,
         \A p \in present' \ P : Listed(p)' = Listed(p)
  PROVE  FreshIsRight' /\ SummaryHeals'
<1>1. \A g \in Handlers :
        /\ Kept(g)
        /\ req[g].place \in P /\ req[g].step = "sum.write" => ~req'[g].fresh
  BY StaleMoves DEF IInv, OneInv, TypeInv, Shape
<1>2. \A p : Refreshing(p)' = Refreshing(p)
  BY <1>1 DEF Refreshing, Kept
<1>3. FreshIsRight'
  <2> SUFFICES ASSUME NEW g \in Handlers, req'[g].step = "sum.write", req'[g].fresh,
                       req'[g].place \in present'
               PROVE  (req[g].read = SummaryOf(Listed(req[g].place)))'
    BY DEF FreshIsRight
  <2>1. /\ req[g].step = "sum.write" /\ req[g].fresh
        /\ req[g].place \in present' \ P
        /\ req'[g].read = req[g].read /\ req'[g].place = req[g].place
    BY <1>1 DEF Kept
  <2>2. req[g].read = SummaryOf(Listed(req[g].place))
    BY <2>1 DEF IInv, FreshIsRight
  <2>3. Listed(req[g].place)' = Listed(req[g].place)
    <3>1. PICK o \in present' \ P : o = req[g].place /\ o = req'[g].place
      BY <2>1
    <3>2. Listed(o)' = Listed(o)
      BY <3>1
    <3> QED BY <3>1, <3>2 DEF Listed, RatingsOf
  <2> QED BY <2>1, <2>2, <2>3
<1>4. SummaryHeals'
  <2> SUFFICES ASSUME NEW p \in present', Refreshing(p)' = {}, p \notin drifted'
               PROVE  (summary[p] = SummaryOf(Listed(p)))'
    BY DEF SummaryHeals
  <2>1. p \in present /\ p \notin P /\ p \notin drifted /\ Refreshing(p) = {}
    BY <1>2 DEF Stale
  <2>2. summary[p] = SummaryOf(Listed(p)) /\ Listed(p)' = Listed(p)
    BY <2>1 DEF IInv, SummaryHeals
  <2> QED BY <2>2
<1> QED BY <1>3, <1>4

LEMMA OthersHeal ==
  ASSUME IInv,
         \/ \E u \in Accounts : SetBanStatus(u) \/ DeleteUser(u)
         \/ \E p \in Places : SetPublished(p)
  PROVE  FreshIsRight' /\ SummaryHeals'
<1>1. ASSUME NEW u \in Accounts, SetBanStatus(u) PROVE FreshIsRight' /\ SummaryHeals'
  <2>1. /\ Stale(RatedBy(u)) /\ UNCHANGED <<ratings, present, summary>>
        /\ banned' \cup {u} = banned \cup {u}
    BY <1>1 DEF SetBanStatus, places
  <2>2. \A p \in present' \ RatedBy(u) : Listed(p)' = Listed(p)
    BY <2>1 DEF Listed, RatingsOf, RatedBy
  <2> QED BY <2>1, <2>2, StaleHeals
<1>2. ASSUME NEW u \in Accounts, DeleteUser(u) PROVE FreshIsRight' /\ SummaryHeals'
  <2>1. /\ Stale(RatedBy(u)) /\ summary' = summary /\ present' \subseteq present
        /\ banned' = banned \ {u}
        /\ \A p \in present' : Owner[p] # u
        /\ ratings' = {r \in ratings : r.author # u /\ Owner[r.place] # u}
    BY <1>2 DEF DeleteUser
  <2>2. \A p \in present' \ RatedBy(u) : Listed(p)' = Listed(p)
    BY <2>1 DEF Listed, RatingsOf, RatedBy
  <2> QED BY <2>1, <2>2, StaleHeals
<1>3. ASSUME NEW p \in Places, SetPublished(p) PROVE FreshIsRight' /\ SummaryHeals'
  <2>1. UNCHANGED <<ratings, present, summary, banned, req, drifted>>
    BY <1>3 DEF SetPublished, accounts
  <2>2. \A o : Listed(o)' = Listed(o) /\ Refreshing(o)' = Refreshing(o)
    BY <2>1 DEF Listed, RatingsOf, Refreshing
  <2> QED BY <2>1, <2>2 DEF IInv, FreshIsRight, SummaryHeals
<1> QED BY <1>1, <1>2, <1>3

LEMMA InitInv == Init => IInv
<1> SUFFICES ASSUME Init PROVE IInv
  OBVIOUS
<1>1. FreshIsRight
  BY IdleShape DEF Init, FreshIsRight
<1>2. \A p : Listed(p) = {}
  BY DEF Init, Listed, RatingsOf
<1>3. SummaryHeals
  BY <1>2, EmptySummary DEF Init, SummaryHeals
<1> QED BY <1>1, <1>3, InitOne DEF IInv

LEMMA NextInv == IInv /\ [Next]_vars => IInv'
<1> SUFFICES ASSUME IInv, [Next]_vars PROVE FreshIsRight' /\ SummaryHeals'
  BY NextOne DEF IInv
<1>1. CASE Next
  <2>1. ASSUME NEW h \in Handlers, Looks(h)
        PROVE  FreshIsRight' /\ SummaryHeals'
    BY <2>1, QuietHeals
  <2>2. ASSUME NEW h \in Handlers,
               \/ Save(h) \/ DropRow(h) \/ ReadSummary(h) \/ WriteSummary(h) \/ Fail(h)
        PROVE  FreshIsRight' /\ SummaryHeals'
    BY <2>2, SaveHeals, DropRowHeals, ReadSummaryHeals, EndHeals
  <2> QED BY <1>1, <2>1, <2>2, StepCases, OthersHeal DEF Looks
<1>2. CASE UNCHANGED vars
  <2>1. UNCHANGED <<ratings, present, summary, banned, req, drifted>>
    BY <1>2 DEF vars, places, accounts
  <2>2. \A o : Listed(o)' = Listed(o) /\ Refreshing(o)' = Refreshing(o)
    BY <2>1 DEF Listed, RatingsOf, Refreshing
  <2> QED BY <2>1, <2>2 DEF IInv, FreshIsRight, SummaryHeals
<1> QED BY <1>1, <1>2

(* However many requests, bans and departures raced before: when a refresh  *)
(* that nothing disturbed was the last to end and none is under way, the    *)
(* summary refreshSummary left on a place is that of the ratings listed.    *)
THEOREM SummariesHeal == Spec => []SummaryHeals
<1>1. IInv => SummaryHeals
  BY DEF IInv
<1> QED BY <1>1, InitInv, NextInv, PTL DEF Spec

-----------------------------------------------------------------------------
(* A request not yet past findPublishedPoi does not get past it while the   *)
(* place is withdrawn, and nothing else adds a rating.                      *)
LEMMA WithdrawnStep ==
  ASSUME OneInv, Next, NEW p \in Places,
         p \notin published, p \notin published', Saving(p) = {}
  PROVE  Saving(p)' = {} /\ RatingsOf(p)' \subseteq RatingsOf(p)
<1>1. /\ req \in [Handlers -> Shapes] /\ \A g \in Handlers : req[g] \in Shapes
  BY DEF OneInv, TypeInv, Shape
<1>2. \A g \in Handlers : req[g].place = p => req[g].step \notin {"rate.find", "rate.save"}
  BY DEF Saving
<1>3. ASSUME \A g \in Handlers :
               \/ req'[g].step \notin {"rate.find", "rate.save"}
               \/ req'[g].step = req[g].step /\ req'[g].place = req[g].place
               \/ req'[g].place # p
      PROVE  Saving(p)' = {}
  BY <1>2, <1>3 DEF Saving
<1>4. ASSUME NEW h \in Handlers,
             \/ PutRating(h) \/ DeleteRating(h) \/ FindPublished(h) \/ FindExisting(h)
             \/ FindRating(h) \/ ReadSummary(h) \/ WriteSummary(h) \/ Fail(h)
      PROVE  Saving(p)' = {} /\ RatingsOf(p)' \subseteq RatingsOf(p)
  <2>1. ratings' = ratings
    BY <1>4 DEF PutRating, DeleteRating, Arrive, FindPublished, FindExisting, FindRating,
                ReadSummary, WriteSummary, Fail
  <2>2. \E q : /\ req' = [req EXCEPT ![h] = q]
               /\ \/ q.step \notin {"rate.find", "rate.save"}
                  \/ q.place # p
    <3>1. CASE Answered(h)
      BY <3>1, IdleShape DEF Answered
    <3>2. CASE GoTo(h, "rate.find") /\ req[h].place \in published
      <4>1. req[h].place # p
        BY <3>2
      <4> DEFINE q == [req[h] EXCEPT !.step = "rate.find"]
      <4>2. q.place = req[h].place
        BY <1>1 DEF Shapes
      <4>3. req' = [req EXCEPT ![h] = q]
        BY <3>2 DEF GoTo
      <4> HIDE DEF q
      <4> QED BY <4>1, <4>2, <4>3
    <3>3. CASE GoTo(h, "drop.row")
      BY <1>1, <3>3, StepShape DEF GoTo, Steps
    <3>4. CASE FindExisting(h)
      <4>1. PICK i : req' = [req EXCEPT ![h].step = "rate.save", ![h].id = i]
        BY <3>4 DEF FindExisting
      <4>2. [req[h] EXCEPT !.step = "rate.save", !.id = i].place = req[h].place
        BY <1>1 DEF Shapes
      <4>3. req[h].place # p
        BY <1>2, <3>4 DEF FindExisting
      <4> QED BY <4>1, <4>2, <4>3
    <3>5. CASE PutRating(h) \/ DeleteRating(h)
      <4>1. \A s, u, o, n, i : Request(s, u, o, n, i).step = s
        BY DEF Request
      <4>2. CASE PutRating(h)
        <5>1. PICK u \in Accounts, o \in Places, n \in Stars :
                req' = [req EXCEPT ![h] = Request("rate.place", u, o, n, None)]
          BY <4>2 DEF PutRating, Arrive
        <5>2. Request("rate.place", u, o, n, None).step \notin {"rate.find", "rate.save"}
          BY <4>1
        <5> QED BY <5>1, <5>2
      <4>3. CASE DeleteRating(h)
        <5>1. PICK u \in Accounts, o \in Places, i \in used :
                req' = [req EXCEPT ![h] = Request("drop.find", u, o, None, i)]
          BY <4>3 DEF DeleteRating, Arrive
        <5>2. Request("drop.find", u, o, None, i).step \notin {"rate.find", "rate.save"}
          BY <4>1
        <5> QED BY <5>1, <5>2
      <4> QED BY <3>5, <4>2, <4>3
    <3>6. CASE ReadSummary(h)
      <4> DEFINE q == [req[h] EXCEPT !.step = "sum.write", !.fresh = TRUE,
                                     !.read = SummaryOf(Listed(req[h].place))]
      <4>1. q.step = "sum.write"
        BY <1>1 DEF Shapes
      <4>2. req' = [req EXCEPT ![h] = q]
        BY <3>6 DEF ReadSummary
      <4> HIDE DEF q
      <4> QED BY <4>1, <4>2
    <3> QED BY <1>4, <3>1, <3>2, <3>3, <3>4, <3>5, <3>6
            DEF FindPublished, FindRating, WriteSummary, Fail
  <2> QED BY <1>1, <1>3, <2>1, <2>2 DEF RatingsOf
<1>5. ASSUME NEW h \in Handlers, Save(h) \/ DropRow(h)
      PROVE  Saving(p)' = {} /\ RatingsOf(p)' \subseteq RatingsOf(p)
  <2>1. CASE Answered(h) /\ UNCHANGED ratings
    BY <1>1, <1>3, <2>1, AnsweredMoves DEF RatingsOf
  <2>2. CASE GoOnStaling(h, "sum.read", req[h].place)
    <3>1. /\ Goes(h, "sum.read") /\ \A g \in Handlers \ {h} : Kept(g)
      BY <1>1, <2>2, StalingMoves DEF Steps
    <3>2. Saving(p)' = {}
      BY <1>3, <3>1 DEF Goes, Kept
    <3>3. CASE Save(h)
      <4>1. req[h].place # p
        BY <1>2, <3>3 DEF Save
      <4>2. \A r \in ratings' \ ratings : r.place = req[h].place
        BY <3>3 DEF Save, Rating
      <4> QED BY <3>2, <4>1, <4>2 DEF RatingsOf
    <3>4. CASE DropRow(h)
      BY <3>2, <3>4 DEF DropRow, RatingsOf
    <3> QED BY <1>5, <3>3, <3>4
  <2> QED BY <1>5, <2>1, <2>2 DEF Save, DropRow
<1>6. ASSUME NEW u \in Accounts, SetBanStatus(u) \/ DeleteUser(u)
      PROVE  Saving(p)' = {} /\ RatingsOf(p)' \subseteq RatingsOf(p)
  <2>1. ratings' \subseteq ratings /\ Stale(RatedBy(u))
    BY <1>6 DEF SetBanStatus, DeleteUser
  <2>2. \A g \in Handlers : Kept(g)
    BY <1>1, <2>1, StaleMoves
  <2> QED BY <1>3, <2>1, <2>2 DEF Kept, RatingsOf
<1>7. ASSUME NEW o \in Places, SetPublished(o)
      PROVE  Saving(p)' = {} /\ RatingsOf(p)' \subseteq RatingsOf(p)
  BY <1>7 DEF SetPublished, Saving, RatingsOf
<1> QED BY <1>4, <1>5, <1>6, <1>7, StepCases

(* A place that is withdrawn gets no rating and no changed rating once the  *)
(* requests that found it published have ended.                             *)
THEOREM WithdrawnIsQuiet == Spec => WithdrawnIsLeftAlone
<1>1. OneInv /\ [Next]_vars =>
        [\A p \in Places :
           p \notin published /\ p \notin published' /\ Saving(p) = {}
             => Saving(p)' = {} /\ RatingsOf(p)' \subseteq RatingsOf(p)]_vars
  BY WithdrawnStep
<1> QED BY <1>1, OneAlways, PTL DEF Spec, WithdrawnIsLeftAlone
=============================================================================

-------------------------- MODULE GeographyProofs ---------------------------
(***************************************************************************)
(* Proofs about the import: types, nothing is ever imported twice, and a   *)
(* run that ends has stored all it should.                                 *)
(*                                                                         *)
(* What makes the second inductive: from the moment a run has loaded the   *)
(* keys, its memory covers every key with an imported row, and what it has *)
(* queued has none yet (RememberedOnce).  Between runs nothing is known of *)
(* the memory, and nothing needs to be.                                    *)
(*                                                                         *)
(* What makes the third: every key in the memory is stored, removed or     *)
(* queued (KnownOK), and what the run was answered with is in the memory   *)
(* or among the answers of the round (OwedOK).                             *)
(*                                                                         *)
(* Then the map page over what was imported and submitted, for any         *)
(* entries, filters, views and visits.                                     *)
(***************************************************************************)
EXTENDS GeoSeed, MapEditor, FiniteSetTheorems, SequenceTheorems, TLAPS

(* The rounds are groups of sources. *)
LEMMA RoundsType == Rounds \in Seq(SUBSET Sources)
<1>1. ASSUME NEW S, NEW q \in Seq(S), NEW n \in Nat \ {0}
      PROVE  Chunk(q, n) \in Seq(SUBSET S)
  <2> DEFINE m == (Len(q) + n - 1) \div n
  <2>1. Len(q) \in Nat
    OBVIOUS
  <2>2. m \in Nat
    BY <2>1
  <2>3. \A i \in 1..m : {q[j] : j \in {j \in 1..Len(q) : (j - 1) \div n = i - 1}} \in SUBSET S
    BY <2>1
  <2> QED BY <2>2, <2>3 DEF Chunk
<1>2. /\ Chunk(CityBboxes, OverpassConcurrency) \in Seq(SUBSET Cities)
      /\ Chunk(WikidataClasses, WikidataConcurrency) \in Seq(SUBSET Classes)
  BY <1>1, GeoSeedAssumption
<1>3. ASSUME NEW S \in SUBSET Sources, NEW q \in Seq(SUBSET S)
      PROVE  q \in Seq(SUBSET Sources)
  OBVIOUS
<1>4. /\ Chunk(CityBboxes, OverpassConcurrency) \in Seq(SUBSET Sources)
      /\ Chunk(WikidataClasses, WikidataConcurrency) \in Seq(SUBSET Sources)
  BY <1>2, <1>3 DEF Sources
<1> QED BY <1>4 DEF Rounds

Queries == [state : {"none", "asked", "delayed", "fulfilled", "rejected"},
            attempt : 0..Retries, found : SUBSET Keys]

(* A query that waits has an attempt left, and only cities wait. *)
AttemptsLeft == \A s \in Sources : fetch[s].state = "delayed" => fetch[s].attempt < Retries

TypeInv == TypeOK /\ AttemptsLeft

LEMMA InitType == Init => TypeInv
BY GeoSeedAssumption, RoundsType
   DEF Init, TypeInv, TypeOK, AttemptsLeft, Phases, NoQuery, Query

(* What becomes of a query: it is well typed, and if it waits it has an     *)
(* attempt left.                                                            *)
LEMMA FetchType ==
  ASSUME TypeInv, NEW s \in Sources, Answer(s) \/ FetchFails(s) \/ OverpassBusy(s) \/ Retry(s)
  PROVE  fetch' \in [Sources -> Queries] /\ AttemptsLeft'
<1>c. fetch \in [Sources -> Queries] /\ Retries \in Nat \ {0} /\ Found \in [Sources -> SUBSET Keys]
  BY GeoSeedAssumption DEF TypeInv, TypeOK, Queries
<1>d. AttemptsLeft
  BY DEF TypeInv
<1>1. \E q \in Queries : fetch' = [fetch EXCEPT ![s] = q] /\ (q.state = "delayed" => q.attempt < Retries)
  <2>1. fetch[s].attempt \in 0..Retries
    BY <1>c DEF Queries
  <2>2. ASSUME NEW st \in {"asked", "delayed", "fulfilled", "rejected"},
               NEW n \in 0..Retries, NEW ks \in SUBSET Keys,
               st = "delayed" => n < Retries, QueryBecomes(s, Query(st, n, ks))
        PROVE  <1>1
    <3>1. Query(st, n, ks) \in Queries /\ Query(st, n, ks).state = st
                                 /\ Query(st, n, ks).attempt = n
      BY DEF Query, Queries
    <3> QED BY <2>2, <3>1 DEF QueryBecomes
  <2>3. CASE Answer(s)
    BY <1>c, <2>1, <2>2, <2>3 DEF Answer
  <2>4. CASE FetchFails(s)
    BY <2>1, <2>2, <2>4 DEF FetchFails
  <2>5. CASE OverpassBusy(s)
    <3>1. CASE fetch[s].attempt = Retries
      BY <2>1, <2>2, <2>5, <3>1 DEF OverpassBusy
    <3>2. CASE fetch[s].attempt # Retries
      <4>1. fetch[s].attempt < Retries
        BY <1>c, <2>1, <3>2
      <4> QED BY <2>1, <2>2, <2>5, <3>2, <4>1 DEF OverpassBusy
    <3> QED BY <3>1, <3>2
  <2>6. CASE Retry(s)
    <3>1. fetch[s].attempt + 1 \in 0..Retries
      BY <1>c, <1>d, <2>1, <2>6 DEF Retry, AttemptsLeft
    <3> QED BY <3>1, <2>2, <2>6 DEF Retry
  <2> QED BY <2>3, <2>4, <2>5, <2>6
<1>2. PICK q \in Queries : fetch' = [fetch EXCEPT ![s] = q] /\ (q.state = "delayed" => q.attempt < Retries)
  BY <1>1
<1>3. fetch' \in [Sources -> Queries]
  BY <1>2, <1>c
<1>4. \A x \in Sources : fetch'[x] = IF x = s THEN q ELSE fetch[x]
  BY <1>2, <1>c
<1>5. AttemptsLeft'
  BY <1>2, <1>4, <1>d DEF AttemptsLeft
<1> QED BY <1>3, <1>5

LEMMA NextType == TypeInv /\ [Next]_vars => TypeInv'
<1> SUFFICES ASSUME TypeInv, [Next]_vars PROVE TypeInv'
  OBVIOUS
<1>a. Len(Rounds) \in Nat /\ Retries \in Nat /\ Retries > 0 /\ MaxRuns \in Nat
  BY RoundsType, GeoSeedAssumption
<1>b. /\ Found \in [Sources -> SUBSET Keys] /\ KnownPois \subseteq Keys
      /\ KnownDistricts \subseteq Names
  BY GeoSeedAssumption
<1>c. fetch \in [Sources -> Queries]
  BY DEF TypeInv, TypeOK, Queries
<1> USE <1>a, <1>b DEF TypeInv, TypeOK, Phases, AttemptsLeft
<1>1. CASE Start
  BY <1>1 DEF Start, NoQuery, Query, tables
<1>2. CASE LoadKeys
  BY <1>2 DEF LoadKeys, history, tables
<1>3. CASE ReadDistricts
  <2>1. phase' = "districts.insert" /\ queue' \subseteq Places
    BY <1>3 DEF ReadDistricts, Places
  <2>2. UNCHANGED <<runs, existingPoiKeys, round, fetch, tables, history>>
    BY <1>3 DEF ReadDistricts
  <2> QED BY <2>1, <2>2 DEF tables, history
<1>4. CASE InsertBatch
  <2>1. imported' \in [Places -> Nat]
    BY <1>4 DEF InsertBatch
  <2>2. queue' \subseteq Places
    BY <1>4 DEF InsertBatch
  <2>3. UNCHANGED <<phase, runs, existingPoiKeys, round, fetch, unpublished, submitted, history>>
    BY <1>4 DEF InsertBatch
  <2> QED BY <2>1, <2>2, <2>3 DEF history
<1>5. CASE SeedStaticPois
  <2>1. phase' = "pois.insert" /\ queue' \subseteq Places /\ existingPoiKeys' \subseteq Keys
    BY <1>5 DEF SeedStaticPois, Claim, Places
  <2>2. UNCHANGED <<runs, round, fetch, tables, history>>
    BY <1>5 DEF SeedStaticPois
  <2> QED BY <2>1, <2>2 DEF tables, history
<1>7. CASE NextRound
  BY <1>7 DEF NextRound, NoQuery, Query, history, tables
<1>8. CASE ClaimRound
  <2>1. \A s \in Rounds[round] : s \in Sources
    BY <1>8, RoundsType DEF ClaimRound, FoundInRound
  <2>2. UNION {fetch[s].found : s \in Rounds[round]} \subseteq Keys
    BY <2>1
  <2>3. queue' \subseteq Places /\ existingPoiKeys' \subseteq Keys /\ phase' = "pois.insert"
    BY <1>8, <2>2 DEF ClaimRound, FoundInRound, Claim, Places
  <2>4. UNCHANGED <<runs, round, fetch, tables, history>>
    BY <1>8 DEF ClaimRound, FoundInRound
  <2> QED BY <2>3, <2>4 DEF tables, history
<1>9. ASSUME NEW s \in Sources, Answer(s) \/ FetchFails(s) \/ OverpassBusy(s) \/ Retry(s)
      PROVE  TypeInv'
  <2>2. owed' \subseteq Keys
    BY <1>9 DEF Answer, FetchFails, OverpassBusy, Retry
  <2>3. UNCHANGED <<phase, runs, existingPoiKeys, round, queue, tables, gone>>
    BY <1>9 DEF Answer, FetchFails, OverpassBusy, Retry, QueryBecomes
  <2>4. fetch' \in [Sources -> Queries] /\ AttemptsLeft'
    BY <1>9, FetchType DEF TypeInv
  <2> QED BY <2>2, <2>3, <2>4 DEF tables, Queries
<1>10. CASE RunFails
  BY <1>10 DEF RunFails, memory, history, tables
<1>11. ASSUME NEW x \in Places, Create(x) \/ Unpublish(x) \/ Remove(x)
       PROVE  TypeInv'
  <2>1. imported' \in [Places -> Nat] /\ unpublished' \in [Places -> Nat]
    <3>1. CASE Unpublish(x)
      <4>1. imported[x] - 1 \in Nat /\ unpublished[x] + 1 \in Nat
        BY <3>1 DEF Unpublish
      <4> QED BY <3>1, <4>1 DEF Unpublish
    <3>2. CASE Create(x) \/ Remove(x)
      BY <3>2 DEF Create, Remove
    <3> QED BY <1>11, <3>1, <3>2
  <2>2. submitted' \subseteq Places /\ gone' \subseteq Places /\ owed' \subseteq Keys
    BY <1>11 DEF Create, Unpublish, Remove, history
  <2>3. UNCHANGED <<phase, runs, memory>>
    BY <1>11 DEF Create, Unpublish, Remove
  <2> QED BY <2>1, <2>2, <2>3 DEF memory
<1>12. CASE UNCHANGED vars
  BY <1>12 DEF vars
<1> QED BY <1>1, <1>2, <1>3, <1>4, <1>5, <1>7, <1>8, <1>9, <1>10, <1>11, <1>12
        DEF Next, Import, People, InsertDistricts, BulkInsertPois

(* Every reachable state of the import is well typed. *)
THEOREM TypeCorrect == Spec => []TypeOK
<1>1. TypeInv => TypeOK
  BY DEF TypeInv
<1> QED BY InitType, NextType, <1>1, PTL DEF Spec

-----------------------------------------------------------------------------
Imports(x) == imported[x] + unpublished[x]

(* A run past its first read knows every imported key; what it has queued   *)
(* is not imported yet, and if it is a key, known.                          *)
RememberedOnce ==
  /\ phase \in {"districts.read", "districts.insert", "pois.insert", "fetch"}
       => \A k \in Keys : Imports(k) > 0 => k \in existingPoiKeys
  /\ phase \in {"districts.insert", "pois.insert"}
       => \A x \in queue : Imports(x) = 0 /\ (x \in Keys => x \in existingPoiKeys)

OnceInv == TypeInv /\ NothingImportedTwice /\ RememberedOnce

LEMMA InitOnce == Init => OnceInv
<1> SUFFICES ASSUME Init PROVE OnceInv
  OBVIOUS
<1> QED BY InitType DEF Init, OnceInv, NothingImportedTwice, RememberedOnce

LEMMA NextOnce == OnceInv /\ [Next]_vars => OnceInv'
<1> SUFFICES ASSUME OnceInv, [Next]_vars PROVE OnceInv'
  OBVIOUS
<1>t. TypeInv /\ TypeInv'
  BY NextType DEF OnceInv
<1>i. /\ imported \in [Places -> Nat] /\ unpublished \in [Places -> Nat]
      /\ queue \subseteq Places /\ Keys \subseteq Places
  BY <1>t DEF TypeInv, TypeOK, Places
<1> SUFFICES NothingImportedTwice' /\ RememberedOnce'
  BY <1>t DEF OnceInv
<1> USE <1>i DEF OnceInv, NothingImportedTwice, RememberedOnce, Imports
<1>1. CASE Start
  BY <1>1 DEF Start, tables
<1>2. CASE LoadKeys
  BY <1>2 DEF LoadKeys, Stored, tables
<1>3. CASE ReadDistricts
  <2>1. \A x \in queue' : Imports(x) = 0 /\ x \notin Keys
    BY <1>3, GeoSeedAssumption DEF ReadDistricts, Stored, Places
  <2>2. phase = "districts.read" /\ phase' = "districts.insert"
    BY <1>3 DEF ReadDistricts
  <2>3. UNCHANGED <<existingPoiKeys, tables>>
    BY <1>3 DEF ReadDistricts
  <2> QED BY <2>1, <2>2, <2>3 DEF tables
<1>4. CASE InsertDistricts \/ BulkInsertPois
  <2>1. PICK b \in SUBSET queue :
          /\ imported' = [x \in Places |-> IF x \in b THEN imported[x] + 1 ELSE imported[x]]
          /\ queue' = queue \ b
    BY <1>4 DEF InsertDistricts, BulkInsertPois, InsertBatch
  <2>2. phase \in {"districts.insert", "pois.insert"} /\ UNCHANGED <<phase, existingPoiKeys, unpublished>>
    BY <1>4 DEF InsertDistricts, BulkInsertPois, InsertBatch
  <2>3. \A x \in Places : Imports(x)' = IF x \in b THEN 1 ELSE Imports(x)
    BY <2>1, <2>2
  <2> QED BY <2>1, <2>2, <2>3
<1>5. CASE SeedStaticPois
  <2>1. PICK ks \in SUBSET Keys : Claim(ks)
    BY <1>5, GeoSeedAssumption DEF SeedStaticPois
  <2>2. /\ phase \in {"districts.insert", "fetch"} /\ phase' = "pois.insert"
        /\ UNCHANGED <<imported, unpublished>>
    BY <1>5 DEF SeedStaticPois, tables
  <2> QED BY <2>1, <2>2 DEF Claim
<1>7. CASE NextRound
  BY <1>7 DEF NextRound, tables
<1>8. CASE ClaimRound
  <2>0. UNION {fetch[s].found : s \in Rounds[round]} \subseteq Keys
    BY <1>8, <1>t, RoundsType DEF ClaimRound, FoundInRound, TypeInv, TypeOK
  <2>1. PICK ks \in SUBSET Keys : Claim(ks)
    BY <1>8, <2>0 DEF ClaimRound, FoundInRound
  <2>2. /\ phase \in {"districts.insert", "fetch"} /\ phase' = "pois.insert"
        /\ UNCHANGED <<imported, unpublished>>
    BY <1>8 DEF ClaimRound, FoundInRound, tables
  <2> QED BY <2>1, <2>2 DEF Claim
<1>9. ASSUME NEW s \in Sources, Answer(s) \/ FetchFails(s) \/ OverpassBusy(s) \/ Retry(s)
      PROVE  NothingImportedTwice' /\ RememberedOnce'
  <2>1. UNCHANGED <<phase, existingPoiKeys, queue, imported, unpublished>>
    BY <1>9 DEF Answer, FetchFails, OverpassBusy, Retry, QueryBecomes, tables
  <2> QED BY <2>1
<1>10. CASE RunFails
  BY <1>10 DEF RunFails, memory, tables
<1>11. ASSUME NEW x \in Places, Create(x) \/ Unpublish(x) \/ Remove(x)
       PROVE  NothingImportedTwice' /\ RememberedOnce'
  <2>1. \A y \in Places : Imports(y)' = Imports(y)
    BY <1>11 DEF Create, Unpublish, Remove
  <2>2. UNCHANGED <<phase, existingPoiKeys, queue>>
    BY <1>11 DEF Create, Unpublish, Remove, memory
  <2> QED BY <2>1, <2>2
<1>12. CASE UNCHANGED vars
  BY <1>12 DEF vars
<1> QED BY <1>1, <1>2, <1>3, <1>4, <1>5, <1>7, <1>8, <1>9, <1>10, <1>11, <1>12
        DEF Next, Import, People

(* However many runs are started, killed or failed, and whatever people do  *)
(* meanwhile, no place and no area is imported a second time.               *)
THEOREM ImportedOnce == Spec => []NothingImportedTwice
<1>1. OnceInv => NothingImportedTwice
  BY DEF OnceInv
<1> QED BY InitOnce, NextOnce, <1>1, PTL DEF Spec

-----------------------------------------------------------------------------
(* What a run owes has a row, or lost it meanwhile. *)
There(x) == Stored(x) \/ x \in gone

(* What is known of the queries of a round: those not under way belong to   *)
(* no source of it, and only an answer has found something.                 *)
RoundOK == phase = "fetch" =>
  \A s \in Sources : /\ fetch[s].state # "none" => s \in Rounds[round]
                     /\ fetch[s].state # "fulfilled" => fetch[s].found = {}

(* Every key in the memory of a run is stored, gone or queued. *)
KnownOK == phase \in {"districts.read", "districts.insert", "pois.insert", "fetch", "done"} =>
  \A k \in existingPoiKeys : There(k) \/ (phase = "pois.insert" /\ k \in queue)

(* The curated areas come first; the curated places are claimed with them   *)
(* stored.                                                                  *)
Later == phase \in {"pois.insert", "fetch", "done"}
CuratedOK ==
  /\ phase = "districts.insert" => \A n \in KnownDistricts : There(n) \/ n \in queue
  /\ Later => (\A n \in KnownDistricts : There(n)) /\ KnownPois \subseteq existingPoiKeys

(* What was answered is in the memory of the run, or in the round's answers. *)
OwedOK ==
  /\ phase \in {"load", "districts.read", "districts.insert"} => owed = {}
  /\ phase \in {"pois.insert", "done"} => owed \subseteq existingPoiKeys
  /\ phase = "fetch" => \A k \in owed : k \in existingPoiKeys \/
                          \E s \in Sources : s \in Rounds[round] /\ k \in fetch[s].found

Debts == RoundOK /\ KnownOK /\ CuratedOK /\ OwedOK
CompleteInv == TypeInv /\ Debts

LEMMA InitComplete == Init => CompleteInv
BY InitType DEF Init, CompleteInv, Debts, RoundOK, KnownOK, CuratedOK, Later, OwedOK

(* Nothing but the removal of a row by its author takes one away. *)
LEMMA RowsStay ==
  ASSUME TypeInv, Import \/ RunFails \/ People, NEW x \in Places, There(x)
  PROVE  There(x)'
<1>i. imported \in [Places -> Nat] /\ unpublished \in [Places -> Nat]
  BY DEF TypeInv, TypeOK
<1> USE <1>i DEF There, Stored
<1>1. CASE InsertBatch
  <2>1. \E b \in SUBSET queue :
          imported' = [y \in Places |-> IF y \in b THEN imported[y] + 1 ELSE imported[y]]
    BY <1>1 DEF InsertBatch
  <2>2. UNCHANGED <<unpublished, submitted, gone>>
    BY <1>1 DEF InsertBatch, history
  <2> QED BY <2>1, <2>2
<1>2. CASE \E y \in Places : Create(y) \/ Unpublish(y) \/ Remove(y)
  <2>1. PICK y \in Places : Create(y) \/ Unpublish(y) \/ Remove(y)
    BY <1>2
  <2>2. imported'[x] + unpublished'[x] = imported[x] + unpublished[x]
    BY <2>1 DEF Create, Unpublish, Remove
  <2>3. x \in submitted => x \in submitted' \/ x \in gone'
    BY <2>1 DEF Create, Unpublish, Remove
  <2>4. gone \subseteq gone'
    BY <2>1 DEF Create, Unpublish, Remove, history
  <2> QED BY <2>2, <2>3, <2>4
<1>3. CASE UNCHANGED <<tables, gone>>
  BY <1>3 DEF tables
<1>4. CASE \E s \in Sources : Answer(s) \/ FetchFails(s) \/ OverpassBusy(s) \/ Retry(s)
  BY <1>3, <1>4 DEF Answer, FetchFails, OverpassBusy, Retry, QueryBecomes
<1>5. CASE LoadKeys \/ ReadDistricts \/ SeedStaticPois \/ NextRound \/ ClaimRound \/ RunFails
  BY <1>3, <1>5 DEF LoadKeys, ReadDistricts, SeedStaticPois, NextRound, ClaimRound, RunFails, history
<1> QED BY <1>1, <1>2, <1>4, <1>5 DEF Import, InsertDistricts, BulkInsertPois, People

LEMMA BatchDebts ==
  ASSUME CompleteInv, InsertDistricts \/ BulkInsertPois
  PROVE  Debts'
<1>1. /\ phase \in {"districts.insert", "pois.insert"}
      /\ UNCHANGED <<phase, existingPoiKeys, round, fetch, unpublished, submitted, owed, gone>>
  BY DEF InsertDistricts, BulkInsertPois, InsertBatch, history
<1>2. PICK b \in SUBSET queue :
        /\ imported' = [x \in Places |-> IF x \in b THEN imported[x] + 1 ELSE imported[x]]
        /\ queue' = queue \ b
  BY DEF InsertDistricts, BulkInsertPois, InsertBatch
<1>3. /\ imported \in [Places -> Nat] /\ unpublished \in [Places -> Nat]
      /\ queue \subseteq Places /\ existingPoiKeys \subseteq Places
      /\ KnownDistricts \subseteq Places
  BY GeoSeedAssumption DEF CompleteInv, TypeInv, TypeOK, Places
<1>4. \A x \in Places : There(x) => There(x)'
  BY RowsStay DEF CompleteInv, Import
<1>5. \A x \in queue : x \in queue' \/ There(x)'
  BY <1>1, <1>2, <1>3 DEF There, Stored
<1>6. RoundOK'
  BY <1>1 DEF RoundOK
<1>7. KnownOK'
  BY <1>1, <1>3, <1>4, <1>5 DEF CompleteInv, Debts, KnownOK
<1>8. CuratedOK'
  BY <1>1, <1>3, <1>4, <1>5 DEF CompleteInv, Debts, CuratedOK, Later
<1>9. OwedOK'
  BY <1>1 DEF CompleteInv, Debts, OwedOK
<1> QED BY <1>6, <1>7, <1>8, <1>9 DEF Debts

(* Whatever is claimed is queued or was there. *)
LEMMA ClaimDebts ==
  ASSUME CompleteInv, SeedStaticPois \/ ClaimRound
  PROVE  Debts'
<1>1. /\ phase \in {"districts.insert", "fetch"} /\ phase' = "pois.insert"
      /\ UNCHANGED <<round, fetch, tables, owed, gone>>
  BY DEF SeedStaticPois, ClaimRound, history
<1>2. /\ existingPoiKeys \subseteq Places /\ KnownDistricts \subseteq Places
  BY GeoSeedAssumption DEF CompleteInv, TypeInv, TypeOK, Places
<1>3. \A x : There(x) => There(x)'
  BY <1>1 DEF There, Stored, tables
<1>4. RoundOK'
  BY <1>1 DEF RoundOK
<1>5. \A k \in existingPoiKeys : There(k)
  BY <1>1 DEF CompleteInv, Debts, KnownOK
<1>6. existingPoiKeys \subseteq existingPoiKeys'
      /\ \A k \in existingPoiKeys' : k \in existingPoiKeys \/ k \in queue'
  BY DEF SeedStaticPois, ClaimRound, Claim
<1>7. KnownOK'
  BY <1>1, <1>3, <1>5, <1>6 DEF KnownOK
<1>8. CASE SeedStaticPois
  <2>1. /\ phase = "districts.insert" /\ queue = {} /\ KnownPois \subseteq existingPoiKeys'
        /\ owed = {}
    BY <1>8 DEF SeedStaticPois, Claim, CompleteInv, Debts, OwedOK
  <2>2. CuratedOK'
    BY <1>1, <1>3, <2>1 DEF CompleteInv, Debts, CuratedOK, Later
  <2>3. OwedOK'
    BY <1>1, <2>1 DEF OwedOK
  <2> QED BY <1>4, <1>7, <2>2, <2>3 DEF Debts
<1>9. CASE ClaimRound
  <2>1. phase = "fetch" /\ existingPoiKeys' = existingPoiKeys \cup FoundInRound
    BY <1>9 DEF ClaimRound, Claim
  <2>2. CuratedOK'
    BY <1>1, <1>3, <1>6, <2>1 DEF CompleteInv, Debts, CuratedOK, Later
  <2>3. owed \subseteq existingPoiKeys'
    BY <2>1 DEF CompleteInv, Debts, OwedOK, FoundInRound
  <2>4. OwedOK'
    BY <1>1, <2>3 DEF OwedOK
  <2> QED BY <1>4, <1>7, <2>2, <2>4 DEF Debts
<1> QED BY <1>8, <1>9

(* A query under way has found nothing yet, so nothing answered is lost. *)
LEMMA QueryDebts ==
  ASSUME CompleteInv, NEW s \in Sources,
         Answer(s) \/ FetchFails(s) \/ OverpassBusy(s) \/ Retry(s)
  PROVE  Debts'
<1> DEFINE Becomes(q) == /\ fetch' = [fetch EXCEPT ![s] = q]
                         /\ q.state \in {"asked", "delayed", "fulfilled", "rejected"}
                         /\ q.state # "fulfilled" => q.found = {}
                         /\ owed' = owed \cup q.found
<1>0. \E q : Becomes(q)
  <2>1. ASSUME NEW st \in {"asked", "delayed", "fulfilled", "rejected"}, NEW n, NEW ks,
               st # "fulfilled" => ks = {}, QueryBecomes(s, Query(st, n, ks)),
               owed' = owed \cup ks
        PROVE  \E q : Becomes(q)
    <3>1. Query(st, n, ks).state = st /\ Query(st, n, ks).found = ks
      BY DEF Query
    <3>2. Becomes(Query(st, n, ks))
      BY <2>1, <3>1 DEF QueryBecomes
    <3> HIDE DEF Becomes
    <3> QED BY <3>2
  <2> HIDE DEF Becomes
  <2>2. CASE Answer(s)
    BY <2>1, <2>2 DEF Answer
  <2>3. CASE FetchFails(s)
    BY <2>1, <2>3 DEF FetchFails
  <2>4. CASE OverpassBusy(s)
    BY <2>1, <2>4 DEF OverpassBusy
  <2>5. CASE Retry(s)
    BY <2>1, <2>5 DEF Retry
  <2> QED BY <2>2, <2>3, <2>4, <2>5
<1>1. PICK q : Becomes(q)
  BY <1>0
<1>2. /\ phase = "fetch" /\ fetch[s].state \in {"asked", "delayed"}
      /\ UNCHANGED <<phase, existingPoiKeys, round, queue, tables, gone>>
  BY DEF Answer, FetchFails, OverpassBusy, Retry, Asked, QueryBecomes
<1>3. fetch \in [Sources -> Queries]
  BY DEF CompleteInv, TypeInv, TypeOK, Queries
<1>4. fetch'[s] = q /\ \A x \in Sources \ {s} : fetch'[x] = fetch[x]
  BY <1>1, <1>3
<1>5. s \in Rounds[round] /\ fetch[s].found = {}
  BY <1>2 DEF CompleteInv, Debts, RoundOK
<1>6. RoundOK'
  BY <1>1, <1>2, <1>4, <1>5 DEF CompleteInv, Debts, RoundOK
<1>7. KnownOK' /\ CuratedOK'
  BY <1>2 DEF CompleteInv, Debts, KnownOK, CuratedOK, Later, There, Stored, tables
<1>8. OwedOK'
  BY <1>1, <1>2, <1>4, <1>5 DEF CompleteInv, Debts, OwedOK
<1> QED BY <1>6, <1>7, <1>8 DEF Debts

LEMMA NextComplete == CompleteInv /\ [Next]_vars => CompleteInv'
<1> SUFFICES ASSUME CompleteInv, [Next]_vars PROVE Debts'
  BY NextType DEF CompleteInv
<1>k. existingPoiKeys \subseteq Places /\ KnownDistricts \subseteq Places /\ Keys \subseteq Places
  BY GeoSeedAssumption DEF CompleteInv, TypeInv, TypeOK, Places
<1> USE DEF CompleteInv, Debts
<1>1. CASE Start
  BY <1>1 DEF Start, RoundOK, KnownOK, CuratedOK, Later, OwedOK
<1>2. CASE LoadKeys
  BY <1>2 DEF LoadKeys, history, RoundOK, KnownOK, CuratedOK, Later, OwedOK, There, Stored, tables
<1>3. CASE ReadDistricts
  BY <1>3 DEF ReadDistricts, history, RoundOK, KnownOK, CuratedOK, Later, OwedOK, There, Stored,
              tables
<1>4. CASE NextRound
  <2>1. /\ phase = "pois.insert" /\ queue = {} /\ phase' \in {"fetch", "done"}
        /\ UNCHANGED <<existingPoiKeys, queue, tables, owed, gone>>
    BY <1>4 DEF NextRound, history
  <2>2. RoundOK'
    BY <1>4 DEF NextRound, RoundOK, NoQuery, Query
  <2>3. KnownOK' /\ CuratedOK'
    BY <2>1 DEF KnownOK, CuratedOK, Later, There, Stored, tables
  <2>4. OwedOK'
    BY <2>1 DEF OwedOK
  <2> QED BY <2>2, <2>3, <2>4
<1>5. CASE RunFails
  BY <1>5 DEF RunFails, RoundOK, KnownOK, CuratedOK, Later, OwedOK
<1>6. CASE People
  <2>1. UNCHANGED <<phase, existingPoiKeys, round, fetch, queue, owed>>
    BY <1>6 DEF People, Create, Unpublish, Remove, memory, history
  <2>2. \A x \in Places : There(x) => There(x)'
    BY <1>6, RowsStay
  <2>3. RoundOK' /\ OwedOK'
    BY <2>1 DEF RoundOK, OwedOK
  <2>4. KnownOK'
    BY <1>k, <2>1, <2>2 DEF KnownOK
  <2>5. CuratedOK'
    BY <1>k, <2>1, <2>2 DEF CuratedOK, Later
  <2> QED BY <2>3, <2>4, <2>5
<1>7. CASE UNCHANGED vars
  BY <1>7 DEF vars, RoundOK, KnownOK, CuratedOK, Later, OwedOK, There, Stored
<1> QED BY <1>1, <1>2, <1>3, <1>4, <1>5, <1>6, <1>7, BatchDebts, ClaimDebts, QueryDebts
        DEF Next, Import

(* A run that comes to its end has stored all that is curated and all that  *)
(* it was answered with, whatever failed on the way and however earlier     *)
(* runs ended, except what was removed meanwhile.                           *)
THEOREM CompleteRuns == Spec => []CompleteRunIsComplete
<1>1. CompleteInv => CompleteRunIsComplete
  BY GeoSeedAssumption DEF CompleteInv, Debts, KnownOK, CuratedOK, OwedOK, Later, There, Curated,
     CompleteRunIsComplete
<1> QED BY InitComplete, NextComplete, <1>1, PTL DEF Spec

-----------------------------------------------------------------------------
(* The map page. *)

(* The layers: a removal that succeeded is of an entry that is gone. *)
ClickRows == [what : {"vote", "remove"}, entry : Entries,
              layer : {"public", "pending", "replaced"},
              answer : {"none", "done", "counted", "failed"}]
LayersInv ==
  /\ filter \in Filters
  /\ stored \in [Entries -> {"pending", "approved", "gone"}]
  /\ clicks \subseteq ClickRows
  /\ \A c \in clicks : c.what = "remove" /\ c.answer = "done" => stored[c.entry] = "gone"
  /\ PublicLayerMatches

-----------------------------------------------------------------------------
(* The edit form holds the geometry of the entry it was opened for, and so  *)
(* does every proposal on its way; the pin belongs to that entry too.       *)
GeometryInv ==
  /\ editingTarget # None => editingTarget.entry \in Entries /\ editGeometry = editingTarget.entry
  /\ pin # None => editingTarget # None /\ pin = editingTarget.entry
  /\ \A p \in posts : p.target # None => p.geometry = p.target
  /\ EditGoesToItsTarget

-----------------------------------------------------------------------------
(* Work: each form has at most one request under way, and knows it. *)
PostRows == [work : Works, no : Nat, target : {None} \cup Entries,
             geometry : {None} \cup Entries, answer : {"none", "ok", "failed"}]
WorkOK ==
  /\ visit \in Visits /\ work \in 0..visit.work
  /\ submitting \in BOOLEAN /\ editSubmitting \in BOOLEAN
  /\ draft # None => draft.work \in 1..work
  /\ editingTarget # None => editingTarget.work \in 1..work /\ editingTarget.entry \in Entries
  /\ posts \subseteq PostRows /\ \A p \in posts : p.work <= work
  /\ sent \in [Works -> Nat] /\ saved \in [Works -> Nat]
  /\ \A w \in Works : w > work => saved[w] = 0

OfDraft(p) == p.target = None
OneEach ==
  /\ \A p, q \in posts : (OfDraft(p) <=> OfDraft(q)) => p = q
  /\ \A p \in posts : IF OfDraft(p) THEN submitting ELSE editSubmitting

(* What is in the form is what is being sent, or was begun meanwhile. *)
SentOrCrossed ==
  \A p \in posts :
    /\ OfDraft(p) /\ draft # None => draft.work \in {p.work} \cup crossed
    /\ ~OfDraft(p) /\ editingTarget # None => editingTarget.work \in {p.work} \cup crossed

(* No piece of work is in both forms. *)
Apart ==
  /\ draft # None /\ editingTarget # None => draft.work # editingTarget.work
  /\ \A p, q \in posts : OfDraft(p) /\ ~OfDraft(q) => p.work # q.work
  /\ \A p \in posts : ~OfDraft(p) /\ draft # None => p.work # draft.work
  /\ \A p \in posts : OfDraft(p) /\ editingTarget # None => p.work # editingTarget.work

(* Work that is stored, and whose answer was not lost, is stored once; its  *)
(* form has the good answer still to come, or has been cleared.             *)
StoredOnce ==
  \A w \in 1..work : saved[w] > 0 /\ w \notin lost =>
    /\ saved[w] = 1
    /\ \A p \in posts : p.work = w => p.answer = "ok"
    /\ draft # None /\ draft.work = w => \E p \in posts : OfDraft(p) /\ p.work = w
    /\ editingTarget # None /\ editingTarget.work = w =>
         \E p \in posts : ~OfDraft(p) /\ p.work = w
GoodIsStored == \A p \in posts : p.answer = "ok" => saved[p.work] > 0

WorkInv ==
  /\ WorkOK /\ OneEach /\ SentOrCrossed /\ Apart /\ StoredOnce /\ GoodIsStored
  /\ NothingLostOrDoubled

-----------------------------------------------------------------------------
(* The list is made for entries, filter f, view v and a position known. *)
ListFor(list, total, entries, f, v, known) ==
  LET inView == {p \in Pois \cap entries : p \in Matching[f] \cap InView[v]}
      listed == {list[i] : i \in DOMAIN list}
      origin == IF known THEN Here ELSE v
  IN
  /\ listed \subseteq inView /\ total = Cardinality(inView)
  /\ Len(list) = Cardinality(listed)
  /\ Len(list) = PLACE_LIST_LIMIT \/ listed = inView
  /\ \A i \in DOMAIN list, p \in inView :
       p \in listed \/ Distance[origin][list[i]] <= Distance[origin][p]
  /\ \A i, j \in DOMAIN list : i < j => Distance[origin][list[i]] <= Distance[origin][list[j]]

ViewInv ==
  /\ searching \in {None} \cup Views
  /\ goal = None => /\ ListFor(visiblePlaces, visibleTotal, all, filter, view, located)
                    /\ pendingAnnouncement = None

MapInv == LayersInv /\ GeometryInv /\ WorkInv /\ ViewInv

-----------------------------------------------------------------------------
(* Frames: who is not concerned by a step. *)
LEMMA LayersFrame ==
  ASSUME LayersInv, UNCHANGED <<stored, filter, all, publicLayer>>, clicks' \subseteq clicks
  PROVE  LayersInv'
BY DEF LayersInv, PublicLayerMatches

LEMMA GeometryFrame ==
  ASSUME GeometryInv, UNCHANGED <<editingTarget, editGeometry, pin, posts, proposals>>
  PROVE  GeometryInv'
BY DEF GeometryInv, EditGoesToItsTarget

LEMMA WorkFrame ==
  ASSUME WorkInv,
         UNCHANGED <<visit, draft, submitting, editingTarget, editSubmitting, wire, fate>>
  PROVE  WorkInv'
BY DEF WorkInv, WorkOK, OneEach, SentOrCrossed, Apart, StoredOnce, GoodIsStored,
       NothingLostOrDoubled, OfDraft, PostRows, Works, wire, fate

LEMMA ViewFrame ==
  ASSUME ViewInv, UNCHANGED <<viewVars, all, filter>>
  PROVE  ViewInv'
BY DEF ViewInv, viewVars, place, ListFor

-----------------------------------------------------------------------------
(* The layers. *)
LEMMA RebuildingKeepsLayers ==
  ASSUME LayersInv, Rebuilding
  PROVE  LayersInv'
<1>1. PICK f \in Filters \cup {filter} :
        filter' = f /\ stored' = stored /\ ApplyFilters(all', f)
  BY DEF Rebuilding, ApprovedArrive, ChangeFilter
<1>2. PublicLayerMatches'
  BY <1>1 DEF ApplyFilters, PublicLayerMatches
<1> DEFINE Replaced(c) == IF c.layer = "public" THEN [c EXCEPT !.layer = "replaced"] ELSE c
<1>3. clicks' = {Replaced(c) : c \in clicks}
  BY <1>1 DEF ApplyFilters
<1>4. \A c \in clicks :
        /\ Replaced(c) \in ClickRows /\ Replaced(c).what = c.what
        /\ Replaced(c).entry = c.entry /\ Replaced(c).answer = c.answer
  BY DEF LayersInv, ClickRows
<1> HIDE DEF Replaced
<1>5. \A c \in clicks' : c.what = "remove" /\ c.answer = "done" => stored[c.entry] = "gone"
  BY <1>3, <1>4 DEF LayersInv
<1>6. clicks' \subseteq ClickRows
  BY <1>3, <1>4
<1> QED BY <1>1, <1>2, <1>5, <1>6 DEF LayersInv

LEMMA LookingKeepsLayers ==
  ASSUME LayersInv, Looking
  PROVE  LayersInv'
<1>1. ASSUME NEW l \in loads, ReadList(l) \/ PendingArrive(l) \/ LoadFails(l)
      PROVE  LayersInv'
  BY <1>1, LayersFrame DEF ReadList, PendingArrive, LoadFails
<1>2. ASSUME NEW e \in Entries, OthersReview(e) PROVE LayersInv'
  <2>1. UNCHANGED <<filter, all, publicLayer, clicks>>
    BY <1>2 DEF OthersReview, layers
  <2>2. stored' \in [Entries -> {"pending", "approved", "gone"}]
    BY <1>2 DEF OthersReview, LayersInv
  <2>3. \A x \in Entries : stored[x] = "gone" => stored'[x] = "gone"
    BY <1>2 DEF OthersReview, LayersInv
  <2>4. PublicLayerMatches'
    BY <2>1, <2>3, MapLayersAssumption DEF LayersInv, PublicLayerMatches
  <2>5. \A c \in clicks : c.entry \in Entries
    BY DEF LayersInv, ClickRows
  <2> QED BY <2>1, <2>2, <2>3, <2>4, <2>5 DEF LayersInv
<1>3. ASSUME NEW e \in Entries, NEW what \in {"vote", "remove"},
             NEW layer \in {"public", "pending"}, Press(what, e, layer)
      PROVE  LayersInv'
  <2>1. UNCHANGED <<stored, filter, all, publicLayer>>
    BY <1>3 DEF Press
  <2>2. clicks' = clicks \cup {Click(what, e, layer)}
    BY <1>3 DEF Press
  <2>3. Click(what, e, layer) \in ClickRows /\ Click(what, e, layer).answer = "none"
    BY DEF Click, ClickRows
  <2> QED BY <2>1, <2>2, <2>3 DEF LayersInv, PublicLayerMatches
<1>4. ASSUME NEW e \in Entries, LeavePending(e) PROVE LayersInv'
  BY <1>4, LayersFrame DEF LeavePending
<1>5. ASSUME NEW c \in clicks, ServeClick(c) PROVE LayersInv'
  <2>1. UNCHANGED <<filter, all, publicLayer>> /\ c \in ClickRows /\ c.entry \in Entries
    BY <1>5 DEF ServeClick, LayersInv, ClickRows
  <2>2. PICK a \in {"done", "counted", "failed"} :
          /\ clicks' = (clicks \ {c}) \cup {[c EXCEPT !.answer = a]}
          /\ c.what = "remove" /\ a = "done" => stored' = [stored EXCEPT ![c.entry] = "gone"]
    BY <1>5 DEF ServeClick
  <2>3. \/ stored' = stored
        \/ stored' = [stored EXCEPT ![c.entry] = "gone"]
        \/ stored[c.entry] = "pending" /\ stored' = [stored EXCEPT ![c.entry] = "approved"]
    BY <1>5 DEF ServeClick
  <2>4. \A e \in Entries : stored[e] = "gone" => stored'[e] = "gone"
    BY <2>1, <2>3 DEF LayersInv
  <2>5. stored' \in [Entries -> {"pending", "approved", "gone"}]
    BY <2>3 DEF LayersInv
  <2> DEFINE d == [c EXCEPT !.answer = a]
  <2>6. d \in ClickRows /\ d.what = c.what /\ d.entry = c.entry /\ d.answer = a
    BY <2>1 DEF ClickRows
  <2> HIDE DEF d
  <2>7. d.what = "remove" /\ d.answer = "done" => stored'[d.entry] = "gone"
    BY <2>1, <2>2, <2>6 DEF LayersInv
  <2>8. \A x \in clicks : x.entry \in Entries
    BY DEF LayersInv, ClickRows
  <2>9. clicks' = (clicks \ {c}) \cup {d}
    BY <2>2 DEF d
  <2>10. \A x \in clicks' : x.what = "remove" /\ x.answer = "done" => stored'[x.entry] = "gone"
    BY <2>4, <2>7, <2>8, <2>9 DEF LayersInv
  <2>11. PublicLayerMatches'
    BY <2>1, <2>4, MapLayersAssumption DEF LayersInv, PublicLayerMatches
  <2> QED BY <2>1, <2>5, <2>6, <2>9, <2>10, <2>11 DEF LayersInv
<1>6. ASSUME NEW c \in clicks, VoteAnswer(c) PROVE LayersInv'
  BY <1>6, LayersFrame DEF VoteAnswer
<1>7. ASSUME NEW c \in clicks, RemovalAnswer(c) PROVE LayersInv'
  <2>1. UNCHANGED <<stored, filter, all>> /\ clicks' \subseteq clicks
    BY <1>7 DEF RemovalAnswer
  <2>2. /\ publicLayer' \subseteq publicLayer
        /\ \A e \in publicLayer \ publicLayer' : stored[e] = "gone"
    BY <1>7 DEF RemovalAnswer, Answered, LayersInv
  <2> QED BY <2>1, <2>2 DEF LayersInv, PublicLayerMatches
<1> QED BY <1>1, <1>2, <1>3, <1>4, <1>5, <1>6, <1>7 DEF Looking, Vote, PressRemove

-----------------------------------------------------------------------------
(* The edit form.  An action either leaves it, or is one of these. *)
LEMMA EditFormStep ==
  ASSUME GeometryInv,
         \/ \E k \in Kinds : ShapeForEdit(k)
         \/ \E e \in Entries : StartEditProposal(e)
         \/ CancelEditProposal \/ StartMovePoi \/ DragPin
         \/ StartRedrawDistrict
         \/ \E p \in posts : EditSubmitted(p)
  PROVE  GeometryInv'
<1> USE DEF GeometryInv, EditGoesToItsTarget, wire
<1>1. ASSUME NEW k \in Kinds, ShapeForEdit(k) PROVE GeometryInv'
  BY <1>1 DEF ShapeForEdit, Redrawing
<1>2. ASSUME NEW e \in Entries, StartEditProposal(e) PROVE GeometryInv'
  <2>1. editingTarget'.entry = e /\ editGeometry' = e /\ pin' = None
    BY <1>2 DEF StartEditProposal
  <2>2. UNCHANGED <<posts, proposals>>
    BY <1>2 DEF StartEditProposal
  <2> QED BY <2>1, <2>2
<1>3. CASE CancelEditProposal
  BY <1>3 DEF CancelEditProposal, ClearEditGeometry
<1>4. CASE StartMovePoi \/ StartRedrawDistrict
  BY <1>4 DEF StartMovePoi, StartRedrawDistrict
<1>5. CASE DragPin
  BY <1>5, MapLayersAssumption DEF DragPin
<1>6. ASSUME NEW p \in posts, EditSubmitted(p) PROVE GeometryInv'
  BY <1>6 DEF EditSubmitted, ClearEditGeometry, Comes
<1> QED BY <1>1, <1>2, <1>3, <1>4, <1>5, <1>6

LEMMA PostsKeepGeometry ==
  ASSUME GeometryInv,
         \/ Submit \/ SubmitEditProposal
         \/ \E p \in posts : ServePost(p) \/ OnSubmitted(p) \/ OnSubmitError(p) \/ EditSubmitError(p)
  PROVE  GeometryInv'
<1> USE DEF GeometryInv, EditGoesToItsTarget
<1>1. ASSUME NEW w, NEW t, NEW g, Send(w, t, g), t # None => g = t,
             UNCHANGED <<editingTarget, editGeometry, pin>>
      PROVE  GeometryInv'
  BY <1>1 DEF Send, Post
<1>2. CASE Submit
  BY <1>1, <1>2 DEF Submit
<1>3. CASE SubmitEditProposal
  BY <1>1, <1>3 DEF SubmitEditProposal
<1>4. ASSUME NEW p \in posts, ServePost(p) PROVE GeometryInv'
  <2>1. PICK a \in {"ok", "failed"} : posts' = (posts \ {p}) \cup {[p EXCEPT !.answer = a]}
    BY <1>4 DEF ServePost
  <2>2. [p EXCEPT !.answer = a].target = p.target /\ [p EXCEPT !.answer = a].geometry = p.geometry
    OBVIOUS
  <2>3. UNCHANGED <<editingTarget, editGeometry, pin>>
    BY <1>4 DEF ServePost, forms
  <2>4. \/ proposals' = proposals
        \/ p.target # None /\ proposals' = proposals \cup {<<p.target, p.geometry>>}
    BY <1>4 DEF ServePost
  <2>5. EditGoesToItsTarget'
    <3>1. \A g : <<g, g>>[1] = <<g, g>>[2]
      OBVIOUS
    <3> QED BY <2>4, <3>1
  <2>6. \A q \in posts' : q.target # None => q.geometry = q.target
    <3> DEFINE d == [p EXCEPT !.answer = a]
    <3>1. d.target = p.target /\ d.geometry = p.geometry
      BY <2>2
    <3>2. posts' = (posts \ {p}) \cup {d}
      BY <2>1
    <3> HIDE DEF d
    <3> QED BY <3>1, <3>2
  <2> QED BY <2>3, <2>5, <2>6
<1>5. ASSUME NEW p \in posts, OnSubmitted(p) \/ OnSubmitError(p) \/ EditSubmitError(p)
      PROVE  GeometryInv'
  BY <1>5 DEF OnSubmitted, OnSubmitError, EditSubmitError, Comes
<1> QED BY <1>2, <1>3, <1>4, <1>5

-----------------------------------------------------------------------------
(* The list of places in view. *)
LEMMA NearestShape ==
  ASSUME NEW ps, IsFiniteSet(ps), NEW origin, NEW s \in Nearest(ps, origin)
  PROVE  LET listed == {s[i] : i \in DOMAIN s} IN
         /\ listed \subseteq ps /\ Len(s) = Cardinality(listed)
         /\ Len(s) = PLACE_LIST_LIMIT \/ listed = ps
         /\ \A i \in DOMAIN s, p \in ps :
              p \in listed \/ Distance[origin][s[i]] <= Distance[origin][p]
         /\ \A i, j \in DOMAIN s : i < j => Distance[origin][s[i]] <= Distance[origin][s[j]]
<1> DEFINE n == Cardinality(ps)
           listed == {s[i] : i \in DOMAIN s}
<1>1. n \in Nat
  BY FS_CardinalityType
<1>2. PICK t \in ByDistance(ps, origin) :
        s = IF Len(t) <= PLACE_LIST_LIMIT THEN t ELSE SubSeq(t, 1, PLACE_LIST_LIMIT)
  BY DEF Nearest
<1>3. /\ t \in [1..n -> ps]
      /\ \A p \in ps : \E i \in 1..n : t[i] = p
      /\ \A i, j \in 1..n :
           i < j => t[i] # t[j] /\ Distance[origin][t[i]] <= Distance[origin][t[j]]
  BY DEF ByDistance
<1> HIDE DEF n
<1>4. t \in Seq(ps) /\ Len(t) = n
  BY <1>1, <1>3
<1>5. PICK m \in 0..n : /\ s \in Seq(ps) /\ Len(s) = m /\ (m = n \/ m = PLACE_LIST_LIMIT)
                        /\ \A i \in 1..m : s[i] = t[i]
  <2>1. CASE n <= PLACE_LIST_LIMIT
    BY <1>1, <1>2, <1>4, <2>1
  <2>2. CASE ~(n <= PLACE_LIST_LIMIT)
    <3>1. PLACE_LIST_LIMIT \in 0..n /\ s = SubSeq(t, 1, PLACE_LIST_LIMIT)
      BY <1>1, <1>2, <1>4, <2>2, MapViewAssumption
    <3>2. \A i \in 1..PLACE_LIST_LIMIT : t[i] \in ps
      BY <1>1, <1>3, <3>1
    <3>3. /\ s \in Seq(ps)
          /\ Len(s) = IF 1 <= PLACE_LIST_LIMIT THEN PLACE_LIST_LIMIT-1+1 ELSE 0
          /\ \A i \in 1 .. PLACE_LIST_LIMIT-1+1 : s[i] = t[1+i-1]
      BY <1>1, <3>1, <3>2, SubSeqProperties, MapViewAssumption
    <3> QED BY <1>1, <3>1, <3>3, MapViewAssumption
  <2> QED BY <2>1, <2>2
<1>6. DOMAIN s = 1..m /\ m \in Nat
  BY <1>1, <1>5
<1>7. listed \subseteq ps
  BY <1>5, <1>6
<1>8. s \in Bijection(1..m, listed)
  <2>1. s \in [1..m -> listed]
    BY <1>5, <1>6
  <2>2. \A i, j \in 1..m : s[i] = s[j] => i = j
    <3>1. SUFFICES ASSUME NEW i \in 1..m, NEW j \in 1..m, i # j PROVE s[i] # s[j]
      OBVIOUS
    <3>2. i \in 1..n /\ j \in 1..n /\ (i < j \/ j < i)
      BY <1>1, <1>5, <3>1
    <3> QED BY <1>3, <1>5, <3>2
  <2> QED BY <1>6, <2>1, <2>2 DEF Bijection, Injection, Surjection, IsInjective
<1>9. Len(s) = Cardinality(listed)
  <2>1. IsFiniteSet(1..m) /\ Cardinality(1..m) = m
    BY <1>6, FS_Interval
  <2>2. ExistsBijection(1..m, listed)
    BY <1>8 DEF ExistsBijection
  <2> HIDE DEF listed
  <2>3. Cardinality(listed) = Cardinality(1..m)
    BY <2>1, <2>2, FS_Bijection
  <2> QED BY <1>5, <2>1, <2>3
<1>10. m = n => listed = ps
  BY <1>3, <1>5, <1>6, <1>7
<1>11. ASSUME NEW i \in 1..m, NEW p \in ps
       PROVE  p \in listed \/ Distance[origin][s[i]] <= Distance[origin][p]
  <2>1. PICK k \in 1..n : t[k] = p
    BY <1>3
  <2>2. CASE k \in 1..m
    BY <1>5, <1>6, <2>1, <2>2
  <2>3. CASE k \notin 1..m
    <3>1. i \in 1..n /\ i < k
      BY <1>1, <1>5, <2>3
    <3> QED BY <1>3, <1>5, <2>1, <3>1
  <2> QED BY <2>2, <2>3
<1>12. \A i, j \in 1..m : i < j => Distance[origin][s[i]] <= Distance[origin][s[j]]
  <2>1. 1..m \subseteq 1..n
    BY <1>1, <1>5
  <2> QED BY <1>3, <1>5, <2>1
<1> QED BY <1>5, <1>6, <1>7, <1>9, <1>10, <1>11, <1>12

LEMMA UpdateShape ==
  ASSUME NEW entries, NEW f, NEW v, NEW known, UpdateVisiblePlaces(entries, f, v, known)
  PROVE  ListFor(visiblePlaces', visibleTotal', entries, f, v, known)
<1> DEFINE inView == entries \cap Pois \cap Matching[f] \cap InView[v]
           origin == IF known THEN Here ELSE v
<1>1. visiblePlaces' \in Nearest(inView, origin) /\ visibleTotal' = Cardinality(inView)
  BY DEF UpdateVisiblePlaces
<1>2. IsFiniteSet(inView)
  BY MapViewAssumption, FS_Subset
<1>3. inView = {p \in Pois \cap entries : p \in Matching[f] \cap InView[v]}
  OBVIOUS
<1> HIDE DEF inView, origin
<1>4. LET listed == {visiblePlaces'[i] : i \in DOMAIN visiblePlaces'} IN
      /\ listed \subseteq inView /\ Len(visiblePlaces') = Cardinality(listed)
      /\ Len(visiblePlaces') = PLACE_LIST_LIMIT \/ listed = inView
      /\ \A i \in DOMAIN visiblePlaces', p \in inView :
           p \in listed \/ Distance[origin][visiblePlaces'[i]] <= Distance[origin][p]
      /\ \A i, j \in DOMAIN visiblePlaces' :
           i < j => Distance[origin][visiblePlaces'[i]] <= Distance[origin][visiblePlaces'[j]]
  BY <1>1, <1>2, NearestShape
<1> QED BY <1>1, <1>3, <1>4 DEF ListFor, origin

LEMMA SetViewKeepsView ==
  ASSUME ViewInv, NEW v \in Views, NEW known, NEW announcement, SetView(v, known, announcement),
         located' = known, UNCHANGED <<all, filter>>, searching' \in {None} \cup Views
  PROVE  ViewInv'
<1> USE DEF ViewInv
<1>1. CASE view' = v /\ goal' = None /\ OnMapMoved(v, known, announcement)
  <2>1. ListFor(visiblePlaces', visibleTotal', all, filter, v, known) /\ pendingAnnouncement' = None
    BY <1>1, UpdateShape DEF OnMapMoved
  <2>2. ListFor(visiblePlaces, visibleTotal, all, filter, view, located)'
    BY <1>1, <2>1 DEF ListFor
  <2> QED BY <1>1, <2>1, <2>2
<1>2. CASE goal' = v
  BY <1>2, MapViewAssumption
<1> QED BY <1>1, <1>2 DEF SetView

LEMMA MapMovesKeepView ==
  ASSUME ViewInv, MapMoves, UNCHANGED layerVars
  PROVE  ViewInv'
<1> USE DEF ViewInv
<1>a. UNCHANGED <<all, filter>>
  BY DEF layerVars, layers
<1>1. CASE MoveEnd
  <2>1. /\ ListFor(visiblePlaces', visibleTotal', all, filter, goal, located)
        /\ pendingAnnouncement' = None /\ view' = goal /\ UNCHANGED <<located, searching>>
    BY <1>1, UpdateShape DEF MoveEnd, OnMapMoved
  <2>2. ListFor(visiblePlaces, visibleTotal, all, filter, view, located)'
    BY <1>a, <2>1 DEF ListFor
  <2> QED BY <2>1, <2>2
<1>2. CASE ToggleList
  <2>1. /\ ListFor(visiblePlaces', visibleTotal', all, filter, view, located)
        /\ UNCHANGED <<view, located, goal, searching, pendingAnnouncement>>
    BY <1>2, UpdateShape DEF ToggleList, place
  <2>2. ListFor(visiblePlaces, visibleTotal, all, filter, view, located)'
    BY <1>a, <2>1 DEF ListFor
  <2> QED BY <2>1, <2>2
<1>3. ASSUME UNCHANGED <<view, goal, located, pendingAnnouncement, visiblePlaces, visibleTotal>>,
             searching' \in {None} \cup Views
      PROVE  ViewInv'
  BY <1>a, <1>3 DEF ListFor
<1>4. CASE DetectUserLocation \/ SearchFails
  BY <1>3, <1>4 DEF DetectUserLocation, SearchFails
<1>5. CASE SearchAnswered
  BY <1>5, <1>a, SetViewKeepsView DEF SearchAnswered
<1>6. ASSUME NEW v \in Views, Drag(v) PROVE ViewInv'
  BY <1>6, <1>a, SetViewKeepsView DEF Drag
<1>7. ASSUME NEW v \in Views, OnSearch(v) PROVE ViewInv'
  BY <1>3, <1>7 DEF OnSearch
<1>8. ASSUME NEW i \in DOMAIN visiblePlaces, OpenPlace(i) PROVE ViewInv'
  BY <1>8, <1>a, SetViewKeepsView DEF OpenPlace
<1>9. ASSUME NEW how \in locating, Located(how) PROVE ViewInv'
  <2>1. Here \in Views
    BY MapViewAssumption
  <2>2. PICK a : SetView(Here, TRUE, a)
    BY <1>9 DEF Located
  <2>3. located' = TRUE /\ searching' = searching
    BY <1>9 DEF Located
  <2> QED BY <1>a, <2>1, <2>2, <2>3, SetViewKeepsView
<1>10. ASSUME NEW how \in locating, NotLocated(how) PROVE ViewInv'
  BY <1>3, <1>10 DEF NotLocated
<1> QED BY <1>1, <1>2, <1>4, <1>5, <1>6, <1>7, <1>8, <1>9, <1>10 DEF MapMoves

LEMMA RebuildingKeepsView ==
  ASSUME ViewInv, UpdateVisiblePlaces(all', filter', view, located),
         UNCHANGED <<place, pendingAnnouncement>>
  PROVE  ViewInv'
<1>1. ListFor(visiblePlaces', visibleTotal', all', filter', view, located)
  BY UpdateShape
<1>2. UNCHANGED <<view, located, goal, searching, pendingAnnouncement>>
  BY DEF place
<1>3. ListFor(visiblePlaces, visibleTotal, all, filter, view, located)'
  BY <1>1, <1>2 DEF ListFor
<1> QED BY <1>2, <1>3 DEF ViewInv

LEMMA LookingKeepsLists == Looking => UNCHANGED <<all, filter>>
BY DEF Looking, ReadList, PendingArrive, LoadFails, OthersReview, Vote, PressRemove, Press,
       LeavePending, ServeClick, VoteAnswer, RemovalAnswer, layers

-----------------------------------------------------------------------------
(* Work. *)
LEMMA WorkNumbers ==
  ASSUME WorkOK
  PROVE  /\ visit.work \in Nat /\ work \in Nat /\ work <= visit.work
         /\ \A w : w \in Works <=> (w \in Nat /\ 1 <= w /\ w <= visit.work)
         /\ 1..work \subseteq Works
BY MapLayersAssumption DEF WorkOK, VisitType, Works

(* A new draft, or a new edit form. *)
LEMMA BeginStep ==
  ASSUME WorkInv, NEW new, new.work = work + 1, new # None,
         UNCHANGED <<visit, submitting, editSubmitting, wire>>,
         \/ Begin(draft, submitting) /\ draft' = new /\ UNCHANGED editingTarget
         \/ /\ Begin(editingTarget, editSubmitting) /\ editingTarget' = new /\ new.entry \in Entries
            /\ UNCHANGED draft
  PROVE  WorkInv'
<1> USE DEF WorkInv
<1>1. /\ work' = work + 1 /\ work < visit.work
      /\ work \in Nat /\ visit.work \in Nat /\ work + 1 \in Works /\ saved[work + 1] = 0
      /\ UNCHANGED <<visit, submitting, editSubmitting, posts, sent, saved, lost>>
      /\ dropped \subseteq dropped' /\ crossed \subseteq crossed'
      /\ Works' = Works
  BY WorkNumbers DEF Begin, wire, WorkOK, Works
<1>2. \A w : w \in 1..work' <=> (w \in 1..work \/ w = work + 1)
  BY <1>1
<1>3. \A p \in posts : p.work \in 1..work
  BY <1>1, WorkNumbers DEF WorkOK, PostRows
<1>4. PostRows' = PostRows
  BY <1>1 DEF PostRows
<1>5. OneEach' /\ GoodIsStored'
  BY <1>1 DEF OneEach, GoodIsStored, OfDraft
<1>6. CASE Begin(draft, submitting) /\ draft' = new /\ UNCHANGED editingTarget
  <2>1. WorkOK'
    <3>1. visit' \in Visits /\ work' \in 0..visit'.work
      BY <1>1 DEF WorkOK
    <3>2. /\ draft' # None => draft'.work \in 1..work'
          /\ editingTarget' # None => editingTarget'.work \in 1..work' /\ editingTarget'.entry \in Entries
      BY <1>1, <1>2, <1>6 DEF WorkOK
    <3>3. posts' \subseteq PostRows' /\ \A p \in posts' : p.work <= work'
      BY <1>1, <1>2, <1>3, <1>4 DEF WorkOK
    <3>4. \A w \in Works' : w > work' => saved'[w] = 0
      BY <1>1, WorkNumbers DEF WorkOK
    <3> QED BY <1>1, <3>1, <3>2, <3>3, <3>4 DEF WorkOK
  <2>2. SentOrCrossed'
    BY <1>1, <1>6 DEF SentOrCrossed, OneEach, OfDraft, Begin
  <2>3. Apart'
    BY <1>1, <1>3, <1>6 DEF Apart, OfDraft, WorkOK
  <2>4. StoredOnce'
    BY <1>1, <1>2, <1>3, <1>6 DEF StoredOnce, OfDraft
  <2>5. NothingLostOrDoubled'
    BY <1>1, <1>2, <1>6 DEF NothingLostOrDoubled, Begin
  <2> QED BY <1>5, <2>1, <2>2, <2>3, <2>4, <2>5
<1>7. CASE /\ Begin(editingTarget, editSubmitting) /\ editingTarget' = new /\ new.entry \in Entries
           /\ UNCHANGED draft
  <2>1. WorkOK'
    <3>1. visit' \in Visits /\ work' \in 0..visit'.work
      BY <1>1 DEF WorkOK
    <3>2. /\ draft' # None => draft'.work \in 1..work'
          /\ editingTarget' # None => editingTarget'.work \in 1..work' /\ editingTarget'.entry \in Entries
      BY <1>1, <1>2, <1>7 DEF WorkOK
    <3>3. posts' \subseteq PostRows' /\ \A p \in posts' : p.work <= work'
      BY <1>1, <1>2, <1>3, <1>4 DEF WorkOK
    <3>4. \A w \in Works' : w > work' => saved'[w] = 0
      BY <1>1, WorkNumbers DEF WorkOK
    <3> QED BY <1>1, <3>1, <3>2, <3>3, <3>4 DEF WorkOK
  <2>2. SentOrCrossed'
    BY <1>1, <1>7 DEF SentOrCrossed, OneEach, OfDraft, Begin
  <2>3. Apart'
    BY <1>1, <1>3, <1>7 DEF Apart, OfDraft, WorkOK
  <2>4. StoredOnce'
    BY <1>1, <1>2, <1>3, <1>7 DEF StoredOnce, OfDraft
  <2>5. NothingLostOrDoubled'
    BY <1>1, <1>2, <1>7 DEF NothingLostOrDoubled, Begin
  <2> QED BY <1>5, <2>1, <2>2, <2>3, <2>4, <2>5
<1> QED BY <1>6, <1>7

LEMMA DropStep ==
  ASSUME WorkInv, CancelDraft \/ CancelEditProposal
  PROVE  WorkInv'
<1> USE DEF WorkInv
<1>1. /\ UNCHANGED <<visit, work, submitting, editSubmitting, posts, sent, saved, lost, crossed>>
      /\ dropped \subseteq dropped'
      /\ draft' \in {None, draft} /\ editingTarget' \in {None, editingTarget}
      /\ draft' # draft => draft.work \in dropped'
      /\ editingTarget' # editingTarget => editingTarget.work \in dropped'
  BY DEF CancelDraft, CancelEditProposal, Drop, wire, layerVars
<1>2. WorkOK' /\ OneEach' /\ GoodIsStored'
  BY <1>1 DEF WorkOK, OneEach, GoodIsStored, OfDraft, PostRows, Works
<1>3. SentOrCrossed' /\ Apart'
  BY <1>1 DEF SentOrCrossed, Apart, OfDraft
<1>4. StoredOnce'
  BY <1>1 DEF StoredOnce, OfDraft
<1>5. NothingLostOrDoubled'
  BY <1>1 DEF NothingLostOrDoubled
<1> QED BY <1>2, <1>3, <1>4, <1>5

LEMMA SubmitSteps ==
  ASSUME WorkInv, GeometryInv, Submit \/ SubmitEditProposal
  PROVE  WorkInv'
<1> USE DEF WorkInv
<1>1. PICK w, t, g :
        /\ Send(w, t, g)
        /\ \/ /\ draft # None /\ ~submitting /\ submitting' = TRUE /\ UNCHANGED editSubmitting
              /\ w = draft.work /\ t = None /\ g = None
           \/ /\ editingTarget # None /\ ~editSubmitting /\ editSubmitting' = TRUE
              /\ UNCHANGED submitting
              /\ w = editingTarget.work /\ t = editingTarget.entry /\ g = editGeometry
              /\ t # None
  BY MapLayersAssumption DEF Submit, SubmitEditProposal, WorkOK
<1>2. UNCHANGED <<visit, draft, editingTarget, work, saved, lost, dropped, crossed>>
  BY DEF Submit, SubmitEditProposal, Send, layerVars, fate
<1> DEFINE p == Post(w, sent[w] + 1, t, g)
<1>3. /\ w \in 1..work /\ w \in Works /\ t \in {None} \cup Entries /\ g \in {None} \cup Entries
      /\ \/ draft # None /\ t = None /\ w = draft.work
         \/ editingTarget # None /\ t # None /\ w = editingTarget.work
  BY <1>1, WorkNumbers, MapLayersAssumption DEF WorkOK, GeometryInv
<1>4. /\ p \in PostRows /\ p.work = w /\ p.target = t /\ p.answer = "none"
      /\ posts' = posts \cup {p} /\ sent' = [sent EXCEPT ![w] = sent[w] + 1]
  BY <1>1, <1>3 DEF Send, Post, PostRows, WorkOK
<1> HIDE DEF p
<1>5. /\ OfDraft(p) <=> t = None
      /\ \A q \in posts : ~(OfDraft(q) <=> OfDraft(p))
  BY <1>1, <1>3, <1>4, MapLayersAssumption DEF OneEach, OfDraft, WorkOK
<1>6. WorkOK'
  <2>1. sent' \in [Works -> Nat]
    BY <1>3, <1>4 DEF WorkOK
  <2>2. posts' \subseteq PostRows' /\ \A q \in posts' : q.work <= work
    BY <1>2, <1>3, <1>4 DEF WorkOK, PostRows, Works
  <2>3. submitting' \in BOOLEAN /\ editSubmitting' \in BOOLEAN
    BY <1>1 DEF WorkOK
  <2> QED BY <1>2, <2>1, <2>2, <2>3 DEF WorkOK, Works
<1>7. OneEach'
  BY <1>1, <1>4, <1>5 DEF OneEach, OfDraft
<1>8. SentOrCrossed'
  BY <1>2, <1>3, <1>4, <1>5 DEF SentOrCrossed, OfDraft
<1>9. Apart'
  BY <1>2, <1>3, <1>4, <1>5 DEF Apart, OfDraft
<1>10. ~(saved[w] > 0 /\ w \notin lost)
  BY <1>3, <1>5 DEF StoredOnce
<1>11. StoredOnce'
  BY <1>2, <1>4, <1>10 DEF StoredOnce, OfDraft
<1>12. GoodIsStored' /\ NothingLostOrDoubled'
  BY <1>2, <1>4 DEF GoodIsStored, NothingLostOrDoubled
<1> QED BY <1>6, <1>7, <1>8, <1>9, <1>11, <1>12

LEMMA ServePostStep ==
  ASSUME WorkInv, NEW p \in posts, ServePost(p)
  PROVE  WorkInv'
<1> USE DEF WorkInv
<1>1. /\ UNCHANGED <<visit, draft, editingTarget, submitting, editSubmitting, work, sent, dropped, crossed>>
      /\ p.answer = "none"
  BY DEF ServePost, layerVars, forms, fate
<1>2. PICK a \in {"ok", "failed"} :
        /\ posts' = (posts \ {p}) \cup {[p EXCEPT !.answer = a]}
        /\ \/ /\ saved' = [saved EXCEPT ![p.work] = saved[p.work] + 1]
              /\ \/ a = "ok" /\ lost' = lost
                 \/ a = "failed" /\ lost' = lost \cup {p.work}
           \/ a = "failed" /\ UNCHANGED <<saved, lost>>
  BY DEF ServePost
<1> DEFINE q == [p EXCEPT !.answer = a]
<1>3. /\ q \in PostRows /\ q.work = p.work /\ q.target = p.target /\ q.answer = a
      /\ p.work \in 1..work /\ p.work \in Works /\ saved[p.work] \in Nat
  BY WorkNumbers DEF WorkOK, PostRows
<1>4. posts' = (posts \ {p}) \cup {q}
  BY <1>2
<1> HIDE DEF q
<1>5. /\ OfDraft(q) <=> OfDraft(p)
      /\ \A o \in posts : o # p => (~(OfDraft(o) <=> OfDraft(p)) /\ o.work # p.work)
  BY <1>3 DEF OneEach, OfDraft, Apart
<1>6. /\ saved' \in [Works -> Nat]
      /\ \A w \in Works : w # p.work => saved'[w] = saved[w]
      /\ saved'[p.work] >= saved[p.work]
      /\ a = "ok" => saved'[p.work] > 0
  BY <1>2, <1>3 DEF WorkOK
<1>7. ~(saved[p.work] > 0 /\ p.work \notin lost)
  BY <1>1, <1>3 DEF StoredOnce
<1>8. lost \subseteq lost'
  BY <1>2
<1>9. WorkOK'
  <2>1. \A w \in Works : w > work => saved'[w] = 0
    BY <1>3, <1>6, WorkNumbers DEF WorkOK
  <2> QED BY <1>1, <1>3, <1>4, <1>6, <2>1, WorkNumbers DEF WorkOK, PostRows, Works
<1>10. OneEach'
  BY <1>1, <1>4, <1>5 DEF OneEach, OfDraft
<1>11. SentOrCrossed' /\ Apart'
  BY <1>1, <1>3, <1>4, <1>5 DEF SentOrCrossed, Apart, OfDraft
<1>12. ASSUME NEW w \in 1..work, w # p.work, saved[w] > 0, w \notin lost
       PROVE  /\ \A o \in posts' : o.work = w => o.answer = "ok"
              /\ draft # None /\ draft.work = w => \E o \in posts' : OfDraft(o) /\ o.work = w
              /\ editingTarget # None /\ editingTarget.work = w =>
                   \E o \in posts' : ~OfDraft(o) /\ o.work = w
  BY <1>3, <1>4, <1>12 DEF StoredOnce
<1>13. ASSUME saved'[p.work] > 0, p.work \notin lost'
       PROVE  /\ saved'[p.work] = 1 /\ a = "ok"
              /\ \A o \in posts' : o.work = p.work => o.answer = "ok"
              /\ draft # None /\ draft.work = p.work => \E o \in posts' : OfDraft(o) /\ o.work = p.work
              /\ editingTarget # None /\ editingTarget.work = p.work =>
                   \E o \in posts' : ~OfDraft(o) /\ o.work = p.work
  <2>1. p.work \notin lost /\ saved[p.work] = 0
    BY <1>3, <1>7, <1>8, <1>13
  <2>2. a = "ok" /\ saved'[p.work] = 1
    BY <1>2, <1>3, <1>13, <2>1 DEF WorkOK
  <2>3. \A o \in posts' : o.work = p.work => o = q
    BY <1>4, <1>5
  <2>4. draft # None /\ draft.work = p.work => OfDraft(q)
    BY <1>5 DEF Apart
  <2>5. editingTarget # None /\ editingTarget.work = p.work => ~OfDraft(q)
    BY <1>5 DEF Apart
  <2> QED BY <1>3, <1>4, <2>2, <2>3, <2>4, <2>5
<1>14. StoredOnce'
  <2>1. ASSUME NEW w \in 1..work, saved'[w] > 0, w \notin lost'
        PROVE  /\ saved'[w] = 1
               /\ \A o \in posts' : o.work = w => o.answer = "ok"
               /\ draft # None /\ draft.work = w => \E o \in posts' : OfDraft(o) /\ o.work = w
               /\ editingTarget # None /\ editingTarget.work = w =>
                    \E o \in posts' : ~OfDraft(o) /\ o.work = w
    <3>1. CASE w = p.work
      BY <1>13, <2>1, <3>1
    <3>2. CASE w # p.work
      <4>1. saved'[w] = saved[w] /\ w \notin lost
        BY <1>6, <1>8, <2>1, <3>2, WorkNumbers
      <4>2. saved'[w] = 1
        BY <2>1, <4>1 DEF StoredOnce
      <4> QED BY <1>12, <2>1, <3>2, <4>1, <4>2
    <3> QED BY <3>1, <3>2
  <2> QED BY <1>1, <2>1 DEF StoredOnce, OfDraft
<1>15. GoodIsStored'
  <2>1. \A o \in posts : o # p => o.work \in Works /\ o.work # p.work
    BY <1>5 DEF WorkOK, PostRows
  <2> QED BY <1>3, <1>4, <1>6, <2>1 DEF GoodIsStored
<1>16. NothingLostOrDoubled'
  <2>1. ASSUME NEW w \in 1..work PROVE saved[w] > 0 => saved'[w] > 0
    BY <1>3, <1>6, <2>1, WorkNumbers DEF WorkOK
  <2>2. ASSUME NEW w \in 1..work, saved'[w] > 1, w \notin lost' PROVE FALSE
    <3>1. w \in Works /\ w \notin lost
      BY <1>8, <2>2, WorkNumbers
    <3>2. CASE w = p.work
      BY <1>3, <1>6, <1>13, <2>2, <3>2
    <3>3. CASE w # p.work
      BY <1>6, <2>2, <3>1, <3>3 DEF NothingLostOrDoubled
    <3> QED BY <3>2, <3>3
  <2> QED BY <1>1, <2>1, <2>2 DEF NothingLostOrDoubled
<1> QED BY <1>9, <1>10, <1>11, <1>14, <1>15, <1>16

(* An answer comes: the form of that kind is cleared if it is good. *)
LEMMA AnswerStep ==
  ASSUME WorkInv, NEW p \in posts,
         \/ OnSubmitted(p) \/ OnSubmitError(p) \/ EditSubmitted(p) \/ EditSubmitError(p)
  PROVE  WorkInv'
<1> USE DEF WorkInv
<1>1. /\ UNCHANGED <<visit, work, sent, saved, lost, dropped, crossed>> /\ posts' = posts \ {p}
      /\ IF OfDraft(p)
         THEN /\ submitting' = FALSE /\ UNCHANGED <<editSubmitting, editingTarget>>
              /\ \/ p.answer = "ok" /\ draft' = None
                 \/ p.answer = "failed" /\ draft' = draft
         ELSE /\ editSubmitting' = FALSE /\ UNCHANGED <<submitting, draft>>
              /\ \/ p.answer = "ok" /\ editingTarget' = None
                 \/ p.answer = "failed" /\ editingTarget' = editingTarget
  BY DEF OnSubmitted, OnSubmitError, EditSubmitted, EditSubmitError, Comes, fate, layerVars, OfDraft
<1>2. \A q \in posts' : q # p /\ ~(OfDraft(q) <=> OfDraft(p))
  BY <1>1 DEF OneEach
<1>3. WorkOK'
  BY <1>1 DEF WorkOK, PostRows, Works
<1>4. OneEach'
  BY <1>1, <1>2 DEF OneEach, OfDraft
<1>5. SentOrCrossed' /\ Apart'
  BY <1>1, <1>2 DEF SentOrCrossed, Apart, OfDraft
<1>6. StoredOnce'
  <2>1. SUFFICES ASSUME NEW w \in 1..work, saved[w] > 0, w \notin lost
                 PROVE  /\ saved[w] = 1
                        /\ \A q \in posts' : q.work = w => q.answer = "ok"
                        /\ draft' # None /\ draft'.work = w =>
                             \E q \in posts' : OfDraft(q) /\ q.work = w
                        /\ editingTarget' # None /\ editingTarget'.work = w =>
                             \E q \in posts' : ~OfDraft(q) /\ q.work = w
    BY <1>1 DEF StoredOnce, OfDraft
  <2>2. draft' # None /\ draft'.work = w => \E q \in posts' : OfDraft(q) /\ q.work = w
    <3>1. SUFFICES ASSUME draft' # None, draft'.work = w
                   PROVE  \E q \in posts' : OfDraft(q) /\ q.work = w
      OBVIOUS
    <3>2. draft' = draft
      BY <1>1, <3>1
    <3>3. PICK q \in posts : OfDraft(q) /\ q.work = w
      BY <2>1, <3>1, <3>2 DEF StoredOnce
    <3>4. q.answer = "ok"
      BY <2>1, <3>3 DEF StoredOnce
    <3>5. q # p
      BY <1>1, <3>1, <3>3, <3>4
    <3> QED BY <1>1, <3>3, <3>5
  <2>3. editingTarget' # None /\ editingTarget'.work = w =>
          \E q \in posts' : ~OfDraft(q) /\ q.work = w
    <3>1. SUFFICES ASSUME editingTarget' # None, editingTarget'.work = w
                   PROVE  \E q \in posts' : ~OfDraft(q) /\ q.work = w
      OBVIOUS
    <3>2. editingTarget' = editingTarget
      BY <1>1, <3>1
    <3>3. PICK q \in posts : ~OfDraft(q) /\ q.work = w
      BY <2>1, <3>1, <3>2 DEF StoredOnce
    <3>4. q.answer = "ok"
      BY <2>1, <3>3 DEF StoredOnce
    <3>5. q # p
      BY <1>1, <3>1, <3>3, <3>4
    <3> QED BY <1>1, <3>3, <3>5
  <2> QED BY <1>1, <2>1, <2>2, <2>3 DEF StoredOnce
<1>7. GoodIsStored'
  BY <1>1 DEF GoodIsStored
<1>8. NothingLostOrDoubled'
  <2>1. ASSUME NEW w \in 1..work
        PROVE  \/ draft' # None /\ draft'.work = w
               \/ editingTarget' # None /\ editingTarget'.work = w
               \/ w \in dropped \cup crossed \/ saved[w] > 0
    <3>1. p.answer = "ok" => saved[p.work] > 0
      BY DEF GoodIsStored
    <3> QED BY <1>1, <3>1 DEF NothingLostOrDoubled, SentOrCrossed
  <2> QED BY <1>1, <2>1 DEF NothingLostOrDoubled
<1> QED BY <1>3, <1>4, <1>5, <1>6, <1>7, <1>8

-----------------------------------------------------------------------------
LEMMA InitMapInv == MapInit => MapInv
<1> SUFFICES ASSUME MapInit PROVE MapInv
  OBVIOUS
<1>1. visit.work \in Nat /\ visit \in Visits
  BY MapLayersAssumption DEF MapInit, LayersInit, VisitType
<1>2. LayersInv
  BY DEF MapInit, LayersInit, LayersInv, PublicLayerMatches
<1>3. GeometryInv
  BY DEF MapInit, GeometryInv, EditGoesToItsTarget
<1>4. WorkOK
  <2>1. work = 0 /\ work \in 0..visit.work
    BY <1>1 DEF MapInit
  <2>2. sent \in [Works -> Nat] /\ saved \in [Works -> Nat] /\ \A w \in Works : saved[w] = 0
    BY DEF MapInit
  <2>3. /\ draft = None /\ editingTarget = None /\ posts = {}
        /\ submitting = FALSE /\ editSubmitting = FALSE
    BY DEF MapInit
  <2> QED BY <1>1, <2>1, <2>2, <2>3 DEF WorkOK
<1>5. OneEach /\ SentOrCrossed /\ Apart /\ StoredOnce /\ GoodIsStored /\ NothingLostOrDoubled
  BY <1>1 DEF MapInit, OneEach, SentOrCrossed, Apart, StoredOnce, GoodIsStored, NothingLostOrDoubled
<1>6. ViewInv
  <2>1. visiblePlaces = <<>> /\ visibleTotal = 0 /\ all = {} /\ searching = None
        /\ pendingAnnouncement = None
    BY DEF MapInit, ViewInit, LayersInit
  <2>2. Cardinality({}) = 0
    BY FS_EmptySet
  <2>3. ListFor(visiblePlaces, visibleTotal, all, filter, view, located)
    BY <2>1, <2>2 DEF ListFor
  <2> QED BY <2>1, <2>3 DEF ViewInv
<1> QED BY <1>2, <1>3, <1>4, <1>5, <1>6 DEF MapInv, WorkInv

LEMMA EditorStep ==
  ASSUME MapInv, EditorNext, UNCHANGED viewVars
  PROVE  MapInv'
<1> USE DEF MapInv
<1>1. /\ UNCHANGED <<stored, filter, all, publicLayer, clicks>>
  BY DEF EditorNext, StartDrawing, ShapeForEdit, ShapeForDraft, CancelDrawing, CancelDraft, Submit,
         StartEditProposal, CancelEditProposal, StartMovePoi, DragPin, StartRedrawDistrict,
         SubmitEditProposal, ServePost, OnSubmitted, OnSubmitError, EditSubmitted, EditSubmitError,
         layerVars, layers
<1>2. LayersInv' /\ ViewInv'
  BY <1>1, LayersFrame, ViewFrame
<1>3. ASSUME \/ \E k \in Kinds : StartDrawing(k) \/ ShapeForEdit(k)
             \/ CancelDrawing \/ StartMovePoi \/ DragPin \/ StartRedrawDistrict
      PROVE  GeometryInv' /\ WorkInv'
  <2>1. WorkInv'
    BY <1>3, WorkFrame DEF StartDrawing, ShapeForEdit, CancelDrawing, StartMovePoi, DragPin,
                           StartRedrawDistrict, layerVars
  <2>2. CASE \E k \in Kinds : StartDrawing(k)
    BY <2>1, <2>2, GeometryFrame DEF StartDrawing, wire
  <2>3. CASE CancelDrawing
    BY <2>1, <2>3, GeometryFrame DEF CancelDrawing, wire
  <2>4. CASE (\E k \in Kinds : ShapeForEdit(k)) \/ StartMovePoi \/ DragPin \/ StartRedrawDistrict
    BY <2>1, <2>4, EditFormStep
  <2> QED BY <1>3, <2>2, <2>3, <2>4
<1>4. ASSUME NEW k \in Kinds, ShapeForDraft(k) PROVE GeometryInv' /\ WorkInv'
  <2>1. GeometryInv'
    BY <1>4, GeometryFrame DEF ShapeForDraft, wire
  <2> DEFINE new == [work |-> work + 1, kind |-> k]
  <2>2. new # None /\ new.work = work + 1
    BY MapEditorAssumption DEF WorkInv, WorkOK
  <2>3. /\ Begin(draft, submitting) /\ draft' = new /\ UNCHANGED editingTarget
        /\ UNCHANGED <<visit, submitting, editSubmitting, wire>>
    BY <1>4 DEF ShapeForDraft, layerVars
  <2> HIDE DEF new
  <2> QED BY <2>1, <2>2, <2>3, BeginStep
<1>5. ASSUME NEW e \in Entries, StartEditProposal(e) PROVE GeometryInv' /\ WorkInv'
  <2>1. GeometryInv'
    BY <1>5, EditFormStep
  <2> DEFINE new == [work |-> work + 1, entry |-> e]
  <2>2. new # None /\ new.work = work + 1 /\ new.entry \in Entries
    BY MapEditorAssumption DEF WorkInv, WorkOK
  <2>3. /\ Begin(editingTarget, editSubmitting) /\ editingTarget' = new /\ UNCHANGED draft
        /\ UNCHANGED <<visit, submitting, editSubmitting, wire>>
    BY <1>5 DEF StartEditProposal, layerVars
  <2> HIDE DEF new
  <2> QED BY <2>1, <2>2, <2>3, BeginStep
<1>6. ASSUME CancelDraft \/ CancelEditProposal PROVE GeometryInv' /\ WorkInv'
  <2>1. CASE CancelDraft
    BY <2>1, GeometryFrame, DropStep DEF CancelDraft, wire
  <2>2. CASE CancelEditProposal
    BY <2>2, EditFormStep, DropStep
  <2> QED BY <1>6, <2>1, <2>2
<1>7. ASSUME Submit \/ SubmitEditProposal PROVE GeometryInv' /\ WorkInv'
  BY <1>7, PostsKeepGeometry, SubmitSteps
<1>8. ASSUME NEW p \in posts,
             ServePost(p) \/ OnSubmitted(p) \/ OnSubmitError(p) \/ EditSubmitted(p) \/ EditSubmitError(p)
      PROVE  GeometryInv' /\ WorkInv'
  BY <1>8, PostsKeepGeometry, EditFormStep, ServePostStep, AnswerStep
<1> QED BY <1>2, <1>3, <1>4, <1>5, <1>6, <1>7, <1>8 DEF EditorNext

LEMMA ViewStep ==
  ASSUME MapInv, ViewNext, UNCHANGED <<forms, wire, fate>>
  PROVE  MapInv'
<1> USE DEF MapInv
<1>1. GeometryInv'
  BY GeometryFrame DEF forms, wire
<1>2. visit' = visit
  BY DEF ViewNext, Rebuilding, ApprovedArrive, ChangeFilter, Looking, ReadList, PendingArrive,
         LoadFails, OthersReview, Vote, PressRemove, Press, LeavePending, ServeClick, VoteAnswer,
         RemovalAnswer, layerVars
<1>3. WorkInv'
  BY <1>2, WorkFrame DEF forms
<1>4. CASE Rebuilding /\ UpdateVisiblePlaces(all', filter', view, located)
           /\ UNCHANGED <<place, pendingAnnouncement>>
  BY <1>1, <1>3, <1>4, RebuildingKeepsLayers, RebuildingKeepsView
<1>5. CASE Looking /\ UNCHANGED viewVars
  BY <1>1, <1>3, <1>5, LookingKeepsLayers, LookingKeepsLists, ViewFrame
<1>6. CASE MapMoves /\ UNCHANGED layerVars
  BY <1>1, <1>3, <1>6, LayersFrame, MapMovesKeepView DEF layerVars, layers
<1> QED BY <1>4, <1>5, <1>6 DEF ViewNext

LEMMA MapStepInv == MapInv /\ [MapNext]_mapVars => MapInv'
<1> SUFFICES ASSUME MapInv, [MapNext]_mapVars PROVE MapInv'
  OBVIOUS
<1>1. CASE UNCHANGED mapVars
  BY <1>1, LayersFrame, GeometryFrame, WorkFrame, ViewFrame
     DEF MapInv, mapVars, layerVars, layers, forms, wire
<1>2. CASE MapNext
  BY <1>2, EditorStep, ViewStep DEF MapNext
<1> QED BY <1>1, <1>2

LEMMA MapInductive == MapSpec => []MapInv
BY InitMapInv, MapStepInv, PTL DEF MapSpec

(* The public layers (applyFilters, attachRemoveHandler) show what the      *)
(* loaded lists hold and the filters let through, whatever comes when.      *)
THEOREM PublicLayerIsRight == MapSpec => []PublicLayerMatches
<1>1. MapInv => PublicLayerMatches
  BY DEF MapInv, LayersInv
<1> QED BY <1>1, MapInductive, PTL

(* A proposal carries the geometry of its own target (startEditProposal,    *)
(* startMovePoi, onShapeCreated).                                           *)
THEOREM EditsKeepTheirTarget == MapSpec => []EditGoesToItsTarget
<1>1. MapInv => EditGoesToItsTarget
  BY DEF MapInv, GeometryInv
<1> QED BY <1>1, MapInductive, PTL

(* What is drawn or opened stays in its form until it is stored or given    *)
(* up, and is stored once unless an answer is lost (submit, onSubmitted,    *)
(* onSubmitError, submitEditProposal).                                      *)
THEOREM WorkIsKept == MapSpec => []NothingLostOrDoubled
<1>1. MapInv => NothingLostOrDoubled
  BY DEF MapInv, WorkInv
<1> QED BY <1>1, MapInductive, PTL

(* When the map rests, the list is that of its view (updateVisiblePlaces,   *)
(* onMapMoved, attemptAutoLocate, onSearch).                                *)
THEOREM ListIsRight == MapSpec => []ListIsOfView
<1>1. MapInv => ListIsOfView
  <2>1. SUFFICES ASSUME MapInv, goal = None PROVE ListIsOfView
    BY DEF ListIsOfView
  <2>2. /\ ListFor(visiblePlaces, visibleTotal, all, filter, view, located)
        /\ pendingAnnouncement = None
    BY <2>1 DEF MapInv, ViewInv
  <2>3. publicLayer \subseteq all \cap Matching[filter]
    BY <2>1 DEF MapInv, LayersInv, PublicLayerMatches
  <2> QED BY <2>2, <2>3 DEF ListIsOfView, ListFor
<1> QED BY <1>1, MapInductive, PTL
=============================================================================

------------------------------- MODULE GeoSeed -------------------------------
(***************************************************************************)
(* The weekly import of places from public data (GeoDataSeedService, run   *)
(* by seed-geo.ts as a cron job): curated areas and places first, then the *)
(* cities in rounds of concurrent Overpass queries, then the Wikidata      *)
(* classes in rounds of their own.                                         *)
(*                                                                         *)
(* A run knows what is stored from one read at its start, and from then on *)
(* from the keys it claimed itself.  It can be killed at any await (the    *)
(* job has a deadline) or end on a failed insert, and the next run starts  *)
(* over against what the database holds.  Two runs never overlap: the job  *)
(* forbids it.  While a run is under way people submit places, reviewers   *)
(* unpublish them and rows are deleted.                                    *)
(***************************************************************************)
EXTENDS Integers, FiniteSets, Sequences

CONSTANTS
  Keys,                \* poiKey: normalised name and grid cell
  Names,               \* names of areas
  KnownPois,           \* keys of KNOWN_POIS
  KnownDistricts,      \* names of KNOWN_DISTRICTS
  CityBboxes,          \* sequence of cities
  WikidataClasses,     \* sequence of classes
  Found,               \* source -> keys of the elements it has, coordinates and name given
  OverpassConcurrency, WikidataConcurrency, InsertBatchSize, Retries,
  MaxRuns,             \* bound: runs of the job
  Touched              \* bound: the places people submit, reject or delete

Places == Keys \cup Names
Curated == KnownPois \cup KnownDistricts
SeqRange(q) == {q[i] : i \in 1..Len(q)}
Cities == SeqRange(CityBboxes)
Classes == SeqRange(WikidataClasses)
Sources == Cities \cup Classes

ASSUME GeoSeedAssumption ==
  /\ KnownPois \subseteq Keys /\ KnownDistricts \subseteq Names /\ Keys \cap Names = {}
  /\ CityBboxes \in Seq(Cities) /\ WikidataClasses \in Seq(Classes)
  /\ Found \in [Sources -> SUBSET Keys]
  /\ {OverpassConcurrency, WikidataConcurrency, InsertBatchSize, Retries}
       \subseteq Nat \ {0}
  /\ MaxRuns \in Nat

VARIABLES
  phase,            \* where the run is
  runs,             \* runs started
  existingPoiKeys,  \* the run's memory of what is stored or claimed
  round,            \* round of concurrent queries, from 1
  fetch,            \* Sources -> its query in this round
  queue,            \* keys (or names of areas) still to insert before the phase ends
  imported,         \* Places -> rows the import stored under this key or name
  unpublished,      \* Places -> such rows a reviewer has rejected since
  submitted,        \* Places with a row of somebody's own
  owed,             \* history: keys this run was answered with
  gone              \* history: keys with a row deleted during this run

vars == <<phase, runs, existingPoiKeys, round, fetch, queue,
          imported, unpublished, submitted, owed, gone>>
tables == <<imported, unpublished, submitted>>
memory == <<existingPoiKeys, round, fetch, queue>>
history == <<owed, gone>>

(* chunk: consecutive groups of size elements, the last one shorter. *)
Chunk(arr, size) ==
  [i \in 1..((Len(arr) + size - 1) \div size) |->
     {arr[j] : j \in {j \in 1..Len(arr) : (j - 1) \div size = i - 1}}]
Rounds == Chunk(CityBboxes, OverpassConcurrency)
            \o Chunk(WikidataClasses, WikidataConcurrency)

Running == phase \notin {"off", "done", "failed"}
Stored(x) == imported[x] + unpublished[x] > 0 \/ x \in submitted

Query(state, attempt, found) == [state |-> state, attempt |-> attempt, found |-> found]
NoQuery == Query("none", 0, {})

Init ==
  /\ phase = "off" /\ runs = 0
  /\ existingPoiKeys = {} /\ round = 0 /\ queue = {}
  /\ fetch = [s \in Sources |-> NoQuery]
  /\ imported = [x \in Places |-> 0] /\ unpublished = [x \in Places |-> 0]
  /\ submitted = {}
  /\ owed = {} /\ gone = {}

-----------------------------------------------------------------------------
(* A new process: nothing is remembered of an earlier run.  run() finds or  *)
(* creates the seeder's account, which nothing below depends on.            *)
Start ==
  /\ ~Running /\ runs < MaxRuns
  /\ runs' = runs + 1
  /\ phase' = "load"
  /\ existingPoiKeys' = {} /\ round' = 0 /\ queue' = {}
  /\ fetch' = [s \in Sources |-> NoQuery]
  /\ owed' = {} /\ gone' = {}
  /\ UNCHANGED <<tables>>

LoadKeysApproved ==    \* defect: unpublished rows are not loaded
  /\ phase = "load"
  /\ existingPoiKeys' = {k \in Keys : imported[k] > 0 \/ k \in submitted}
  /\ phase' = "districts.read"
  /\ UNCHANGED <<runs, round, fetch, queue, tables, history>>

LoadKeys ==
  /\ phase = "load"
  /\ existingPoiKeys' = {k \in Keys : Stored(k)}
  /\ phase' = "districts.read"
  /\ UNCHANGED <<runs, round, fetch, queue, tables, history>>

ReadDistricts ==
  /\ phase = "districts.read"
  /\ queue' = {n \in KnownDistricts : ~Stored(n)}
  /\ phase' = "districts.insert"
  /\ UNCHANGED <<runs, existingPoiKeys, round, fetch, tables, history>>

(* repository.save(rows) is one transaction: all of a batch is stored or    *)
(* none of it.  A batch is full, or what is left.                           *)
InsertBatch ==
  /\ queue # {}
  /\ \E b \in SUBSET queue :
       /\ Cardinality(b) = InsertBatchSize \/ (b = queue /\ Cardinality(b) < InsertBatchSize)
       /\ imported' = [x \in Places |-> IF x \in b THEN imported[x] + 1 ELSE imported[x]]
       /\ queue' = queue \ b
  /\ UNCHANGED <<phase, runs, existingPoiKeys, round, fetch, unpublished, submitted, history>>

InsertDistricts == phase = "districts.insert" /\ InsertBatch

(* claimKey: what is not known yet is remembered, and queued, at once. *)
Claim(ks) ==
  /\ queue' = ks \ existingPoiKeys
  /\ existingPoiKeys' = existingPoiKeys \cup ks

SeedStaticPois ==
  /\ phase = "districts.insert" /\ queue = {}
  /\ Claim(KnownPois)
  /\ phase' = "pois.insert"
  /\ UNCHANGED <<runs, round, fetch, tables, history>>

BulkInsertPois == phase = "pois.insert" /\ InsertBatch

-----------------------------------------------------------------------------
(* Everything of this round is stored: the next round sends its queries     *)
(* together, or the run is over.                                            *)
NextRound ==
  /\ phase = "pois.insert" /\ queue = {}
  /\ IF round < Len(Rounds)
     THEN /\ round' = round + 1
          /\ fetch' = [s \in Sources |-> IF s \in Rounds[round + 1]
                                         THEN Query("asked", 1, {}) ELSE NoQuery]
          /\ phase' = "fetch"
     ELSE phase' = "done" /\ UNCHANGED <<round, fetch>>
  /\ UNCHANGED <<runs, existingPoiKeys, queue, tables, history>>

Asked(s) == phase = "fetch" /\ fetch[s].state = "asked"
QueryBecomes(s, q) ==
  /\ fetch' = [fetch EXCEPT ![s] = q]
  /\ UNCHANGED <<phase, runs, existingPoiKeys, round, queue, tables, gone>>

(* The answer lists some of what the source has: the data changes from week *)
(* to week, and elements without coordinates are passed over.               *)
Answer(s) ==
  /\ Asked(s)
  /\ \E ks \in SUBSET Found[s] :
       /\ QueryBecomes(s, Query("fulfilled", fetch[s].attempt, ks))
       /\ owed' = owed \cup ks

(* Any other status, a broken connection or an unreadable body. *)
FetchFails(s) ==
  /\ Asked(s)
  /\ QueryBecomes(s, Query("rejected", fetch[s].attempt, {}))
  /\ UNCHANGED owed

OverpassBusyOnceMore(s) ==    \* defect: attempt > Retries where attempt = Retries is meant
  /\ Asked(s) /\ s \in Cities
  /\ QueryBecomes(s, Query(IF fetch[s].attempt > Retries THEN "rejected" ELSE "delayed",
                           fetch[s].attempt, {}))
  /\ UNCHANGED owed

OverpassBusyForever(s) ==    \* defect: the last attempt is delayed like the others
  /\ Asked(s) /\ s \in Cities
  /\ QueryBecomes(s, Query("delayed", 0, {}))
  /\ UNCHANGED owed

(* fetchOverpass: 429, 503 and 504 are tried again after a growing delay,   *)
(* Retries times in all.  fetchWikidata does not retry.                     *)
OverpassBusy(s) ==
  /\ Asked(s) /\ s \in Cities
  /\ QueryBecomes(s, Query(IF fetch[s].attempt = Retries THEN "rejected" ELSE "delayed",
                           fetch[s].attempt, {}))
  /\ UNCHANGED owed

Retry(s) ==
  /\ phase = "fetch" /\ fetch[s].state = "delayed"
  /\ QueryBecomes(s, Query("asked", fetch[s].attempt + 1, {}))
  /\ UNCHANGED owed

Settled == \A s \in Rounds[round] : fetch[s].state \in {"fulfilled", "rejected"}

(* Promise.allSettled: a rejected query adds nothing and takes nothing away. *)
FoundInRound == UNION {fetch[s].found : s \in Rounds[round]}

ClaimRoundOfAll ==    \* defect: Promise.all, one rejected query rejects the round
  /\ phase = "fetch" /\ Settled
  /\ Claim(IF \E s \in Rounds[round] : fetch[s].state = "rejected" THEN {}
           ELSE FoundInRound)
  /\ phase' = "pois.insert"
  /\ UNCHANGED <<runs, round, fetch, tables, history>>

(* What the round found is claimed without an await: one step.              *)
ClaimRound ==
  /\ phase = "fetch" /\ Settled
  /\ Claim(FoundInRound)
  /\ phase' = "pois.insert"
  /\ UNCHANGED <<runs, round, fetch, tables, history>>

-----------------------------------------------------------------------------
(* A failed read or insert ends the run (main exits with 1); the job's      *)
(* deadline or a crash can end it anywhere.                                 *)
RunFails ==
  /\ Running
  /\ phase' = "failed"
  /\ UNCHANGED <<runs, memory, tables, history>>

(* What people do meanwhile. *)
Create(x) ==
  /\ x \in Touched \ submitted
  /\ submitted' = submitted \cup {x}
  /\ UNCHANGED <<phase, runs, memory, imported, unpublished, history>>

(* A reviewer rejects what was imported; the row stays, unpublished. *)
Unpublish(x) ==
  /\ x \in Touched /\ imported[x] > 0
  /\ imported' = [imported EXCEPT ![x] = @ - 1]
  /\ unpublished' = [unpublished EXCEPT ![x] = @ + 1]
  /\ UNCHANGED <<phase, runs, memory, submitted, history>>

(* The author of a submission deletes it, its row included. *)
Remove(x) ==
  /\ x \in submitted
  /\ submitted' = submitted \ {x}
  /\ gone' = gone \cup {x}
  /\ UNCHANGED <<phase, runs, memory, imported, unpublished, owed>>

Import ==
  \/ LoadKeys \/ ReadDistricts \/ InsertDistricts \/ SeedStaticPois
  \/ BulkInsertPois \/ NextRound \/ ClaimRound
  \/ \E s \in Sources : Answer(s) \/ FetchFails(s) \/ OverpassBusy(s) \/ Retry(s)

People == \E x \in Places : Create(x) \/ Unpublish(x) \/ Remove(x)

Next == Start \/ Import \/ RunFails \/ People

(* A run goes on by itself: every query settles and every delay ends.       *)
(* Nobody has to start the job, submit, review or remove anything.          *)
Spec == Init /\ [][Next]_vars /\ WF_vars(Import)

-----------------------------------------------------------------------------
Phases == {"off", "load", "districts.read", "districts.insert", "pois.insert", "fetch",
           "done", "failed"}

TypeOK ==
  /\ phase \in Phases
  /\ runs \in 0..MaxRuns
  /\ existingPoiKeys \subseteq Keys
  /\ round \in 0..Len(Rounds) /\ (phase = "fetch" => round > 0)
  /\ fetch \in [Sources -> [state : {"none", "asked", "delayed", "fulfilled", "rejected"},
                            attempt : 0..Retries, found : SUBSET Keys]]
  /\ queue \subseteq Places
  /\ imported \in [Places -> Nat] /\ unpublished \in [Places -> Nat]
  /\ submitted \subseteq Places /\ owed \subseteq Keys /\ gone \subseteq Places

(* However often the job is killed and run again, and whatever people do    *)
(* meanwhile, the database never holds a place or an area imported twice: a *)
(* place that a reviewer unpublished counts, so it does not come back.      *)
NothingImportedTwice == \A x \in Places : imported[x] + unpublished[x] <= 1

(* A source that fails costs the run nothing but itself, and an earlier run *)
(* that was cut short costs nothing: when a run is complete, the curated    *)
(* places and areas and every place it was answered with, in any round,     *)
(* have a row, unless that row was removed while the run was under way.     *)
CompleteRunIsComplete ==
  phase = "done" => \A x \in (Curated \cup owed) \ gone : Stored(x)

(* A run comes to an end, even if every attempt is answered "busy". *)
RunsEnd == Running ~> ~Running
=============================================================================

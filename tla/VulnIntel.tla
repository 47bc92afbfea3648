----------------------------- MODULE VulnIntel -----------------------------
(***************************************************************************)
(* The service of vuln-intel (api/app.py): ingestion of records from the   *)
(* feeds with the consensus pass at its end, lookups that fall back on the *)
(* feeds, scoring with EPSS and KEV, and the enrichment task.              *)
(*                                                                         *)
(* Everything between two awaits of a feed, of EPSS or of KEV is one step: *)
(* the store never suspends.  It is in memory, and on disk as of the last  *)
(* upsert of a record; JsonlStore says when a write is safe, and here all  *)
(* are.  Aliases of a record are left out.  A severity is a number, as is  *)
(* the day of an EPSS score.                                               *)
(*                                                                         *)
(* A record has neither `tags` nor `affected_packages` (models/cve.py), so *)
(* the consensus pass tags nothing, and fails at the first record it has   *)
(* set the sources of.                                                     *)
(***************************************************************************)
EXTENDS Integers, SequencesExt

CONSTANTS
  Cves,
  MixedCase,    \* ids with lower-case letters, which store.get() never finds
  Feeds,        \* the sources that are asked, in order
  SeverityOf,   \* the severity that a feed gives to every CVE
  None,
  MaxReports,   \* bound on the records that feeds deliver
  MaxDays,      \* bound on the days of EPSS
  MaxJobs,      \* bound on the scoring requests and enrichment tasks
  MaxRestarts   \* bound on the restarts

VARIABLES
  memory,     \* _records: the records by id, or None
  disk,       \* the records as they were last written
  seen,       \* _sources_seen, in the order of its keys: <<cve, feeds>>
  todo,       \* feeds the ingestion under way still has to ask, or None
  pc,         \* what a job awaits: "epss" or "kev"
  task,       \* is a job the enrichment task
  wants,      \* the ids of a job
  held,       \* the day of the EPSS scores it got, 0 for none
  kev,        \* KevClient._cache
  day,        \* of the latest EPSS scores that the API gave
  reports, restarts, jobs,
  worst,      \* history: the gravest severity reported of an id, 0 for none
  newest,     \* history: the latest day of the scores an id was given
  overlapped  \* history: were two jobs ever under way at once

vars == <<memory, disk, seen, todo, pc, task, wants, held, kev, day,
          reports, restarts, jobs, worst, newest, overlapped>>
store  == <<memory, disk, worst, newest>>
job    == <<pc, task, wants, held, overlapped, jobs>>
counts == <<reports, restarts>>

\* The jobs, numbered as they begin.
Jobs == 1..MaxJobs

Init ==
  /\ memory = [c \in Cves |-> None] /\ disk = memory
  /\ seen = <<>> /\ todo = None /\ kev = {}
  /\ pc = [j \in Jobs |-> "idle"] /\ task = [j \in Jobs |-> FALSE]
  /\ wants = [j \in Jobs |-> {}] /\ held = [j \in Jobs |-> 0]
  /\ day = 1 /\ reports = 0 /\ restarts = 0 /\ jobs = 0
  /\ worst = [c \in Cves |-> 0] /\ newest = [c \in Cves |-> 0]
  /\ overlapped = FALSE

-----------------------------------------------------------------------------
(***************************************************************************)
(* The store.                                                              *)
(***************************************************************************)

Stored == {c \in Cves : memory[c] # None}

\* store.get(): the id is looked up in upper case.
Found == Stored \ MixedCase

Record(s, f) == [severity |-> s, from |-> {f}, agreed |-> {}, epss |-> 0, kev |-> FALSE]

\* Mutant: the record that comes last decides the severity.
MergeLast(rec, s, f) == [rec EXCEPT !.severity = s, !.from = @ \union {f}]

\* merge(): the graver severity, and the union of the sources.
Merge(rec, s, f) ==
  [rec EXCEPT !.severity = IF s > @ THEN s ELSE @, !.from = @ \union {f}]

\* upsert() of a report of feed f.
Upsert(c, f) ==
  /\ reports < MaxReports /\ reports' = reports + 1
  /\ memory' = [memory EXCEPT ![c] = IF @ = None THEN Record(SeverityOf[f], f) ELSE Merge(@, SeverityOf[f], f)]
  /\ disk' = [disk EXCEPT ![c] = memory'[c]]
  /\ worst' = [worst EXCEPT ![c] = IF SeverityOf[f] > @ THEN SeverityOf[f] ELSE @]
  /\ UNCHANGED <<newest, restarts>>

-----------------------------------------------------------------------------
(***************************************************************************)
(* POST /vuln-intel/ingest and /vuln-intel/sync/once.                      *)
(***************************************************************************)

Ingest ==
  /\ todo = None /\ todo' = Feeds
  /\ UNCHANGED <<store, seen, job, kev, day, counts>>

Keys == {seen[k][1] : k \in DOMAIN seen}

Saw(c, f) ==
  IF c \in Keys
  THEN [k \in DOMAIN seen |->
         IF seen[k][1] = c THEN <<c, seen[k][2] \union {f}>> ELSE seen[k]]
  ELSE Append(seen, <<c, {f}>>)

\* The feed that is being asked yields a record.
Yield(c) ==
  /\ todo \notin {None, <<>>}
  /\ Upsert(c, Head(todo))
  /\ seen' = Saw(c, Head(todo))
  /\ UNCHANGED <<todo, job, kev, day>>

\* The feed has no more, or fails: the error is kept for the response.
FeedDone ==
  /\ todo \notin {None, <<>>} /\ todo' = Tail(todo)
  /\ UNCHANGED <<store, seen, job, kev, day, counts>>

\* _apply_consensus_to_recent() gets as far as the first record that the
\* store finds, and the request fails: nothing is written or enriched.
ConsensusFails ==
  /\ todo = <<>> /\ todo' = None
  /\ \E k \in DOMAIN seen :
       LET c == seen[k][1] IN
         /\ c \in Found /\ \A i \in 1..(k - 1) : seen[i][1] \notin Found
         /\ memory' = [memory EXCEPT ![c] = [@ EXCEPT !.agreed = seen[k][2]]]
  /\ UNCHANGED <<disk, worst, newest, seen, job, kev, day, counts>>

\* A job begins; it may do so beside another.
Begins(j, ids, first, enriches) ==
  /\ j = jobs + 1 /\ jobs' = j
  /\ pc' = [pc EXCEPT ![j] = first]
  /\ wants' = [wants EXCEPT ![j] = ids]
  /\ task' = [task EXCEPT ![j] = enriches]
  /\ held' = [held EXCEPT ![j] = 0]
  /\ overlapped' = (overlapped \/ \E i \in Jobs : pc[i] # "idle")

\* No record that the store finds was seen since the start: the response is
\* sent, and _enrich_all() runs unless the store is empty.
ConsensusPasses(j) ==
  /\ todo = <<>> /\ todo' = None
  /\ Keys \intersect Found = {}
  /\ IF Stored = {} THEN UNCHANGED job ELSE Begins(j, Stored, "epss", TRUE)
  /\ UNCHANGED <<store, seen, kev, day, counts>>

-----------------------------------------------------------------------------
(***************************************************************************)
(* GET /vuln-intel/cve/:id and POST /vuln-intel/cve/lookup.                *)
(***************************************************************************)

\* The store does not find the id, and a feed has the record: it is stored,
\* but not counted as seen.
Lookup(c, f) ==
  /\ c \notin Found
  /\ Upsert(c, f)
  /\ UNCHANGED <<seen, todo, job, kev, day>>

-----------------------------------------------------------------------------
(***************************************************************************)
(* POST /vuln-intel/score, and _enrich_all().  The records of C are given  *)
(* the scores and the entries of the catalog when the last await is over.  *)
(***************************************************************************)

\* score() never takes a KEV entry away, _enrich_all() does.
Scored(rec, c, d, listed, enriches) ==
  [rec EXCEPT !.epss = IF d > 0 THEN d ELSE @,
              !.kev = c \in listed \/ (@ /\ ~enriches)]

Rates(C, d, listed, enriches) ==
  /\ memory' = [c \in Cves |->
       IF c \in C THEN Scored(memory[c], c, d, listed, enriches) ELSE memory[c]]
  /\ disk' = [c \in Cves |-> IF c \in C THEN memory'[c] ELSE disk[c]]
  /\ newest' = [c \in Cves |-> IF c \in C /\ d > newest[c] THEN d ELSE newest[c]]
  /\ UNCHANGED worst

Ends(j) ==
  /\ pc' = [pc EXCEPT ![j] = "idle"] /\ wants' = [wants EXCEPT ![j] = {}]
  /\ held' = [held EXCEPT ![j] = 0] /\ task' = [task EXCEPT ![j] = FALSE]
  /\ UNCHANGED <<overlapped, jobs>>

\* All the records of the job; or, with use_llm, the first one, after which
\* the request fails: a record has no `cvss`.
End(j, d, listed) ==
  LET ids == wants[j] \intersect Found
  IN  /\ \E C \in {ids} \union {{c} : c \in IF task[j] THEN {} ELSE ids} :
           Rates(C, d, listed, task[j])
      /\ Ends(j)

Elsewhere == <<seen, todo, counts>>

\* For all records, with refresh_epss or refresh_kev or both.
Score(j, first) ==
  /\ Begins(j, Stored, first, FALSE)
  /\ UNCHANGED <<store, kev, day, Elsewhere>>

\* Is KEV asked next?  A task asks only when nothing is cached.
Refreshes(j) == IF task[j] THEN {kev = {}} ELSE BOOLEAN

\* EPSS answers with the scores of day d, or fails, which ends a task.
EpssAnswers(j, d) ==
  /\ pc[j] = "epss" /\ d \in {0, day, day + 1} /\ d <= MaxDays
  /\ day' = IF d = 0 THEN day ELSE d
  /\ \E refreshes \in Refreshes(j) :
       IF task[j] /\ d = 0 THEN Ends(j) /\ UNCHANGED store
       ELSE IF refreshes
       THEN /\ pc' = [pc EXCEPT ![j] = "kev"] /\ held' = [held EXCEPT ![j] = d]
            /\ UNCHANGED <<store, task, wants, overlapped, jobs>>
       ELSE End(j, d, kev)
  /\ UNCHANGED <<kev, Elsewhere>>

KevAnswers(j, catalog) ==
  /\ pc[j] = "kev" /\ kev' = catalog
  /\ End(j, held[j], catalog)
  /\ UNCHANGED <<day, Elsewhere>>

KevFails(j) ==
  /\ pc[j] = "kev"
  /\ IF task[j] THEN Ends(j) /\ UNCHANGED store ELSE End(j, held[j], kev)
  /\ UNCHANGED <<kev, day, Elsewhere>>

-----------------------------------------------------------------------------
\* The process stops or dies, and starts: KEV is asked at once.
Restart(listed) ==
  /\ restarts < MaxRestarts /\ restarts' = restarts + 1
  /\ memory' = disk /\ seen' = <<>> /\ todo' = None
  /\ kev' = listed
  /\ pc' = [j \in Jobs |-> "idle"] /\ task' = [j \in Jobs |-> FALSE]
  /\ wants' = [j \in Jobs |-> {}] /\ held' = [j \in Jobs |-> 0]
  /\ UNCHANGED <<disk, worst, newest, overlapped, day, reports, jobs>>

Next ==
  \/ Ingest \/ FeedDone \/ ConsensusFails
  \/ \E listed \in SUBSET (Cves \ MixedCase) :
       Restart(listed) \/ \E j \in Jobs : KevAnswers(j, listed)
  \/ \E c \in Cves :
       Yield(c) \/ \E f \in ToSet(Feeds) : Lookup(c, f)
  \/ \E j \in Jobs :
       \/ ConsensusPasses(j)
       \/ Score(j, "epss") \/ Score(j, "kev")
       \/ \E d \in 0..MaxDays : EpssAnswers(j, d)
       \/ KevFails(j)

Spec == Init /\ [][Next]_vars

-----------------------------------------------------------------------------
Records ==
  [severity : {SeverityOf[f] : f \in ToSet(Feeds)}, from : SUBSET ToSet(Feeds), agreed : SUBSET ToSet(Feeds),
   epss : 0..MaxDays, kev : BOOLEAN]

TypeOK ==
  /\ \A c \in Cves : {memory[c], disk[c]} \subseteq Records \union {None}
  /\ Keys \subseteq Stored
  /\ todo \in {None, <<>>} \/ ToSet(todo) \subseteq ToSet(Feeds)
  /\ pc \in [Jobs -> {"idle", "epss", "kev"}] /\ task \in [Jobs -> BOOLEAN]
  /\ wants \in [Jobs -> SUBSET Cves] /\ held \in [Jobs -> 0..MaxDays]
  /\ kev \subseteq Cves /\ day \in 1..MaxDays
  /\ reports \in 0..MaxReports /\ restarts \in 0..MaxRestarts
  /\ jobs \in 0..MaxJobs /\ overlapped \in BOOLEAN

\* A feed corroborates a CVE only if it reported it, through merges and
\* restarts; a CVE that was only looked up has none (app.py:210, 263, 355).
ConsensusHonest ==
  \A c \in Stored :
    /\ memory[c].agreed \subseteq memory[c].from
    /\ \A k \in DOMAIN seen : seen[k][1] = c => seen[k][2] \subseteq memory[c].from

\* A CVE has the gravest severity that was ever reported of it, whatever
\* the order of the feeds, and keeps it when the process restarts
\* (models/cve.py:336-341).
SeverityKept == \A c \in Stored : memory[c].severity = worst[c]

\* The EPSS score is the latest one a CVE was given, also after a restart,
\* unless two jobs overlapped: then the later of them decides, even when its
\* scores are older (app.py:320-338, 410-416).
EpssRecent == \A c \in Stored : memory[c].epss = newest[c] \/ overlapped

\* What is on disk lacks nothing that is in memory but the consensus: a
\* restart goes back on that alone (app.py:263-282).
OnlyConsensusUnsaved ==
  \A c \in Stored :
    disk[c] # None /\ disk[c] = [memory[c] EXCEPT !.agreed = disk[c].agreed]

CvesSound == ConsensusHonest /\ SeverityKept /\ EpssRecent /\ OnlyConsensusUnsaved
=============================================================================

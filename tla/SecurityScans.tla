--------------------------- MODULE SecurityScans ---------------------------
(***************************************************************************)
(* The routes of security-service that write rows and announce them:       *)
(*   POST /v1/scans and /v1/scans/:id/complete  (routes/scans.ts)          *)
(*   POST /v1/sboms                             (routes/sbom.ts)           *)
(*   POST /vulnerabilities/ingest, to vuln-intel through services/proxy.ts *)
(*     (routes/vulnerabilities-ingest.ts)                                  *)
(* A handler awaits every write and every publish, in order; when one      *)
(* rejects, or the process dies, the rest of it does not happen, nothing   *)
(* is undone, and a client that asks again starts afresh.                  *)
(*                                                                         *)
(* Rows are in PostgreSQL.  What vuln-intel ingests for a request is the   *)
(* request's batch of vulnerabilities; it does so whether or not the proxy *)
(* still waits.  (The vuln-intel of this repository has no such route and  *)
(* answers 404, which is Fails; Answered is what the proxy is written for.)*)
(***************************************************************************)
EXTENDS Integers, FiniteSetsExt

CONSTANTS
  Requests,     \* requests under way at once
  MaxScans,     \* bound on the scans
  MaxRequests,  \* bound on the requests
  MaxFindings,  \* bound on the findings of a request, or its vulnerabilities
  MaxCuts       \* bound on requests that fail

Scans == 1..MaxScans

VARIABLES
  begun,     \* requests so far
  pc,        \* where the handler of a request is
  scan,      \* its scan, 0 when it has none
  todo,      \* findings or vulnerabilities it still has to deal with
  made,      \* findings it created: created.length
  status,    \* of a scan: "none", "queued", "succeeded"
  rows,      \* findings stored for a scan
  told,      \* vulnerability.detected published for a scan
  counts,    \* scan.completed published for it: <<how many, their findingsCount>>
  sboms,     \* SBOMs stored, and of those the ones with a component index
  ingested,  \* vulnerabilities that vuln-intel took in, and those announced
  cuts,      \* history: requests that were cut short
  cutScans   \* history: scans with a request that was

vars == <<begun, pc, scan, todo, made, status, rows, told, counts, sboms, ingested,
          cuts, cutScans>>
handler == <<scan, todo, made>>
tables  == <<status, rows, told, counts>>
others  == <<sboms, ingested>>
history == <<cuts, cutScans>>

Init ==
  /\ begun = 0 /\ cuts = 0 /\ cutScans = {}
  /\ pc = [q \in Requests |-> "idle"]
  /\ scan = [q \in Requests |-> 0]
  /\ todo = [q \in Requests |-> 0] /\ made = [q \in Requests |-> 0]
  /\ status = [s \in Scans |-> "none"]
  /\ rows = [s \in Scans |-> 0] /\ told = [s \in Scans |-> 0]
  /\ counts = [s \in Scans |-> <<0, 0>>]
  /\ sboms = <<0, 0>> /\ ingested = <<0, 0>>

Goes(q, from, to) == pc[q] = from /\ pc' = [pc EXCEPT ![q] = to]

Begins(q, first, s, n) ==
  /\ begun < MaxRequests /\ begun' = begun + 1
  /\ Goes(q, "idle", first)
  /\ scan' = [scan EXCEPT ![q] = s]
  /\ todo' = [todo EXCEPT ![q] = n]
  /\ made' = [made EXCEPT ![q] = 0]
  /\ UNCHANGED history

-----------------------------------------------------------------------------
(***************************************************************************)
(* POST /v1/scans.                                                         *)
(***************************************************************************)

\* The asset is there, and the scan is created.
StartScan(q) ==
  \E s \in Scans :
    /\ \A r \in Scans : status[r] = "none" <=> r >= s
    /\ Begins(q, "started", s, 0)
    /\ status' = [status EXCEPT ![s] = "queued"]
    /\ UNCHANGED <<rows, told, counts, others>>

\* scan.started.
AnnounceStarted(q) ==
  /\ Goes(q, "started", "succeed")
  /\ UNCHANGED <<begun, handler, tables, others, history>>

\* Mutant: the scan is announced before it is marked.
AnnounceFirst(q) ==
  /\ Goes(q, "succeed", "announce")
  /\ counts' = [counts EXCEPT ![scan[q]] = <<@[1] + 1, @[2] + made[q]>>]
  /\ UNCHANGED <<begun, handler, status, rows, told, others, history>>

Succeed(q) ==
  /\ Goes(q, "succeed", "announce")
  /\ status' = [status EXCEPT ![scan[q]] = "succeeded"]
  /\ UNCHANGED <<begun, handler, rows, told, counts, others, history>>

\* scan.completed, and the answer.
AnnounceCompleted(q) ==
  /\ Goes(q, "announce", "idle")
  /\ counts' = [counts EXCEPT ![scan[q]] = <<@[1] + 1, @[2] + made[q]>>]
  /\ scan' = [scan EXCEPT ![q] = 0] /\ made' = [made EXCEPT ![q] = 0]
  /\ UNCHANGED <<begun, todo, status, rows, told, others, history>>

-----------------------------------------------------------------------------
(***************************************************************************)
(* POST /v1/scans/:id/complete, in whatever state the scan is.             *)
(***************************************************************************)

AfterFindings(n) == IF n = 0 THEN "succeed" ELSE "finding"

Complete(q, s, n) ==
  /\ status[s] # "none"
  /\ Begins(q, AfterFindings(n), s, n)
  /\ UNCHANGED <<tables, others>>

CreateFinding(q) ==
  /\ Goes(q, "finding", "tell")
  /\ rows' = [rows EXCEPT ![scan[q]] = @ + 1]
  /\ made' = [made EXCEPT ![q] = @ + 1]
  /\ UNCHANGED <<begun, scan, todo, status, told, counts, others, history>>

\* Mutant: the findings are announced when all of them are stored.
TellLast(q) ==
  /\ todo' = [todo EXCEPT ![q] = @ - 1]
  /\ Goes(q, "tell", AfterFindings(todo'[q]))
  /\ told' = [told EXCEPT ![scan[q]] = @ + (IF todo'[q] = 0 THEN made[q] ELSE 0)]
  /\ UNCHANGED <<begun, scan, made, status, rows, counts, others, history>>

\* vulnerability.detected of that finding, then the next one.
Tell(q) ==
  /\ todo' = [todo EXCEPT ![q] = @ - 1]
  /\ Goes(q, "tell", AfterFindings(todo'[q]))
  /\ told' = [told EXCEPT ![scan[q]] = @ + 1]
  /\ UNCHANGED <<begun, scan, made, status, rows, counts, others, history>>

-----------------------------------------------------------------------------
(***************************************************************************)
(* POST /v1/sboms, and POST /vulnerabilities/ingest.                       *)
(***************************************************************************)

CreateSbom(q) ==
  /\ Begins(q, "index", 0, 0)
  /\ sboms' = <<sboms[1] + 1, sboms[2]>>
  /\ UNCHANGED <<tables, ingested>>

\* replaceComponents(), one transaction.
ReplaceComponents(q) ==
  /\ Goes(q, "index", "created")
  /\ sboms' = <<sboms[1], sboms[2] + 1>>
  /\ UNCHANGED <<begun, handler, tables, ingested, history>>

\* integration.sync.completed.
AnnounceSbom(q) ==
  /\ Goes(q, "created", "idle")
  /\ UNCHANGED <<begun, handler, tables, others, history>>

Ingest(q, n) ==
  /\ Begins(q, "proxy", 0, n)
  /\ UNCHANGED <<tables, others>>

\* vuln-intel takes the batch in and answers in time, with a body that is
\* valid: VulnerabilityIngestResponseSchema.
Answered(q) ==
  /\ Goes(q, "proxy", "publish")
  /\ ingested' = <<ingested[1] + todo[q], ingested[2]>>
  /\ UNCHANGED <<begun, handler, tables, sboms, history>>

\* security.vulnerability.detected.v1 of the next vulnerability.
PublishIngested(q) ==
  /\ todo' = [todo EXCEPT ![q] = @ - 1]
  /\ Goes(q, "publish", IF todo'[q] = 0 THEN "idle" ELSE "publish")
  /\ ingested' = <<ingested[1], ingested[2] + 1>>
  /\ UNCHANGED <<begun, scan, made, tables, sboms, history>>

-----------------------------------------------------------------------------
(***************************************************************************)
(* A write or a publish rejects, the proxy gives up after 30 s, the body   *)
(* is not what the schema says, or the process dies.                       *)
(***************************************************************************)

Cut(Q) ==
  /\ cuts + Cardinality(Q) <= MaxCuts /\ cuts' = cuts + Cardinality(Q)
  /\ cutScans' = cutScans \union ({scan[q] : q \in Q} \ {0})
  /\ pc' = [q \in Requests |-> IF q \in Q THEN "idle" ELSE pc[q]]
  /\ scan' = [q \in Requests |-> IF q \in Q THEN 0 ELSE scan[q]]
  /\ todo' = [q \in Requests |-> IF q \in Q THEN 0 ELSE todo[q]]
  /\ made' = [q \in Requests |-> IF q \in Q THEN 0 ELSE made[q]]
  /\ UNCHANGED <<begun, tables, sboms>>

Busy == {q \in Requests : pc[q] # "idle"}

Fails(q) == q \in Busy /\ Cut({q}) /\ UNCHANGED ingested

\* The answer is late or invalid: vuln-intel has the batch all the same.
AnswerUnused(q) ==
  /\ pc[q] = "proxy" /\ Cut({q})
  /\ ingested' = <<ingested[1] + todo[q], ingested[2]>>

Crash == Cardinality(Busy) > 1 /\ Cut(Busy) /\ UNCHANGED ingested

Next ==
  \/ Crash
  \/ \E q \in Requests :
       \/ StartScan(q) \/ AnnounceStarted(q) \/ Succeed(q) \/ AnnounceCompleted(q)
       \/ \E s \in Scans, n \in 0..MaxFindings : Complete(q, s, n)
       \/ CreateFinding(q) \/ Tell(q)
       \/ CreateSbom(q) \/ ReplaceComponents(q) \/ AnnounceSbom(q)
       \/ \E n \in 1..MaxFindings : Ingest(q, n)
       \/ Answered(q) \/ PublishIngested(q)
       \/ Fails(q) \/ AnswerUnused(q)

Spec == Init /\ [][Next]_vars

-----------------------------------------------------------------------------
Places == {"idle", "started", "succeed", "announce", "finding", "tell", "index",
           "created", "proxy", "publish"}

TypeOK ==
  /\ begun \in 0..MaxRequests /\ cuts \in 0..MaxCuts /\ cutScans \subseteq Scans
  /\ pc \in [Requests -> Places]
  /\ scan \in [Requests -> {0} \union Scans]
  /\ todo \in [Requests -> 0..MaxFindings] /\ made \in [Requests -> 0..MaxFindings]
  /\ status \in [Scans -> {"none", "queued", "succeeded"}]
  /\ rows \in [Scans -> Nat] /\ told \in [Scans -> Nat]
  /\ counts \in [Scans -> Nat \X Nat]
  /\ {sboms, ingested} \subseteq Nat \X Nat

In(place, s) == {q \in Requests : pc[q] = place /\ scan[q] = s}

OfScan(s) == {q \in Requests : scan[q] = s}

Total(f, S) == MapThenSumSet(LAMBDA x : f[x], S)

\* A finding is stored without being announced only while its handler is
\* about to, or when that handler was cut short, and a request that is cut
\* short leaves one at most (scans.ts:95-106).
FindingsTold ==
  /\ \A s \in Scans : told[s] + Cardinality(In("tell", s)) <= rows[s]
  /\ Total(rows, Scans) - Total(told, Scans)
       <= Cardinality({q \in Requests : pc[q] = "tell"}) + cuts
  /\ \A s \in Scans \ cutScans : rows[s] = told[s] + Cardinality(In("tell", s))

\* However often a scan is completed, the scan.completed events count every
\* finding of it once between them, those of a request that was cut short
\* apart; they come after its findings were announced, and find the scan
\* marked succeeded (scans.ts:75-83, 107-115).
CompletionsAddUp ==
  \A s \in Scans :
    /\ counts[s][2] <= told[s]
    /\ counts[s][1] > 0 => status[s] = "succeeded"
    /\ s \notin cutScans => rows[s] = counts[s][2] + Total(made, OfScan(s))

\* An SBOM is without its components, and a vulnerability that vuln-intel
\* took in is not announced, only while a request is at it or because one
\* was cut short (sbom.ts:82-102, vulnerabilities-ingest.ts:70-121).
NothingHalfDone ==
  /\ sboms[1] - sboms[2] <= Cardinality({q \in Requests : pc[q] = "index"}) + cuts
  /\ cuts = 0 =>
       ingested[1] - ingested[2] = Total(todo, {q \in Requests : pc[q] = "publish"})

ScansAccounted == FindingsTold /\ CompletionsAddUp /\ NothingHalfDone
=============================================================================

--------------------------- MODULE PoamLifecycle ---------------------------
(***************************************************************************)
(* The POA&M items of one compliance-service process                       *)
(* (backend/services/compliance/src/poam, routes/poam.ts) and the hourly   *)
(* overdue scanner of index.ts.                                            *)
(*                                                                         *)
(* The repository is always the in-memory one, so awaiting it never leaves *)
(* the event loop's turn: a status check and its update are one step, and  *)
(* so are a dedup lookup and the insertion after it.  The one await that   *)
(* gives way to other requests is the bus publish that follows a creation, *)
(* a closure or an overdue mark; it may reject, with or without the event  *)
(* having reached the bus (bound MaxFaults).  Items are numbered in order  *)
(* of creation (bound MaxItems).                                           *)
(***************************************************************************)
EXTENDS Integers, FiniteSets

CONSTANTS
  MaxItems,   \* bound on items created
  Tuples,     \* (tenant, control, vulnerability) triples
  NoTuple,    \* of a manual item that names no vulnerability
  Scans,      \* overdue scans that may be under way at once: nothing prevents
              \* a tick while the previous scan still awaits a publish
  MaxFaults   \* bound on rejected publishes

ASSUME NoTupleAssumption == NoTuple \notin Tuples
ASSUME PoamBoundsAssumption == MaxItems \in Nat /\ MaxFaults \in Nat

Items == 1..MaxItems

\* PoamStatus, and "none" for an item not created yet.
Statuses == {"open", "in_progress", "awaiting_evidence", "closed",
             "risk_accepted", "overdue"}
Resolved == {"closed", "risk_accepted"}

VARIABLES
  size,       \* items 1..size exist
  status,     \* status of each item
  tuple,      \* what each item is about
  auto,       \* items created by the mapping pipeline
  due,        \* items whose dueAt has passed
  awaiting,   \* publishes of creations and closures under way
  marking,    \* item whose overdue publish a scan awaits, 0 when it is idle
  todo,       \* items the scan has listed and will mark next
  faults,     \* publishes that rejected so far
  silent,     \* history: latest changes whose event is not on the bus
  revived     \* history: resolved items a scan overwrote

vars == <<size, status, tuple, auto, due, awaiting, marking, todo, faults,
          silent, revived>>
scans == <<marking, todo>>

\* The changes that are announced on the bus.
Changes == {"created", "closed", "overdue"} \X Items

Init ==
  /\ size = 0 /\ faults = 0
  /\ status = [i \in Items |-> "none"]
  /\ tuple  = [i \in Items |-> NoTuple]
  /\ auto = {} /\ due = {}
  /\ awaiting = {} /\ silent = {} /\ revived = {}
  /\ marking = [s \in Scans |-> 0]
  /\ todo    = [s \in Scans |-> {}]

Created == {i \in Items : i <= size}
Unresolved == {i \in Created : status[i] \notin Resolved}

\* isValidTransition().
ValidTransition(from, to) ==
  \/ from = "closed" /\ to = "open"
  \/ from = "risk_accepted" /\ to \in {"open", "closed"}
  \/ from \notin Resolved /\ to # from

-----------------------------------------------------------------------------
(***************************************************************************)
(* Creation.                                                               *)
(***************************************************************************)

\* repo.create(), and the publish of compliance.poam.created begins.
Create(t) ==
  LET i == size + 1 IN
  /\ size < MaxItems
  /\ size'   = i
  /\ status' = [status EXCEPT ![i] = "open"]
  /\ tuple'  = [tuple EXCEPT ![i] = t]
  /\ awaiting' = awaiting \union {<<"created", i>>}
  /\ silent'   = silent \union {<<"created", i>>}
  /\ UNCHANGED <<due, scans, faults, revived>>

\* findOpenForControlVuln(): whoever created the item.
Tracked(t) == \E i \in Unresolved : tuple[i] = t

\* Mutant: only items in status open count as tracked.
CreateUnlessOpen(t) ==
  /\ ~\E i \in Created : tuple[i] = t /\ status[i] = "open"
  /\ Create(t)
  /\ auto' = auto \union {size + 1}

\* createFromTuple(): a tracked tuple is left alone.
CreateFromTuple(t) ==
  /\ ~Tracked(t)
  /\ Create(t)
  /\ auto' = auto \union {size + 1}

\* createManual() never looks for a duplicate.
CreateManual(t) ==
  /\ Create(t)
  /\ UNCHANGED auto

-----------------------------------------------------------------------------
(***************************************************************************)
(* Transitions requested over HTTP; an invalid one changes nothing.        *)
(***************************************************************************)

\* Mutant: an update of an unknown item inserts it.
Upsert(i, to) ==
  /\ ValidTransition(status[i], to)
  /\ status' = [status EXCEPT ![i] = to]
  /\ UNCHANGED <<size, tuple, auto, due, scans, faults, revived>>

\* transition(): an unknown item or an invalid transition is an error.
Transition(i, to) ==
  /\ i \in Created /\ ValidTransition(status[i], to)
  /\ status' = [status EXCEPT ![i] = to]
  /\ UNCHANGED <<size, tuple, auto, due, scans, faults, revived>>

StartProgress(i) ==
  /\ Transition(i, "in_progress")
  /\ UNCHANGED <<awaiting, silent>>

MarkAwaitingEvidence(i) ==
  /\ Transition(i, "awaiting_evidence")
  /\ UNCHANGED <<awaiting, silent>>

\* Mutant: no event for a closure.
CloseQuietly(i) ==
  /\ Transition(i, "closed")
  /\ silent' = silent \union {<<"closed", i>>}
  /\ UNCHANGED awaiting

\* close(); the publish of compliance.poam.closed begins.
Close(i) ==
  /\ Transition(i, "closed")
  /\ awaiting' = awaiting \union {<<"closed", i>>}
  /\ silent'   = silent \union {<<"closed", i>>}

\* acceptRisk(): the expiry is stored and read nowhere.
AcceptRisk(i) ==
  /\ Transition(i, "risk_accepted")
  /\ UNCHANGED <<awaiting, silent>>

-----------------------------------------------------------------------------
(***************************************************************************)
(* Time, and the overdue scanner.                                          *)
(***************************************************************************)

\* dueAt passes.
PassDue(i) ==
  /\ i \in Created \ due
  /\ due' = due \union {i}
  /\ UNCHANGED <<size, status, tuple, auto, awaiting, scans, faults,
                 silent, revived>>

\* Mutants: closed items are skipped but risk-accepted ones are not; only
\* items in status open are listed.
ListUnlessClosed == {i \in due : status[i] \notin {"closed", "overdue"}}
ListOpen == {i \in due : status[i] = "open"}

\* findAllOpenGroupedByTenant(), less the items the scan will skip: the list
\* is read once, and so is the clock; an update replaces the stored object,
\* so the statuses of the list stay as they were.
Listed == {i \in due : status[i] \notin Resolved \union {"overdue"}}

\* The scan overwrites the status of the next item on its list, whatever it
\* is by now, and begins to publish compliance.poam.overdue.  The order, by
\* tenant and age, is left open.
Mark(s, list) ==
  \E i \in list :
    /\ status'  = [status EXCEPT ![i] = "overdue"]
    /\ silent'  = (silent \ {<<"overdue", marking[s]>>}) \union {<<"overdue", i>>}
    /\ marking' = [marking EXCEPT ![s] = i]
    /\ todo'    = [todo EXCEPT ![s] = list \ {i}]
    /\ revived' = IF status[i] \in Resolved THEN revived \union {i} ELSE revived
    /\ UNCHANGED <<size, tuple, auto, due, awaiting, faults>>

\* The timer fires: the scan lists the items and marks the first one.
ScanTick(s) ==
  /\ marking[s] = 0
  /\ Mark(s, Listed)

\* The publish of the overdue event resolves, and the next item is marked.
ScanNext(s) ==
  /\ marking[s] # 0
  /\ Mark(s, todo[s])

\* The publish of the last one resolves.
ScanEnds(s) ==
  /\ marking[s] # 0 /\ todo[s] = {}
  /\ marking' = [marking EXCEPT ![s] = 0]
  /\ silent'  = silent \ {<<"overdue", marking[s]>>}
  /\ UNCHANGED <<size, status, tuple, auto, due, awaiting, todo, faults,
                 revived>>

\* A rejected publish, or only its reply lost: nobody tries again.
Reject(change) ==
  /\ faults < MaxFaults /\ faults' = faults + 1
  /\ silent' \in {silent, silent \ {change}}

\* The rejection leaves scanForOverdue(): the rest of the list is dropped and
\* the timer's catch logs it.
ScanFails(s) ==
  /\ marking[s] # 0
  /\ Reject(<<"overdue", marking[s]>>)
  /\ marking' = [marking EXCEPT ![s] = 0]
  /\ todo'    = [todo EXCEPT ![s] = {}]
  /\ UNCHANGED <<size, status, tuple, auto, due, awaiting, revived>>

-----------------------------------------------------------------------------
(***************************************************************************)
(* The publishes of creations and closures.                                *)
(***************************************************************************)

Announced(change) ==
  /\ change \in awaiting
  /\ awaiting' = awaiting \ {change}
  /\ silent'   = silent \ {change}
  /\ UNCHANGED <<size, status, tuple, auto, due, scans, faults, revived>>

\* withAudit() records the error and rethrows: the request or the listener
\* fails, and the change stays.
NotAnnounced(change) ==
  /\ change \in awaiting
  /\ Reject(change)
  /\ awaiting' = awaiting \ {change}
  /\ UNCHANGED <<size, status, tuple, auto, due, scans, revived>>

-----------------------------------------------------------------------------

Request ==
  \/ \E t \in Tuples : CreateFromTuple(t)
  \/ \E t \in Tuples \union {NoTuple} : CreateManual(t)
  \/ \E i \in Items :
       StartProgress(i) \/ MarkAwaitingEvidence(i) \/ Close(i) \/ AcceptRisk(i)

Scan(s) == ScanTick(s) \/ ScanNext(s) \/ ScanEnds(s) \/ ScanFails(s)

Next ==
  \/ Request
  \/ \E i \in Items : PassDue(i)
  \/ \E s \in Scans : Scan(s)
  \/ \E change \in Changes : Announced(change) \/ NotAnnounced(change)

Spec == Init /\ [][Next]_vars

\* The timer keeps firing and a publish settles: it resolves or rejects.
\* Nobody is obliged to send a request, and no due date to pass.
Fairness == \A s \in Scans : WF_vars(Scan(s))

FairSpec == Spec /\ Fairness

-----------------------------------------------------------------------------

TypeOK ==
  /\ size \in 0..MaxItems /\ faults \in 0..MaxFaults
  /\ status \in [Items -> Statuses \union {"none"}]
  /\ \A i \in Items : status[i] = "none" <=> i > size
  /\ tuple \in [Items -> Tuples \union {NoTuple}]
  /\ auto \subseteq Created /\ due \subseteq Created
  /\ revived \subseteq Created
  /\ awaiting \subseteq Changes /\ silent \subseteq Changes
  /\ marking \in [Scans -> 0..MaxItems]
  /\ todo \in [Scans -> SUBSET Created]

\* One item per tracked tuple ("deduplicated against any existing open
\* POA&M"): once the pipeline has created an item, every older item of the
\* tuple is resolved for good, unless a stale scan overwrites it.
OneOpenPerTuple ==
  \A i \in Unresolved, j \in auto :
    i < j /\ tuple[i] = tuple[j] => i \in revived

\* Changes whose publish is under way.
InFlight == {change \in Changes :
  change \in awaiting \/ \E s \in Scans : change = <<"overdue", marking[s]>>}

\* A rejected publish keeps at most one change off the bus: no path updates
\* the repository and skips the event, and an aborted scan has not yet touched
\* the items it drops.
OneSilencedPerFailure == Cardinality(silent \ InFlight) <= faults

\* A closed or risk-accepted item is touched again only to close it, or by a
\* scan that had listed it while it was unresolved.
ReopenedOnlyByStaleScan ==
  [][\A i \in Created :
       status[i] \in Resolved /\ status'[i] # status[i] =>
         \/ status'[i] = "closed"
         \/ status'[i] = "overdue" /\ \E s \in Scans : i \in todo[s]]_vars

\* Every past-due item is eventually marked, or somebody resolves it: an
\* aborted scan leaves the rest of its list to a later one.
PastDueEventuallyMarked ==
  \A i \in Items :
    i \in due ~> status[i] \in Resolved \union {"overdue"}

\* poam.types.ts: "open|in_progress|awaiting_evidence -> overdue".
OverdueOnlyFromOpen ==
  [][\A i \in Items :
       status'[i] = "overdue" /\ status[i] # "overdue" =>
         status[i] \in {"open", "in_progress", "awaiting_evidence"}]_vars
=============================================================================

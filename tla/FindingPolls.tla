---------------------------- MODULE FindingPolls ----------------------------
(***************************************************************************)
(* What k8s-health-service and runtime-security-service find in a cluster  *)
(* that changes, from the request that evaluates it to the POA&M items and *)
(* evidence rows compliance-service keeps of it.                           *)
(*                                                                         *)
(* GET /v1/health/issues and POST /v1/runtime-security/scan evaluate the   *)
(* inventory, answer, and publish what they found as one event without     *)
(* waiting for it.  Every evaluation gives every finding a new random id;  *)
(* here it is the number of the request.  An event is handled at least     *)
(* once, in any order; EvidencePipeline has the steps of that handler, and *)
(* here it is one.                                                         *)
(***************************************************************************)
EXTENDS Integers, FiniteSets, SequencesExt

CONSTANTS
  Pods,        \* the pods there may be, in the order the inventory lists them
  PodStates,   \* what a pod may be: Gone, or one of its records
  Workload,
  ReadyOf,     \* how many replicas of the workload may be ready
  NodeStates,  \* the records of the node
  Gone,
  MaxChanges,  \* bound on changes of the cluster
  MaxPolls     \* bound on requests

VARIABLES
  pod,        \* the state of a pod
  ready,      \* ready replicas of the workload
  node,       \* the record of the node
  changes,
  polls,      \* the problems each request found
  pending,    \* requests whose event is on the bus
  handled,    \* requests whose event was handled
  items       \* the open items and evidence rows: a control and a finding's id

vars == <<pod, ready, node, changes, polls, pending, handled, items>>
cluster == <<pod, ready, node, changes>>

Health  == INSTANCE HealthEngine
Runtime == INSTANCE RuntimeRules
Mapper  == INSTANCE ControlMapper

Init ==
  /\ pod \in [Pods -> UNION {PodStates[p] : p \in Pods}]
  /\ \A p \in Pods : pod[p] \in PodStates[p]
  /\ ready = Workload.desired
  /\ node \in NodeStates
  /\ changes = 0 /\ polls = <<>> /\ pending = {} /\ handled = {} /\ items = {}

-----------------------------------------------------------------------------
\* The snapshot an inventory client returns.
Listed(which) ==
  LET listed == SelectSeq(SetToSortSeq(Pods, LAMBDA p, q : p < q),
                          LAMBDA p : which[p] # Gone)
  IN  [k \in DOMAIN listed |-> which[listed[k]]]

SnapshotOf(which) ==
  [pods |-> Listed(which),
   workloads |-> <<[Workload EXCEPT !.ready = ready]>>,
   nodes |-> <<node>>]

Snapshot == SnapshotOf(pod)

Issues == Health!CollectIssues(Snapshot)
Risks  == Runtime!Evaluate(Snapshot.pods)

-----------------------------------------------------------------------------
(***************************************************************************)
(* The cluster changes.                                                    *)
(***************************************************************************)

Changes ==
  /\ changes < MaxChanges /\ changes' = changes + 1
  /\ UNCHANGED <<polls, pending, handled, items>>

PodChanges(p) ==
  /\ Changes
  /\ \E r \in PodStates[p] \ {pod[p]} : pod' = [pod EXCEPT ![p] = r]
  /\ UNCHANGED <<ready, node>>

ReplicasChange ==
  /\ Changes
  /\ ready' \in ReadyOf \ {ready}
  /\ UNCHANGED <<pod, node>>

NodeChanges ==
  /\ Changes
  /\ node' \in NodeStates \ {node}
  /\ UNCHANGED <<pod, ready>>

-----------------------------------------------------------------------------
(***************************************************************************)
(* Requests and events.  A problem is a finding without its id.            *)
(***************************************************************************)

Poll(service, findings) ==
  /\ Len(polls) < MaxPolls
  /\ polls' = Append(polls, [service |-> service, problems |-> ToSet(findings)])
  /\ UNCHANGED <<cluster, handled, items>>

\* Nothing is published when nothing was found.
Publishes(findings) ==
  pending' = IF findings = <<>> THEN pending ELSE pending \union {Len(polls) + 1}

GetIssues  == Poll("k8s-health", Issues) /\ Publishes(Issues)
PostScan   == Poll("runtime-security", Risks) /\ Publishes(Risks)

\* The publish that the request did not wait for is rejected, and logged.
PublishFails(n) ==
  /\ n \in pending /\ pending' = pending \ {n}
  /\ n \notin handled
  /\ UNCHANGED <<cluster, polls, handled, items>>

FromRuntimeRisk(f) ==
  [subject |-> "runtime_risk", rule |-> f.rule, severity |-> Runtime!Severity(f),
   kind |-> "runtime", kev |-> FALSE, recent |-> FALSE]

FromHealthIssue(f) ==
  [subject |-> "health_issue", rule |-> f.kind, severity |-> f.severity,
   kind |-> "runtime", kev |-> FALSE, recent |-> FALSE]

Controls(service, f) ==
  Mapper!Fails(IF service = "k8s-health" THEN FromHealthIssue(f) ELSE FromRuntimeRisk(f))

Item(control, problem, n) == [control |-> control, problem |-> problem, request |-> n]

\* An item and a row for every control that fails, unless there are already
\* ones of that control and that id.  Without an ack the event comes again.
Handle(n, acked) ==
  /\ n \in pending
  /\ pending' = IF acked THEN pending \ {n} ELSE pending
  /\ handled' = handled \union {n}
  /\ items' = items \union
       UNION {{Item(c, f, n) : c \in Controls(polls[n].service, f)} : f \in polls[n].problems}
  /\ UNCHANGED <<cluster, polls>>

Next ==
  \/ \E p \in Pods : PodChanges(p)
  \/ ReplicasChange \/ NodeChanges
  \/ GetIssues \/ PostScan
  \/ \E n \in 1..MaxPolls : PublishFails(n)
  \/ \E n \in 1..MaxPolls, acked \in BOOLEAN : Handle(n, acked)

Spec == Init /\ [][Next]_vars

-----------------------------------------------------------------------------
TypeOK ==
  /\ \A p \in Pods : pod[p] \in PodStates[p]
  /\ ready \in ReadyOf /\ node \in NodeStates /\ changes \in 0..MaxChanges
  /\ Len(polls) <= MaxPolls
  /\ pending \union handled \subseteq DOMAIN polls
  /\ \A i \in items : i.request \in handled

Without(p) == [pod EXCEPT ![p] = Gone]

\* The score of a scope is no better than that of a scope inside it, and no
\* scope gets worse when a pod leaves the cluster (health-engine.ts:85-102,
\* 372-438).
ScoresNest ==
  LET ScoreOf(s) == Health!Score(Health!CollectIssues(s))
      whole == ScoreOf(Snapshot)
      placed == {Snapshot.pods[k].namespace : k \in DOMAIN Snapshot.pods}
                  \union {Workload.namespace}
  IN  /\ \A p \in Pods : ScoreOf(SnapshotOf(Without(p))) >= whole
      /\ \A ns \in placed :
           LET inside == ScoreOf(Health!In(ns, Snapshot)) IN
             /\ whole <= inside
             /\ \A k \in DOMAIN Snapshot.pods :
                  Snapshot.pods[k].namespace = ns =>
                    inside <= Health!Score(Health!DetectPodIssues(Snapshot.pods[k]))
      /\ ScoreOf(Health!In(Workload.namespace, Snapshot))
           <= ScoreOf(Health!Of(Snapshot.workloads[1], Snapshot))
      /\ Health!StatusFor(whole) = "unknown" <=> whole = 0

\* Every issue is counted by exactly one recommendation, but a failed pod by
\* none, and the most urgent come first (health-engine.ts:258-352).
AdviceComplete ==
  LET advice == Health!Recommendations(Issues)
      failed == SelectSeq(Issues, LAMBDA i : i.kind = "failed_pod")
  IN  /\ FoldSeq(LAMBDA a, n : n + a.affected, 0, advice) = Len(Issues) - Len(failed)
      /\ \A j, k \in DOMAIN advice : j < k => advice[j].priority <= advice[k].priority

\* The report of a cluster adds up: its counts and its recommendations count
\* every finding once, its level is that of its gravest finding, no
\* recommendation is graver, and a critical cluster has lost at least 16
\* points (runtime-security.engine.ts:43-58, 84-130).
ReportAddsUp ==
  LET report == Runtime!Report(Snapshot.pods)
      weight(level) == Runtime!LevelWeight[level]
      total(counts) == counts.critical + counts.high + counts.medium + counts.low
  IN  /\ total(report.counts) = Len(report.findings)
      /\ FoldSeq(LAMBDA r, n : n + r.affected, 0, report.recommendations)
           = Len(report.findings)
      /\ \A f \in ToSet(report.findings) : weight(f.level) <= weight(report.riskLevel)
      /\ report.score = 100 <=> report.findings = <<>>
      /\ report.riskLevel = "critical" => report.score <= 84
      /\ \A r \in ToSet(report.recommendations) :
           weight(r.level) <= weight(report.riskLevel)

\* A pod that leaves takes its own findings with it and no others: what the
\* rules find in a pod does not depend on the rest of the cluster
\* (rules.ts:113-445).
FindingsLocal ==
  \A p \in Pods :
    ToSet(Runtime!Evaluate(Listed(Without(p)))) =
      {f \in ToSet(Risks) : pod[p] = Gone \/ f.on # pod[p].name}

\* An item is of a problem that the request of its id found, of a control the
\* rules fail for it; and a problem has no more items under a control than
\* requests that found it (infrastructure-listener.ts:82-113).
ItemsAccounted ==
  \A i \in items :
    /\ i.problem \in polls[i.request].problems
    /\ i.control \in Controls(polls[i.request].service, i.problem)
    /\ Cardinality({j \in items : j.control = i.control /\ j.problem = i.problem})
         <= Cardinality({n \in DOMAIN polls : i.problem \in polls[n].problems})

\* The first four are about the cluster alone, which takes every value it can
\* take before the first request.
FindingsSound ==
  /\ polls = <<>> => ScoresNest /\ AdviceComplete /\ ReportAddsUp /\ FindingsLocal
  /\ ItemsAccounted
=============================================================================

-------------------------- MODULE CostIntelligence --------------------------
(***************************************************************************)
(* cost-intelligence-service: the analysis of one cluster, from the        *)
(* listing of its pods through the queries to Prometheus                   *)
(* (utilisation/source.ts) to findings and recommendations                 *)
(* (engine/cost.engine.ts).                                                *)
(*                                                                         *)
(* A workload is a record of its name, requests and limits (millicores and *)
(* MiB, 0 when they are not set) and replicas.  A pod is a record of its   *)
(* cluster, its name, its owner, the workloads whose name and a hyphen its *)
(* own name begins with, and its use as each query reports it.  There is   *)
(* one namespace, and Prometheus has the pods of all clusters: those there *)
(* were before the end of the window, gone or not.  Utilisation is a       *)
(* percentage of the request; sums of money are not rounded.               *)
(***************************************************************************)
EXTENDS Integers, SequencesExt, FiniteSetsExt

CONSTANTS
  Clusters,
  WorkloadsOf,  \* the workloads of a cluster, in the order they are listed
  Pods,         \* the pods there may be
  CpuPrice,     \* of a millicore, per month
  MemoryPrice,  \* of a MiB, per month
  MaxChanges    \* bound on the changes of a cluster

Queries == {"cpuP50", "cpuP95", "memoryP50", "memoryP95"}

VARIABLES
  on,       \* the cluster that is analysed
  present,  \* the pods there are
  ever,     \* the pods Prometheus has series of
  pc,       \* "list", "window", "query" or "done"
  listed,   \* the pods of the cluster as they were listed
  series,   \* the series of the window
  todo,     \* the queries that are not answered
  got,      \* what each query answered: the pods it has a value of
  failed,   \* history: the queries that failed, which answered nothing
  changes

vars == <<on, present, ever, pc, listed, series, todo, got, failed, changes>>

Init ==
  /\ on \in Clusters
  /\ present \in SUBSET Pods /\ ever = present
  /\ pc = "list" /\ listed = {} /\ series = {} /\ todo = Queries
  /\ got = [q \in Queries |-> {}] /\ failed = {} /\ changes = 0

ListPods ==
  /\ pc = "list" /\ pc' = "window"
  /\ listed' = {p \in present : p.cluster = on}
  /\ UNCHANGED <<on, present, ever, series, todo, got, failed, changes>>

\* The window ends when the inventory is there; all queries are of its end.
EndWindow ==
  /\ pc = "window" /\ pc' = "query" /\ series' = ever
  /\ UNCHANGED <<on, present, ever, listed, todo, got, failed, changes>>

\* The four queries of a namespace are sent at once.
Settled(q) ==
  /\ pc = "query" /\ q \in todo
  /\ todo' = todo \ {q} /\ pc' = IF todo = {q} THEN "done" ELSE pc
  /\ UNCHANGED <<on, present, ever, listed, series, changes>>

\* No cluster is named in the query.
Answered(q) == Settled(q) /\ got' = [got EXCEPT ![q] = series] /\ UNCHANGED failed

\* A time-out, an error status, a body that does not parse: runQuery()
\* returns an empty result.
Fails(q) == Settled(q) /\ failed' = failed \union {q} /\ UNCHANGED got

Changing ==
  /\ pc \in {"list", "window"} /\ changes < MaxChanges /\ changes' = changes + 1
  /\ UNCHANGED <<on, pc, listed, series, todo, got, failed>>

Appears(p) ==
  Changing /\ p \notin present /\ present' = present \union {p} /\ ever' = ever \union {p}
Vanishes(p) ==
  Changing /\ p \in present /\ present' = present \ {p} /\ UNCHANGED ever

Next ==
  \/ ListPods \/ EndWindow
  \/ \E q \in Queries : Answered(q) \/ Fails(q)
  \/ \E p \in Pods : Appears(p) \/ Vanishes(p)

Spec == Init /\ [][Next]_vars

-----------------------------------------------------------------------------
(***************************************************************************)
(* Utilisation.                                                            *)
(***************************************************************************)

Workloads == WorkloadsOf[on]

Owned(w) == {p.name : p \in {l \in listed : l.owner = w.name}}

\* Without known pods a workload is looked for by the beginning of a name.
Matches(w, p) == IF Owned(w) # {} THEN p.name \in Owned(w) ELSE w.name \in p.prefixes

PodNames(w) ==
  {p.name : p \in {r \in UNION {got[q] : q \in Queries} : Matches(w, r)}}

PodCount(w) ==
  IF Owned(w) # {} THEN Cardinality(PodNames(w))
  ELSE IF w.ready > 0 THEN w.ready
  ELSE IF w.desired > 0 THEN w.desired
  ELSE Cardinality(PodNames(w))

\* sum by (pod), added up over the names of the workload's pods.
Use(w, q) ==
  MapThenSumSet(LAMBDA p : p.use[q], {p \in got[q] : p.name \in PodNames(w)})

AtMost(m, n) == IF m <= n THEN m ELSE n
AtLeast(m, n) == IF m >= n THEN m ELSE n

Request(w, q) == IF q \in {"cpuP50", "cpuP95"} THEN w.cpu ELSE w.memory

Ratio(w, q) == AtMost(500, (100 * Use(w, q)) \div (Request(w, q) * PodCount(w)))

Resolved(w) == PodNames(w) # {} /\ w.cpu > 0 /\ w.memory > 0

Defaults == [cpuP50 |-> 40, cpuP95 |-> 60, memoryP50 |-> 50, memoryP95 |-> 70]

Utilisation(w) == IF Resolved(w) THEN [q \in Queries |-> Ratio(w, q)] ELSE Defaults

Source == IF \E k \in DOMAIN Workloads : Resolved(Workloads[k]) THEN "prometheus" ELSE "synthetic"

-----------------------------------------------------------------------------
(***************************************************************************)
(* The engine.                                                             *)
(***************************************************************************)

Cost(w, cpu, memory) == (CpuPrice * cpu + MemoryPrice * memory) * w.ready
CurrentCost(w) == Cost(w, w.cpu, w.memory)

RoundUp(n, step) == ((n + step - 1) \div step) * step

\* A target of 1.25 times the use, rounded up: by the size of the number, so
\* that the millicores of a hundred CPUs and more are taken for bytes.
MemoryStep == 64
Target(request, p95) == (request * p95 * 5 + 399) \div 400

\* Mutant: the target is the use itself.
SizeWithoutHeadroom(dimension, request, p95) ==
  IF p95 = 0 THEN request
  ELSE IF dimension = "memory" THEN RoundUp((request * p95) \div 200, MemoryStep)
  ELSE RoundUp((request * p95) \div 200, 10)

RecommendedSize(dimension, request, p95) ==
  IF p95 = 0 THEN request
  ELSE IF dimension = "memory" THEN RoundUp(Target(request, p95), MemoryStep)
  ELSE IF request < 100 THEN RoundUp(Target(request, p95), 10)
  ELSE IF request < 100000 THEN RoundUp(Target(request, p95), 100)
  ELSE 64 * 1024 * 1024

RecommendedCpu(w) ==
  IF w.cpu = 0 THEN 0
  ELSE AtLeast(50, RecommendedSize("cpu", w.cpu, Utilisation(w).cpuP95))
RecommendedMemory(w) ==
  IF w.memory = 0 THEN 0
  ELSE AtLeast(MemoryStep, RecommendedSize("memory", w.memory, Utilisation(w).memoryP95))
RecommendedCost(w) == Cost(w, RecommendedCpu(w), RecommendedMemory(w))

FindingsOf(w) ==
  LET u == Utilisation(w)
      Finding(kind, severity, savings) ==
        [kind |-> kind, severity |-> severity, on |-> w.name, savings |-> savings]
      When(condition, finding) == IF condition THEN <<finding>> ELSE <<>>
      Saved(cpu, memory) == AtLeast(0, CurrentCost(w) - Cost(w, cpu, memory))
  IN  When(w.cpu = 0 \/ w.memory = 0, Finding("missing_requests", "medium", 0))
   \o When(w.cpuLimit = 0 \/ w.memoryLimit = 0, Finding("missing_limits", "low", 0))
   \o When(w.cpu > 0 /\ u.cpuP95 < 30, Finding("under_utilized_cpu", "medium",
        Saved(RecommendedSize("cpu", w.cpu, u.cpuP95), w.memory)))
   \o When(w.memory > 0 /\ u.memoryP95 < 30, Finding("under_utilized_memory", "medium",
        Saved(w.cpu, RecommendedSize("memory", w.memory, u.memoryP95))))
   \o When(w.cpu > 0 /\ w.cpuLimit > 4 * w.cpu, Finding("noisy_neighbour", "low", 0))
   \o When(u.cpuP95 < 5 /\ u.memoryP95 < 5, Finding("cold_workload", "low", CurrentCost(w)))

Findings == FlattenSeq([k \in DOMAIN Workloads |-> FindingsOf(Workloads[k])])

Savings(w) == AtLeast(0, CurrentCost(w) - RecommendedCost(w))

Analysis ==
  LET current     == FoldLeft(LAMBDA sum, w : sum + CurrentCost(w), 0, Workloads)
      recommended == FoldLeft(LAMBDA sum, w : sum + RecommendedCost(w), 0, Workloads)
  IN  [current |-> current, recommended |-> recommended,
       potential |-> AtLeast(0, current - recommended), findings |-> Findings, source |-> Source]

Priority == [critical |-> 0, high |-> 1, medium |-> 2, low |-> 3]

\* One recommendation for each kind of finding, with the savings of the
\* first, the urgent ones first.
Recommendations ==
  LET kinds == FoldLeft(LAMBDA sofar, f :
                  IF \E k \in DOMAIN sofar : sofar[k].kind = f.kind THEN sofar
                  ELSE Append(sofar,
                    [kind |-> f.kind, priority |-> Priority[f.severity], savings |-> f.savings]),
                <<>>, Findings)
      At(n) == SelectSeq(kinds, LAMBDA r : r.priority = n)
  IN  At(0) \o At(1) \o At(2) \o At(3)

-----------------------------------------------------------------------------
TypeOK ==
  /\ on \in Clusters /\ pc \in {"list", "window", "query", "done"}
  /\ present \subseteq ever /\ ever \subseteq Pods /\ listed \union series \subseteq ever
  /\ todo \subseteq Queries /\ failed \subseteq Queries \ todo
  /\ \A q \in Queries : got[q] \subseteq series
  /\ changes \in 0..MaxChanges

WorkloadSet == ToSet(Workloads)

\* A workload's own pods: nothing else in the window could be taken for one,
\* by its name or, when none was listed, by the beginning of its name.
Clear(w) ==
  \A p \in series : Matches(w, p) => p.cluster = on /\ p.owner = w.name

\* The utilisation of a workload is that of its own pods and of nobody
\* else's, when every query was answered (source.ts:202-243), unless its pods
\* cannot be told from others.
UseIsOwn ==
  pc = "done" /\ failed = {} =>
    \A w \in WorkloadSet : Clear(w) =>
      \A q \in Queries :
        Use(w, q) = MapThenSumSet(LAMBDA p : p.use[q],
                      {p \in got[q] : p.cluster = on /\ p.owner = w.name
                                      /\ (Owned(w) # {} => p \in listed)})

\* A workload is called idle, and its removal recommended, only when its pods
\* are, or a p95 query failed while another was answered (cost.engine.ts:260-271).
ColdIsIdle ==
  pc = "done" =>
    \A k \in DOMAIN Findings : Findings[k].kind = "cold_workload" =>
      \/ {"cpuP95", "memoryP95"} \intersect failed # {}
      \/ \E w \in WorkloadSet :
           /\ w.name = Findings[k].on
           /\ \A p \in series : p.cluster = on /\ p.owner = w.name /\ p.name \in PodNames(w) =>
                100 * p.use["cpuP95"] < 5 * w.cpu * PodCount(w)

\* A recommended size leaves room for the use it was computed of
\* (cost.engine.ts:94-103, 273-283), and when no workload is busy, big or
\* small the recommendation is no dearer.
RoomIsLeft ==
  pc = "done" =>
    \A w \in WorkloadSet :
      LET u == Utilisation(w) IN
        /\ RecommendedCpu(w) >= (w.cpu * u.cpuP95) \div 100
        /\ RecommendedMemory(w) >= (w.memory * u.memoryP95) \div 100
        /\ /\ u.cpuP95 <= 60 /\ w.cpu \in 400..99999
           /\ u.memoryP95 <= 60 /\ w.memory >= 4 * MemoryStep
           => RecommendedCost(w) <= CurrentCost(w)

\* Totals, findings and recommendations agree (cost.engine.ts:284-320,
\* 323-391): the savings of a cluster are no more than those of its workloads,
\* a finding saves no more than its workload costs, and every kind of finding
\* has one recommendation, with the savings of a finding of that kind.
SavingsAgree ==
  pc = "done" =>
    LET analysis == Analysis
        findings == ToSet(analysis.findings)
        recommendations == Recommendations
    IN  /\ analysis.potential <= MapThenSumSet(Savings, WorkloadSet)
        /\ \A f \in findings : \E w \in WorkloadSet :
             w.name = f.on /\ f.savings \in 0..CurrentCost(w)
        /\ \A f \in findings : Cardinality({n \in DOMAIN recommendations :
             recommendations[n].kind = f.kind}) = 1
        /\ \A n \in DOMAIN recommendations :
             /\ \E f \in findings : /\ f.kind = recommendations[n].kind
                                    /\ f.savings = recommendations[n].savings
             /\ n > 1 => recommendations[n - 1].priority <= recommendations[n].priority

CostsSound == UseIsOwn /\ ColdIsIdle /\ RoomIsLeft /\ SavingsAgree
=============================================================================

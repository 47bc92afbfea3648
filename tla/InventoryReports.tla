-------------------------- MODULE InventoryReports --------------------------
(***************************************************************************)
(* inventory-service and reporting-service.  Both fetch a snapshot as the  *)
(* topology service does (TopologyGraphs), without the policies; as they   *)
(* are wired, from fixtures, here from any provider of that interface.     *)
(* The first makes a catalog and graphs of it (inventory.engine.ts);       *)
(* the second derives from it the health, the runtime findings, the cost   *)
(* and the topology that it reports on (inventory/client.ts,               *)
(* engine/report.engine.ts).                                               *)
(*                                                                         *)
(* A pod has a phase and the reason of its last termination, a workload    *)
(* the monthly price of what it requests and its health.  A report is the  *)
(* numbers and rows it gives; its wording and its layout are left out.     *)
(***************************************************************************)
EXTENDS TopologyGraphs, Functions

CONSTANTS
  Pressed,  \* of a cluster: how many of its nodes are under pressure
  Top       \* how many rows the tables of the risk report show: 25

-----------------------------------------------------------------------------
(***************************************************************************)
(* inventory-service.                                                      *)
(***************************************************************************)

Stock(input) == {o \in input : o.kind # "policy"}

Catalog(input) ==
  {Cluster(c) : c \in Clusters}
    \union {o \in Stock(input) : o.kind \in {"namespace", "service", "workload", "ingress"}}

Key(asset) == <<asset.kind, asset.cluster, asset.namespace, asset.name>>
Found(key, input) == {a \in Catalog(input) : Key(a) = key}

Contains(input) ==
  UNION {{Edge(Cluster(n.cluster), a, "in_namespace", <<>>) :
            a \in Found(<<"namespace", n.cluster, n.name, n.name>>, input)} :
          n \in Of("namespace", input)}

\* Workloads are indexed by each of their labels, so that an entry of a
\* selector finds those that have it.
Selects(input) ==
  UNION {{Edge(s, w, "selects", label) : label \in s.selector \intersect w.labels} :
          <<s, w>> \in {p \in Of("service", input) \X Of("workload", input) : Beside(p[1], p[2])}}

RoutesTo(input) ==
  UNION {UNION {{Edge(i, s, "routes_to", <<name>>) :
                   s \in Found(<<"service", i.cluster, i.namespace, name>>, input)} :
                 name \in i.backends} :
          i \in Of("ingress", input)}

RelationshipGraph(input) ==
  [nodes |-> Catalog(input), edges |-> Contains(input) \union Selects(input) \union RoutesTo(input)]

\* Every edge reversed: a workload depends on the services that select it.
DependencyGraph(input) ==
  LET graph == RelationshipGraph(input)
  IN  [nodes |-> graph.nodes,
       edges |-> {Edge(e.target, e.source, "depends_on", e.label) : e \in graph.edges}]

Within(graph, asset) ==
  LET reached[n \in Nat] ==
        IF n = 0 THEN {asset}
        ELSE LET before == reached[n - 1]
             IN  before \union {e.target : e \in {f \in graph.edges : f.source \in before}}
      reachable == reached[Cardinality(graph.nodes)]
  IN  [nodes |-> graph.nodes \intersect reachable,
       edges |-> {e \in graph.edges : {e.source, e.target} \subseteq reachable}]

DependenciesFor(input, asset) == Within(DependencyGraph(input), asset)

-----------------------------------------------------------------------------
(***************************************************************************)
(* reporting-service: what it derives of the snapshot.  Of runtime risks   *)
(* it knows those of the first cluster; the cost is that of all workloads, *)
(* once each.                                                              *)
(***************************************************************************)

AtLeastZero(n) == IF n > 0 THEN n ELSE 0

FirstCluster == 1
PodsIn(c, input) == {p \in Of("pod", input) : p.cluster = c}

BandOf(score) ==
  CASE score >= 90 -> "A" [] score >= 80 -> "B" [] score >= 70 -> "C"
    [] score >= 60 -> "D" [] OTHER -> "F"

SyntheticHealth(c, input) ==
  LET Ended(reason) == {p \in PodsIn(c, input) : p.reason = reason}
      critical == Cardinality(Ended("crash_loop_back_off"))
      high     == Cardinality(Ended("oom_killed")) + Pressed[c]
      medium   == Cardinality({p \in PodsIn(c, input) : p.phase = "pending"})
      score    == AtLeastZero(100 - 8 * critical - 4 * high - 2 * medium)
  IN  [cluster |-> c, critical |-> critical, high |-> high, medium |-> medium,
       score |-> score, band |-> BandOf(score)]

SyntheticRuntime(input) ==
  LET findings == {[pod |-> p,
                    level |-> IF p.reason = "crash_loop_back_off" THEN "critical" ELSE "high"] :
                   p \in {q \in PodsIn(FirstCluster, input) : q.reason # "unknown"}}
      Count(level) == Cardinality({f \in findings : f.level = level})
  IN  [findings |-> findings, critical |-> Count("critical"), high |-> Count("high"),
       level |-> IF Count("critical") > 0 THEN "critical" ELSE IF findings # {} THEN "high" ELSE "low",
       score |-> AtLeastZero(100 - 8 * Count("critical") - 4 * Count("high"))]

\* Sixty hundredths of the current cost is recommended, forty are saved.
SyntheticCost(input) ==
  LET monthly == MapThenSumSet(LAMBDA w : w.price, Of("workload", input))
  IN  [workloads |-> {[workload |-> w, current |-> 100 * w.price, recommended |-> 60 * w.price,
                       saved |-> 40 * w.price] : w \in Of("workload", input)},
       current |-> 100 * monthly, recommended |-> 60 * monthly, saved |-> 40 * monthly]

\* Here a service selects the workloads that have the whole of its selector.
SyntheticTopology(input) ==
  [nodes |-> Of("ingress", input) \union Of("service", input) \union Of("workload", input),
   edges |->
     UNION {Routes(i, input) : i \in Of("ingress", input)}
       \union {Edge(p[1], p[2], "selects", "") :
                p \in {q \in Of("service", input) \X Of("workload", input) :
                        Beside(q[1], q[2]) /\ q[1].selector \subseteq q[2].labels}}]

ReportData(input) ==
  [health   |-> {SyntheticHealth(c, Stock(input)) : c \in Clusters},
   runtime  |-> SyntheticRuntime(Stock(input)),
   cost     |-> SyntheticCost(Stock(input)),
   topology |-> SyntheticTopology(Stock(input))]

-----------------------------------------------------------------------------
(***************************************************************************)
(* The reports, on that data.                                              *)
(***************************************************************************)

Rounded(sum, n) == (2 * sum + n) \div (2 * n)

AverageScore(data) ==
  Rounded(MapThenSumSet(LAMBDA h : h.score, data.health), Cardinality(data.health))

ClusterHealth(data) ==
  [rows  |-> data.health,
   chart |-> [critical |-> MapThenSumSet(LAMBDA h : h.critical, data.health),
              high     |-> MapThenSumSet(LAMBDA h : h.high, data.health),
              medium   |-> MapThenSumSet(LAMBDA h : h.medium, data.health)],
   average |-> AverageScore(data)]

InfrastructureRisk(data) ==
  LET levels == {f.level : f \in data.runtime.findings}
  IN  [level |-> data.runtime.level, score |-> data.runtime.score,
       saved |-> data.cost.saved, workloads |-> Cardinality(data.cost.workloads),
       rows  |-> LET n == Cardinality(data.runtime.findings) IN IF n < Top THEN n ELSE Top,
       chart |-> [l \in levels |-> Cardinality({f \in data.runtime.findings : f.level = l})],
       findings |-> Cardinality(data.runtime.findings)]

RuntimeSecurity(data) ==
  [level |-> data.runtime.level, score |-> data.runtime.score, rows |-> data.runtime.findings,
   chart |-> [critical |-> data.runtime.critical, high |-> data.runtime.high],
   advised |-> Cardinality(data.runtime.findings)]

CostOptimization(data) ==
  LET spaces == {c.workload.namespace : c \in data.cost.workloads}
      reduced == IF data.cost.current > 100 THEN data.cost.current ELSE 100
  IN  [rows  |-> data.cost.workloads,
       chart |-> [ns \in spaces |-> MapThenSumSet(LAMBDA c : c.current,
                    {c \in data.cost.workloads : c.workload.namespace = ns})],
       current |-> data.cost.current, saved |-> data.cost.saved,
       percent |-> Rounded(100 * data.cost.saved, reduced)]

TopologyReport(data) ==
  LET Count(some) == [k \in {o.kind : o \in some} |-> Cardinality({o \in some : o.kind = k})]
  IN  [nodes |-> Cardinality(data.topology.nodes), edges |-> Cardinality(data.topology.edges),
       nodesByKind |-> Count(data.topology.nodes), edgesByKind |-> Count(data.topology.edges)]

ExecutiveSummary(data, input) ==
  LET healthy == {w \in Of("workload", input) : w.health = "healthy"}
  IN  [average |-> AverageScore(data), level |-> data.runtime.level,
       critical |-> data.runtime.critical, cost |-> data.cost.current,
       healthy |-> Cardinality(healthy),
       unhealthy |-> Cardinality(Of("workload", input) \ healthy),
       rollup |-> {<<h.cluster, h.score, h.band>> : h \in data.health}]

-----------------------------------------------------------------------------
Fetched == at = Done

Pairs(edges, kind) == {<<e.source, e.target>> : e \in {f \in edges : f.kind = kind}}

\* Three services draw the same cluster: on one snapshot the inventory service
\* and the topology service select, route and contain alike, and a report
\* shows of the selections those of a whole selector
\* (inventory.engine.ts:221-282, topology.engine.ts:316-425, client.ts:277-311).
ServicesAgree ==
  Fetched =>
    LET inventory == RelationshipGraph(snapshot).edges
        topology  == ApplicationGraph(snapshot, 0).edges
        report    == SyntheticTopology(snapshot).edges
    IN  /\ Pairs(inventory, "selects") = Pairs(topology, "selects")
        /\ Pairs(inventory, "routes_to") = Pairs(topology, "routes_to")
        /\ Pairs(inventory, "in_namespace") \subseteq Pairs(Graph.edges, "in_namespace")
        /\ \A pair \in Pairs(report, "selects") :
             pair[1].selector # {} => pair \in Pairs(topology, "selects")

\* What an asset depends on is closed: it holds the dependencies of all its
\* members, whole, and nothing of another cluster, however the cluster changed
\* during the fetch (inventory.engine.ts:285-315).
DependenciesClosed ==
  Fetched =>
    LET graph == DependencyGraph(snapshot)
        reach == [a \in graph.nodes |-> DependenciesFor(snapshot, a)]
    IN  \A asset \in graph.nodes :
          /\ asset \in reach[asset].nodes
          /\ \A n \in reach[asset].nodes :
               n.cluster = asset.cluster /\ reach[n].nodes \subseteq reach[asset].nodes
          /\ \A e \in graph.edges : e.source \in reach[asset].nodes => e \in reach[asset].edges

\* The reports agree with each other: the criticals of the runtime report are
\* those of the first cluster's health, its findings cover its highs but for
\* the nodes; parts add up to the totals; and the health of a cluster is not worse than
\* the pods there ever were, nor better than those there always were
\* (client.ts:53-222, report.engine.ts:122-568).
ReportsAgree ==
  Fetched =>
    LET data == ReportData(snapshot)
        risk == InfrastructureRisk(data)
        cost == CostOptimization(data)
        drawn == TopologyReport(data)
        runtime == RuntimeSecurity(data)
        brief == ExecutiveSummary(data, snapshot)
        first == SyntheticHealth(FirstCluster, snapshot)
    IN  /\ data.runtime.critical = first.critical
        /\ data.runtime.high + Pressed[FirstCluster] >= first.high
        /\ data.runtime.score <= first.score + 4 * Pressed[FirstCluster] + 2 * first.medium
        /\ SumFunctionOnSet(runtime.chart, DOMAIN runtime.chart) = runtime.advised
        /\ SumFunctionOnSet(risk.chart, DOMAIN risk.chart) = risk.findings
        /\ SumFunctionOnSet(cost.chart, DOMAIN cost.chart) = cost.current
        /\ SumFunctionOnSet(drawn.nodesByKind, DOMAIN drawn.nodesByKind) = drawn.nodes
        /\ SumFunctionOnSet(drawn.edgesByKind, DOMAIN drawn.edgesByKind) = drawn.edges
        /\ brief.average = ClusterHealth(data).average
        /\ brief.healthy + brief.unhealthy = risk.workloads
        /\ \A c \in Clusters :
             /\ SyntheticHealth(c, ever).score <= SyntheticHealth(c, snapshot).score
             /\ SyntheticHealth(c, snapshot).score <= SyntheticHealth(c, always).score

ReportsSound == ServicesAgree /\ DependenciesClosed /\ ReportsAgree
=============================================================================

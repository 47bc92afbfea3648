-------------------------- MODULE FixtureProviders --------------------------
(***************************************************************************)
(* What the infrastructure services say when they run on fixtures: the     *)
(* fixture provider of kubernetes-service (providers/registry.ts), which   *)
(* answers requests that name it, and the copies of it that k8s-health,    *)
(* runtime-security, inventory, reporting, and, without a                  *)
(* KUBERNETES_SERVICE_URL, cost-intelligence and topology read             *)
(* (providers/fixture.provider.ts of each).                                *)
(*                                                                         *)
(* A list call makes its objects anew, with random ids; only clusters have *)
(* an id of their own.  An object is a record of what engines look at;     *)
(* sizes are requests and limits in millicores and MiB; a namespace asked  *)
(* for is "" when none is.                                                 *)
(***************************************************************************)
EXTENDS Integers, SequencesExt, FiniteSetsExt, TLC

CONSTANTS
  Asked,    \* namespaces a request may name, "" for none
  MaxCalls  \* bound on the calls of a provider

VARIABLES
  calls,    \* calls so far: the source of ids
  page,     \* what a user was shown: by which service, of which namespace, rows
  followed, \* the row of it whose link was followed, 0 for none
  found     \* the rows its link led to

vars == <<calls, page, followed, found>>

-----------------------------------------------------------------------------
(***************************************************************************)
(* The records.                                                            *)
(***************************************************************************)

\* healthFromReplicas()
HealthOf(ready, desired) ==
  CASE desired = 0 -> "unknown" [] ready = desired -> "healthy"
    [] ready = 0 -> "unhealthy" [] OTHER -> "degraded"

LOCAL App(name) == <<"app", name>>
LOCAL Or(asked, namespace) == IF asked = "" THEN namespace ELSE asked

\* makeWorkload(): size holds the requests and the limits.
Workload(name, namespace, size, desired, ready) ==
  [kind |-> "workload", name |-> name, namespace |-> namespace, labels |-> {App(name)},
   cpu |-> size[1], cpuLimit |-> size[2], memory |-> size[3], memoryLimit |-> size[4],
   desired |-> desired, ready |-> ready, health |-> HealthOf(ready, desired)]

Payments(asked, ready) ==
  Workload("payments-api", Or(asked, "default"), <<250, 1000, 512, 1024>>, 3, ready)
Orders(asked) == Workload("orders-api", Or(asked, "default"), <<200, 800, 256, 512>>, 2, 2)

LOCAL ClusterOf(id, name, count, ready, nodes) ==
  [kind |-> "cluster", id |-> id, name |-> name, namespace |-> "-", nodeCount |-> count,
   readyNodes |-> ready, nodes |-> nodes]
LOCAL NodeOf(name, condition) == [name |-> name, cordoned |-> FALSE, conditions |-> <<condition>>]
LOCAL Workers(third) ==
  <<NodeOf("2-10", "ready"), NodeOf("2-11", "ready"), NodeOf("2-12", third)>>
LOCAL Prod(count, nodes) == ClusterOf(1, "prod-us-east-1", count, count, nodes)

LOCAL Space(name, workloads, pods, running, pending, failed, services) ==
  [kind |-> "namespace", name |-> name, namespace |-> name, labels |-> {},
   workloads |-> workloads, pods |-> pods, running |-> running, pending |-> pending,
   failed |-> failed, services |-> services]

LOCAL Container(reason, restarts, pinned) ==
  [reason |-> reason, restarts |-> restarts, privileged |-> FALSE, paths |-> <<>>,
   root |-> FALSE, caps |-> <<>>, limited |-> TRUE, pinned |-> pinned]

\* The phase of the n-th pod.
Phase(n) ==
  IF n % 5 = 0 THEN "pending" ELSE IF n % 7 = 0 THEN "failed" ELSE "running"

LOCAL Pod(name, asked, owner, node, phase, account, reason, container) ==
  [kind |-> "pod", name |-> name, namespace |-> Or(asked, "default"), owner |-> owner,
   node |-> node, phase |-> phase, account |-> account, reason |-> reason,
   labels |-> {App(owner)}, containers |-> <<container>>]
LOCAL Ready(asked, account, pinned) ==
  Pod("payments-api-1", asked, "payments-api", "2-10", Phase(1), account, "unknown",
      Container("unknown", 0, pinned))
LOCAL Crashing(asked) ==
  Pod("payments-api-2", asked, "payments-api", "", Phase(0), "default", "crash_loop_back_off",
      Container("crash_loop_back_off", 8, FALSE))
LOCAL OrdersPod(asked, account, reason, told) ==
  Pod("orders-api-1", asked, "orders-api", "2-11", Phase(3), account, reason,
      Container(told, 2, FALSE))

LOCAL Service(name, namespace, endpoints) ==
  [kind |-> "service", name |-> name, namespace |-> namespace, selector |-> {App(name)},
   endpoints |-> endpoints]
LOCAL Public(asked, backends) ==
  [kind |-> "ingress", name |-> "public", namespace |-> Or(asked, "default"),
   backends |-> backends]

LOCAL PolicyOf(name, asked, selector, rules) ==
  [kind |-> "policy", name |-> name, namespace |-> Or(asked, "default"), ingress |-> TRUE,
   podSelector |-> selector, rules |-> rules]
LOCAL FromPods ==
  [ipBlock |-> FALSE, anyNamespace |-> FALSE, namespaceSelector |-> {}, anyPod |-> TRUE,
   podSelector |-> {}]
LOCAL FromIngressController ==
  [ipBlock |-> FALSE, anyNamespace |-> TRUE,
   namespaceSelector |-> {<<"kubernetes.io/metadata.name", "ingress-nginx">>},
   anyPod |-> FALSE, podSelector |-> {}]
LOCAL ThreePolicies(asked) ==
  << PolicyOf("default-deny", asked, {}, {}),
     PolicyOf("allow-same-namespace", asked, {App("orders-api")}, {{FromPods}}),
     PolicyOf("allow-from-ingress-controller", asked, {App("payments-api")},
              {{FromIngressController}}) >>

-----------------------------------------------------------------------------
(***************************************************************************)
(* kubernetes-service.  A request names a cluster that is registered, and  *)
(* the objects are said to be of it and of the namespace that was asked    *)
(* for.                                                                    *)
(***************************************************************************)

KubernetesClusters ==
  << Prod(6, <<NodeOf("1-10", "ready"), NodeOf("2-10", "ready"), NodeOf("2-11", "ready")>>),
     ClusterOf(2, "staging-eu-west-1", 3, 2,
               <<NodeOf("pool-1", "ready"), NodeOf("pool-2", "disk_pressure")>>) >>

KubernetesNamespaces ==
  << Space("default", 4, 8, 7, 0, 1, 5), Space("kube-system", 6, 12, 12, 0, 0, 4),
     Space("monitoring", 3, 6, 5, 1, 0, 2), Space("aicc", 2, 4, 4, 0, 0, 2) >>

KubernetesDeployments(asked) ==
  <<Payments(asked, 3)>>
  \o (IF asked \notin {"", "monitoring"} THEN <<>>
      ELSE <<Workload("prometheus", "monitoring", <<500, 2000, 1024, 4096>>, 2, 1)>>)

KubernetesStatefulSets(asked) ==
  <<Workload("postgres", Or(asked, "default"), <<1000, 2000, 2048, 4096>>, 1, 1)>>

KubernetesDaemonSets(asked) ==
  <<Workload("fluentbit", Or(asked, "kube-system"), <<50, 200, 64, 256>>, 3, 3)>>

KubernetesPods(asked) ==
  <<Ready(asked, "default", FALSE), Crashing(asked),
    OrdersPod(asked, "default", "oom_killed", "unknown")>>

KubernetesServices(asked) ==
  <<Service("payments-api", Or(asked, "default"), {"payments-api-1"}),
    Service("orders-api", Or(asked, "default"), {"orders-api-1"})>>

KubernetesPolicies(asked) == ThreePolicies(asked)

KubernetesIngresses(asked) == <<Public(asked, {"payments-api", "orders-api"})>>

KubernetesWorkloads(asked) ==
  KubernetesDeployments(asked) \o KubernetesStatefulSets(asked) \o KubernetesDaemonSets(asked)

-----------------------------------------------------------------------------
(***************************************************************************)
(* The copies, as their services list them: of no namespace in particular. *)
(***************************************************************************)

LOCAL Sets(fluentbit) ==
  << Workload("postgres", "default", <<1000, 2000, 2048, 4096>>, 1, 1),
     Workload("fluentbit", "kube-system", <<50, 200, 64, 256>>, 3, fluentbit) >>

InventoryRows ==
  <<Prod(3, Workers("ready")),
    Space("default", 3, 6, 6, 0, 0, 2), Space("monitoring", 1, 2, 2, 0, 0, 1)>>
InventoryWorkloads == <<Payments("", 3), Orders("")>> \o Sets(3)
InventoryPods ==
  <<Ready("", "payments-api", FALSE), OrdersPod("", "orders-api", "unknown", "unknown")>>
InventoryServing ==
  <<Service("payments-api", "default", {"payments-api-1"}),
    Service("orders-api", "default", {"orders-api-1"}),
    Public("", {"payments-api", "orders-api"})>>

HealthRows ==
  <<Prod(3, Workers("disk_pressure")),
    Space("default", 3, 6, 4, 1, 1, 4), Space("kube-system", 4, 8, 8, 0, 0, 3)>>
HealthWorkloads == <<Payments("", 2)>> \o Sets(2)
HealthPods ==
  <<Ready("", "default", FALSE), Crashing(""),
    OrdersPod("", "default", "oom_killed", "oom_killed")>>
HealthServing ==
  <<Service("payments-api", "default", {"payments-api-1"}), Public("", {"payments-api"})>>

RuntimeRows ==
  <<Prod(3, Workers("ready")),
    Space("default", 4, 8, 6, 1, 1, 4), Space("kube-system", 4, 8, 8, 0, 0, 3)>>
RuntimeWorkloads ==
  <<Payments("", 3), Workload("legacy-tool", "default", <<0, 0, 0, 0>>, 1, 1)>> \o Sets(3)
LegacyContainer ==
  [Container("unknown", 0, FALSE) EXCEPT
     !.privileged = TRUE, !.root = TRUE, !.caps = <<"SYS_ADMIN", "NET_RAW">>,
     !.paths = <<"/var/run/docker.sock", "/etc">>, !.limited = FALSE]
RuntimePods ==
  <<Ready("", "payments-api", TRUE),
    Pod("legacy-tool-1", "", "legacy-tool", "2-11", "running", "default", "unknown",
        LegacyContainer)>>
RuntimeServing ==
  <<Service("payments-api", "default", {"payments-api-1"}), Public("", {"payments-api"})>>

CostRows == <<Prod(3, Workers("ready")), Space("default", 3, 6, 6, 0, 0, 2)>>
CostWorkloads ==
  <<Payments("", 3), Workload("legacy-batch", "default", <<2000, 4000, 8192, 16384>>, 2, 2),
    Workload("experimental", "default", <<0, 500, 0, 256>>, 1, 1)>> \o Sets(3)
CostPods == <<Ready("", "payments-api", FALSE)>>
CostServing ==
  <<Service("payments-api", "default", {"payments-api-1"}), Public("", {"payments-api"})>>

ReportingRows == <<Prod(3, Workers("disk_pressure")), Space("default", 3, 6, 5, 0, 1, 2)>>
ReportingWorkloads ==
  <<Payments("", 3), Workload("legacy-batch", "default", <<2000, 4000, 8192, 16384>>, 2, 2)>>
ReportingPods == <<Ready("", "payments-api", FALSE), Crashing("")>>
ReportingServing == <<Service("payments-api", "default", {}), Public("", {"payments-api"})>>

TopologyRows ==
  <<Prod(3, Workers("ready")),
    Space("default", 2, 4, 4, 0, 0, 2), Space("platform", 1, 2, 2, 0, 0, 1)>>
TopologyWorkloads(asked) ==
  CASE Or(asked, "default") = "default" -> <<Payments("", 3), Orders("")>>
    [] asked = "platform" -> <<Workload("auth-service", asked, <<300, 1000, 256, 512>>, 2, 2)>>
    [] OTHER -> <<>>
TopologyPods == <<>>
TopologyServices(asked) ==
  CASE Or(asked, "default") = "default" ->
         <<Service("payments-api", "default", {}), Service("orders-api", "default", {})>>
    [] asked = "platform" -> <<Service("auth-service", asked, {})>>
    [] OTHER -> <<>>
TopologyIngresses(asked) ==
  IF Or(asked, "default") = "default" THEN <<Public("", {"payments-api", "orders-api"})>> ELSE <<>>
TopologyPolicies(asked) ==
  IF Or(asked, "default") = "default" THEN ThreePolicies("") ELSE <<>>

Sample ==
  [inventory |-> InventoryRows \o InventoryWorkloads \o InventoryPods \o InventoryServing,
   k8s_health |-> HealthRows \o HealthWorkloads \o HealthPods \o HealthServing,
   runtime |-> RuntimeRows \o RuntimeWorkloads \o RuntimePods \o RuntimeServing,
   cost |-> CostRows \o CostWorkloads \o CostPods \o CostServing,
   reporting |-> ReportingRows \o ReportingWorkloads \o ReportingPods \o ReportingServing,
   topology |-> TopologyRows \o TopologyWorkloads("") \o TopologyPods \o TopologyServices("")
                  \o TopologyIngresses("") \o TopologyPolicies("")]

-----------------------------------------------------------------------------
(***************************************************************************)
(* Requests.                                                               *)
(***************************************************************************)

Readers == DOMAIN Sample

Init ==
  /\ calls = 0 /\ page = [service |-> "none", asked |-> "", call |-> 0, rows |-> <<>>]
  /\ followed = 0 /\ found = {}

Shown(service, asked, rows) ==
  /\ calls < MaxCalls /\ calls' = calls + 1
  /\ page' = [service |-> service, asked |-> asked, call |-> calls', rows |-> rows]
  /\ followed' = 0 /\ found' = {}

\* fetch(): of all clusters, or of one.
Fetched(service, cluster) == IF cluster \in {0, 1} THEN Sample[service] ELSE <<>>

Ask(service, cluster) == Shown(service, "", Fetched(service, cluster))

Kinds == {"namespaces", "workloads", "pods", "services", "policies", "ingresses"}

Provided(kind, asked) ==
  CASE kind = "namespaces" -> KubernetesNamespaces
    [] kind = "workloads"  -> KubernetesWorkloads(asked)
    [] kind = "pods"       -> KubernetesPods(asked)
    [] kind = "services"   -> KubernetesServices(asked)
    [] kind = "policies"   -> KubernetesPolicies(asked)
    [] kind = "ingresses"  -> KubernetesIngresses(asked)

\* A request of kubernetes-service that names the fixture provider.
Request(kind, asked) == Shown("kubernetes", asked, Provided(kind, asked))

Id(call, row, place) == IF row.kind = "cluster" THEN <<0, row.id>> ELSE <<call, place>>

\* Of the inventory, the assets have a route by id; of the others, clusters.
Linked(service, row) ==
  \/ service = "inventory" /\ row.kind # "pod"
  \/ service \in {"k8s_health", "runtime", "cost"} /\ row.kind = "cluster"

\* The route fetches again and looks for the id.
Follow(k) ==
  /\ calls < MaxCalls /\ calls' = calls + 1
  /\ Linked(page.service, page.rows[k])
  /\ followed' = k
  /\ LET again == Fetched(page.service, 0)
     IN  found' = {again[j] : j \in {n \in DOMAIN again :
                     Id(calls', again[n], n) = Id(page.call, page.rows[k], k)}}
  /\ UNCHANGED page

Next ==
  \/ \E service \in Readers, cluster \in 0..2 : Ask(service, cluster)
  \/ \E kind \in Kinds, asked \in Asked : Request(kind, asked)
  \/ \E k \in DOMAIN page.rows : Follow(k)

Spec == Init /\ [][Next]_vars

-----------------------------------------------------------------------------
(***************************************************************************)
(* Properties.                                                             *)
(***************************************************************************)

TypeOK ==
  /\ calls \in 0..MaxCalls /\ page.call \in 0..calls
  /\ page.service \in Readers \union {"none", "kubernetes"} /\ page.asked \in Asked
  /\ followed \in 0..Len(page.rows) /\ found \subseteq ToSet(page.rows)

\* Only clusters keep their ids, so that a link made of a listing leads to
\* them and to nothing else (routes/inventory.ts:76-86, fixture.provider.ts:35).
OnlyClustersFound ==
  followed # 0 =>
    found = {row \in {page.rows[followed]} : row.kind = "cluster"}

\* A request that names a namespace is answered with objects of it, whatever
\* its name (registry.ts:443-826).
AnswersTheNamespace ==
  page.service = "kubernetes" /\ page.asked # "" =>
    \A row \in ToSet(page.rows) : row.kind = "namespace" \/ row.namespace = page.asked

Rows(kind) == {row \in ToSet(page.rows) : row.kind = kind}
Everywhere ==
  UNION {ToSet(Sample[s]) : s \in Readers} \union UNION {ToSet(Provided(kind, "")) : kind \in Kinds}

\* What the copies have to agree on; states and namespaces differ.
Specified(row) ==
  CASE row.kind = "cluster"   -> <<row.id>>
    [] row.kind = "workload"  -> <<row.cpu, row.cpuLimit, row.memory, row.memoryLimit, row.desired>>
    [] row.kind = "pod"       -> <<row.owner, row.node, row.phase, row.containers[1].restarts>>
    [] row.kind = "service"   -> <<row.selector>>
    [] row.kind = "policy"    -> <<row.podSelector, row.rules>>
    [] row.kind \in {"namespace", "ingress"} -> <<>>

\* The copies show one fleet: what two of them name alike is specified alike
\* (fixture.provider.ts of six services, registry.ts:213-826).
OneFleet ==
  \A row \in ToSet(page.rows), other \in Everywhere :
    row.kind = other.kind /\ row.name = other.name => Specified(row) = Specified(other)

\* What an answer names is in it: namespaces, owners, nodes, endpoints and
\* backends.  The owner of the pod of orders-api is missing from k8s-health's,
\* kube-system from two that have a daemon set there.
AnswersClosed ==
  page.service \in Readers =>
    LET Names(kind) == {row.name : row \in Rows(kind)}
        nodes == UNION {{n.name : n \in ToSet(c.nodes)} : c \in Rows("cluster")} \union {""}
    IN  /\ \A pod \in Rows("pod") :
             /\ pod.node \in nodes /\ (pod.node = "" <=> pod.phase = "pending")
             /\ \/ \E w \in Rows("workload") : w.name = pod.owner /\ w.namespace = pod.namespace
                \/ page.service = "k8s_health" /\ pod.owner = "orders-api"
        /\ \A s \in Rows("service") :
             /\ \A p \in s.endpoints : \E pod \in Rows("pod") :
                  pod.name = p /\ pod.phase = "running" /\ s.selector \subseteq pod.labels
             /\ \E w \in Rows("workload") : s.selector \subseteq w.labels
        /\ \A row \in Rows("workload") \union Rows("pod") \union Rows("service") :
             \/ row.namespace \in Names("namespace")
             \/ page.service \in {"inventory", "cost"} /\ row.namespace = "kube-system"
        /\ \A i \in Rows("ingress") : i.backends \subseteq Names("service")

\* The numbers of a namespace add up and are no less than what is listed of
\* it, but for a workload more in the copy of cost; a pod that is listed as
\* pending may be counted as failed (fixture.provider.ts of six services).
CountsCover ==
  page.service \in Readers =>
    \A ns \in Rows("namespace") :
      LET There(kind) == {row \in Rows(kind) : row.namespace = ns.name}
          Of(phase) == Cardinality({p \in There("pod") : p.phase = phase})
      IN  /\ ns.running + ns.pending + ns.failed = ns.pods
          /\ Of("running") <= ns.running
          /\ Of("pending") + Of("failed") <= ns.pending + ns.failed
          /\ Cardinality(There("workload")) <=
               ns.workloads + (IF page.service = "cost" THEN 1 ELSE 0)
          /\ Cardinality(There("service")) <= ns.services

-----------------------------------------------------------------------------
(***************************************************************************)
(* What the engines make of the copies.                                    *)
(***************************************************************************)

LOCAL InOrder(rows, kind) == SelectSeq(rows, LAMBDA row : row.kind = kind)

IssuesOf == INSTANCE HealthEngine
RisksOf  == INSTANCE RuntimeRules
CostsOf  == INSTANCE CostIntelligence WITH
  Clusters <- {1}, WorkloadsOf <- <<CostWorkloads>>, Pods <- {},
  CpuPrice <- 3, MemoryPrice <- 1, MaxChanges <- 0, on <- 1, present <- {}, ever <- {},
  pc <- "done", listed <- ToSet(CostPods), series <- {}, todo <- {},
  got <- [q \in {"cpuP50", "cpuP95", "memoryP50", "memoryP95"} |-> {}], failed <- {}, changes <- 0

\* The objects of a page as the topology service has them.
Numbered ==
  {page.rows[k] @@ [id |-> k, cluster |-> 1] :
     k \in {n \in DOMAIN page.rows : page.rows[n].kind # "cluster"}}
Drawn == INSTANCE TopologyGraphs WITH
  Clusters <- {1}, Fixed <- {}, Optional <- {}, MaxChanges <- 0, objects <- Numbered,
  at <- 2, todo <- {}, snapshot <- Numbered, changes <- 0, always <- Numbered, ever <- Numbered

\* k8s-health has an example of every kind of issue but a pull that fails and
\* a pod that failed, and the pods of a workload count for it
\* (health-engine.ts:122-292).
HealthShown ==
  LET nodes == FlattenSeq([k \in DOMAIN InOrder(page.rows, "cluster") |->
                             InOrder(page.rows, "cluster")[k].nodes])
      snap == [pods |-> InOrder(page.rows, "pod"), workloads |-> InOrder(page.rows, "workload"),
               nodes |-> nodes]
      Kind(issues) == {issues[k].kind : k \in DOMAIN issues}
  IN  page.service = "k8s_health" /\ page.rows # <<>> =>
        /\ Kind(IssuesOf!CollectIssues(snap)) =
             {"crash_loop_back_off", "oom_killed", "restart_storm", "pending_pod",
              "unschedulable_workload", "node_pressure"}
        /\ Kind(IssuesOf!CollectIssues(IssuesOf!Of(snap.workloads[1], snap))) =
             {"crash_loop_back_off", "restart_storm", "pending_pod", "unschedulable_workload"}

\* Every rule of runtime-security but that on RBAC finds something in its
\* copy, and of the pod that is as it should be nothing (rules.ts).
RisksShown ==
  LET pods == InOrder(page.rows, "pod")
      RulesOf(some) == {RisksOf!Evaluate(some)[k].rule : k \in DOMAIN RisksOf!Evaluate(some)}
  IN  page.service = "runtime" /\ page.rows # <<>> =>
        RulesOf(pods) = 1..9 \ {7} /\ RulesOf(<<pods[1]>>) \subseteq {5}

\* As long as Prometheus knows none of its pods, all that the cost engine finds
\* in its copy is the workload without requests (cost.engine.ts:184-279).
CostsShown ==
  page.service = "cost" /\ page.rows # <<>> =>
    /\ [k \in DOMAIN CostsOf!Findings |-> <<CostsOf!Findings[k].kind, CostsOf!Findings[k].on>>] =
         <<<<"missing_requests", "experimental">>>>
    /\ CostsOf!Analysis.source = "synthetic"

\* The copy of topology has no pods, so that of its policies only the one that
\* denies applies, to every workload a service selects
\* (topology.engine.ts:101-116, 182-231).
VerdictsShown ==
  page.service = "topology" /\ page.rows # <<>> =>
    LET full == Drawn!FullGraph(Numbered, 0)
    IN  /\ {<<v[1].target.name, v[2]>> : v \in full.verdicts} =
             {<<w.name, "denied">> : w \in Rows("workload")}
        /\ \A e \in full.edges : e.source.name # "platform" \/ e.target.kind = "namespace"

FixturesSound ==
  /\ OnlyClustersFound /\ AnswersTheNamespace /\ OneFleet /\ AnswersClosed /\ CountsCover
  /\ HealthShown /\ RisksShown /\ CostsShown /\ VerdictsShown
=============================================================================

--------------------------- MODULE TopologyGraphs ---------------------------
(***************************************************************************)
(* topology-service: the inventory client that lists a tenant's clusters   *)
(* kind by kind while they change (inventory/client.ts), and the graphs    *)
(* the engine makes of what it listed (engine/topology.engine.ts).         *)
(*                                                                         *)
(* An object is a record; its id is a number that grows in the order an    *)
(* inventory lists objects of a kind.  Labels and selectors are sets of    *)
(* pairs of a key and a value.  An edge is told by its ends, its kind and  *)
(* its label, so that the edges of a graph are a set.                      *)
(***************************************************************************)
EXTENDS Integers, FiniteSets, FiniteSetsExt

CONSTANTS
  Clusters,    \* clusters, in the order they are listed: 1, 2, ...
  Fixed,       \* objects that stay
  Optional,    \* objects that come and go
  MaxChanges   \* bound on changes during a fetch

VARIABLES
  objects,    \* the objects there are
  at,         \* the cluster being listed, 0 before the fetch
  todo,       \* the kinds of it still to be listed
  snapshot,   \* the objects listed so far
  changes,
  always,     \* history: objects there were all through the fetch
  ever        \* history: objects there were at some time of it

vars == <<objects, at, todo, snapshot, changes, always, ever>>

Init ==
  /\ \E some \in SUBSET Optional : objects = Fixed \union some
  /\ at = 0 /\ todo = {} /\ snapshot = {} /\ changes = 0
  /\ always = {} /\ ever = {}

-----------------------------------------------------------------------------
(***************************************************************************)
(* fetch().  The namespaces of a cluster are listed first, then the other  *)
(* kinds at once.  Deployments stand for the three kinds of workload.      *)
(***************************************************************************)

Kinds == {"workload", "pod", "service", "ingress", "policy"}
Done  == Cardinality(Clusters) + 1

Listed(kind) == {o \in objects : o.cluster = at /\ o.kind = kind}

Begin ==
  /\ at = 0 /\ at' = 1 /\ todo' = {"namespace"}
  /\ always' = objects /\ ever' = objects
  /\ UNCHANGED <<objects, snapshot, changes>>

ListNamespaces ==
  /\ at \in Clusters /\ todo = {"namespace"}
  /\ snapshot' = snapshot \union Listed("namespace")
  /\ todo' = Kinds
  /\ UNCHANGED <<objects, at, changes, always, ever>>

List(kind) ==
  /\ at \in Clusters /\ kind \in todo /\ kind \in Kinds
  /\ snapshot' = snapshot \union Listed(kind)
  /\ IF todo = {kind}
     THEN /\ at' = at + 1
          /\ todo' = IF at + 1 = Done THEN {} ELSE {"namespace"}
     ELSE todo' = todo \ {kind} /\ UNCHANGED at
  /\ UNCHANGED <<objects, changes, always, ever>>

Changing == at \in Clusters /\ changes < MaxChanges /\ changes' = changes + 1

Appears(o) ==
  /\ Changing /\ o \notin objects
  /\ objects' = objects \union {o} /\ ever' = ever \union {o}
  /\ UNCHANGED <<at, todo, snapshot, always>>

Vanishes(o) ==
  /\ Changing /\ o \in objects
  /\ objects' = objects \ {o} /\ always' = always \ {o}
  /\ UNCHANGED <<at, todo, snapshot, ever>>

Next ==
  \/ Begin \/ ListNamespaces
  \/ \E kind \in Kinds : List(kind)
  \/ \E o \in Optional : Appears(o) \/ Vanishes(o)

Spec == Init /\ [][Next]_vars

-----------------------------------------------------------------------------
(***************************************************************************)
(* The engine, on a set of objects.  A filter is a cluster, or 0 for all.  *)
(***************************************************************************)

Of(kind, input) == {o \in input : o.kind = kind}
Passes(o, filter) == filter \in {0, o.cluster}
Beside(o, p) == o.cluster = p.cluster /\ o.namespace = p.namespace

\* find(): the first of some objects, as a set of at most one.
First(some) == {o \in some : \A p \in some : o.id <= p.id}

Edge(source, target, kind, label) ==
  [source |-> source, target |-> target, kind |-> kind, label |-> label]

\* A service selects the workloads beside it that share a label with its
\* selector, once for every label they share.
ServiceMap(input, filter) ==
  LET services == {s \in Of("service", input) : Passes(s, filter)}
      edges == UNION {UNION {{Edge(s, w, "selects", label) :
                                label \in s.selector \intersect w.labels} :
                              w \in {x \in Of("workload", input) : Beside(x, s)}} :
                       s \in services}
  IN  [nodes |-> services \union {e.target : e \in edges}, edges |-> edges]

\* An ingress routes to the services of its own namespace.
Routes(i, input) ==
  UNION {{Edge(i, s, "routes_to", name) :
            s \in First({x \in Of("service", input) : Beside(x, i) /\ x.name = name})} :
          name \in i.backends}

ApplicationGraph(input, filter) ==
  LET map == ServiceMap(input, filter)
      ingresses == {i \in Of("ingress", input) : Passes(i, filter)}
      routes == UNION {Routes(i, input) : i \in ingresses}
  IN  [nodes |-> map.nodes \union ingresses \union {e.target : e \in routes},
       edges |-> map.edges \union routes]

Cluster(c) == [kind |-> "cluster", id |-> c, cluster |-> c, name |-> "cluster", namespace |-> "-"]

Scaffold(input, filter) ==
  LET app == ApplicationGraph(input, filter)
      clusters == {Cluster(c) : c \in {d \in Clusters : filter \in {0, d}}}
      spaces == {ns \in Of("namespace", input) : Passes(ns, filter)}
  IN  [nodes |-> app.nodes \union clusters \union spaces,
       edges |-> app.edges
         \union {Edge(Cluster(ns.cluster), ns, "in_namespace", "") : ns \in spaces}
         \union {Edge(pair[1], pair[2], "in_namespace", "") :
                  pair \in {q \in spaces \X app.nodes : Beside(q[1], q[2])}}]

-----------------------------------------------------------------------------
(***************************************************************************)
(* inferNetworkPolicy().                                                   *)
(***************************************************************************)

Matches(selector, labels) == selector \subseteq labels

\* A workload has the labels of its first pod.
PodOf(node, input) ==
  First({p \in Of("pod", input) : Beside(p, node) /\ p.owner = node.name})
LabelsOf(node, input) ==
  IF node.kind = "workload" THEN UNION {p.labels : p \in PodOf(node, input)} ELSE {}
NamespaceLabels(node, input) ==
  UNION {ns.labels : ns \in First({n \in Of("namespace", input) : Beside(n, node)})}

Judged(edge) == edge.kind \in {"routes_to", "selects"} /\ edge.target.kind = "workload"

Selecting(target, input) ==
  {p \in Of("policy", input) :
    Beside(p, target) /\ p.ingress /\ Matches(p.podSelector, LabelsOf(target, input))}

\* A rule with no peers admits every source.  A peer without a namespace
\* selector is of the policy's namespace; one with neither selector, or with
\* an address block, admits nobody.
Admits(peer, edge, input) ==
  /\ ~peer.ipBlock
  /\ \/ peer.anyNamespace /\ Matches(peer.namespaceSelector, NamespaceLabels(edge.source, input))
     \/ ~peer.anyNamespace /\ Beside(edge.source, edge.target)
  /\ \/ peer.anyPod /\ Matches(peer.podSelector, LabelsOf(edge.source, input))
     \/ ~peer.anyPod /\ peer.anyNamespace

Permits(policy, edge, input) ==
  \E from \in policy.rules : from = {} \/ \E peer \in from : Admits(peer, edge, input)

\* Mutant: the first policy that selects the workload decides.
VerdictOfFirst(edge, input) ==
  LET selecting == Selecting(edge.target, input)
  IN  IF selecting = {} THEN "unrestricted"
      ELSE IF \E p \in First(selecting) : Permits(p, edge, input) THEN "allowed" ELSE "denied"

Verdict(edge, input) ==
  LET selecting == Selecting(edge.target, input)
  IN  IF selecting = {} THEN "unrestricted"
      ELSE IF \E p \in selecting : Permits(p, edge, input) THEN "allowed" ELSE "denied"

FullGraph(input, filter) ==
  LET graph == Scaffold(input, filter)
  IN  [nodes |-> graph.nodes, edges |-> graph.edges,
       verdicts |-> {<<e, Verdict(e, input)>> : e \in {f \in graph.edges : Judged(f)}}]

-----------------------------------------------------------------------------
NamespaceView(input, name, filter) ==
  LET full == FullGraph(input, filter)
      nodes == {n \in full.nodes : name \in {n.namespace, n.name}}
  IN  [nodes |-> nodes,
       edges |-> {e \in full.edges : {e.source, e.target} \subseteq nodes}]

\* The first service of the name in any namespace of the cluster.
NamespaceRelationships(input, filter) ==
  UNION {UNION {{<<i, s>> : s \in {t \in First({x \in Of("service", input) :
                                     x.cluster = i.cluster /\ x.name = name}) :
                                    t.namespace # i.namespace}} :
                 name \in i.backends} :
          i \in {j \in Of("ingress", input) : Passes(j, filter)}}

-----------------------------------------------------------------------------
TypeOK ==
  /\ objects \subseteq Fixed \union Optional /\ Fixed \subseteq objects
  /\ at \in 0..Done /\ todo \subseteq Kinds \union {"namespace"}
  /\ snapshot \subseteq ever /\ always \subseteq ever
  /\ changes \in 0..MaxChanges

Graph == FullGraph(snapshot, 0)

\* What was there all through the fetch is in the snapshot, and nothing is
\* that never was (client.ts:51-96).
SnapshotBounds == at = Done => always \subseteq snapshot /\ snapshot \subseteq ever

\* No edge of a graph or a view has an end outside it, and a filtered graph is
\* the part of the whole graph that is of the cluster, verdicts included
\* (topology.engine.ts:316-452).
GraphsWhole ==
  at = Done =>
    /\ \A e \in Graph.edges : {e.source, e.target} \subseteq Graph.nodes
    /\ \A c \in Clusters :
         LET part == FullGraph(snapshot, c) IN
           /\ part.nodes = {n \in Graph.nodes : n.cluster = c}
           /\ part.edges = {e \in Graph.edges : e.source.cluster = c}
           /\ part.verdicts = {v \in Graph.verdicts : v[1].source.cluster = c}
    /\ \A ns \in Of("namespace", snapshot) :
         LET view == NamespaceView(snapshot, ns.name, ns.cluster) IN
           \A e \in view.edges : e.source.namespace = e.target.namespace

\* Policies add up: with one policy more, what was allowed stays so unless
\* nothing restricted it, and what was restricted stays restricted
\* (topology.engine.ts:189-230).
PoliciesAddUp ==
  at = Done =>
    \A p \in Of("policy", snapshot), v \in Graph.verdicts :
      LET before == Verdict(v[1], snapshot \ {p}) IN
        /\ before = "allowed" => v[2] = "allowed"
        /\ before = "denied" => v[2] # "unrestricted"
        /\ v[2] = "denied" => before \in {"denied", "unrestricted"}

\* The verdict on a workload is not invented by the fetch: when the policies
\* that select every pod of the workload, and a pod of it, were there all the
\* time, an edge to it is restricted; and a restricted edge had a policy
\* beside it at some time (client.ts:63-83, topology.engine.ts:106-113).
VerdictsGrounded ==
  at = Done =>
    \A v \in Graph.verdicts :
      LET target == v[1].target
          pods(input) == {p \in Of("pod", input) : Beside(p, target) /\ p.owner = target.name}
      IN  /\ /\ pods(always) # {}
             /\ \E p \in Of("policy", always) :
                  /\ Beside(p, target) /\ p.ingress
                  /\ \A q \in pods(ever) : Matches(p.podSelector, q.labels)
             => v[2] # "unrestricted"
          /\ v[2] # "unrestricted" => \E p \in Of("policy", ever) : Beside(p, target)

TopologySound == SnapshotBounds /\ GraphsWhole /\ PoliciesAddUp /\ VerdictsGrounded
=============================================================================

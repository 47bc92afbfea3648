--------------------------- MODULE SmallClusters ---------------------------
(***************************************************************************)
(* The clusters of the small instances of FindingPolls and TopologyGraphs. *)
(***************************************************************************)
EXTENDS TLC

(***************************************************************************)
(* FindingPolls: a pod of a workload with two containers, a pod in         *)
(* kube-system, the workload and a node.  The records of the pods reach    *)
(* every rule and every kind of issue, with a restart storm made of two    *)
(* containers, and enough issues to bring a score to 0.                    *)
(***************************************************************************)

NoPod == [name |-> "none"]

LOCAL Clean ==
  [reason |-> "none", restarts |-> 0, privileged |-> FALSE, paths |-> <<>>,
   root |-> FALSE, caps |-> <<>>, limited |-> TRUE, pinned |-> TRUE]
LOCAL Restarting == [Clean EXCEPT !.restarts = 3, !.root = TRUE]
LOCAL Crashing   == [Restarting EXCEPT !.reason = "crash_loop_back_off", !.pinned = FALSE]
LOCAL Starved    == [Clean EXCEPT !.reason = "oom_killed", !.limited = FALSE]
LOCAL Unpulled   == [Clean EXCEPT !.reason = "err_image_pull", !.pinned = FALSE]
LOCAL Powerful   ==
  [Clean EXCEPT !.privileged = TRUE, !.paths = <<"/data", "/etc">>,
                !.caps = <<"CHOWN", "NET_RAW", "SYS_ADMIN">>]

LOCAL Web(phase, account, containers) ==
  [name |-> "web", namespace |-> "app", owner |-> "web", phase |-> phase,
   account |-> account, containers |-> containers]
LOCAL Agent(phase, containers) ==
  [name |-> "agent", namespace |-> "kube-system", owner |-> "none", phase |-> phase,
   account |-> "default", containers |-> containers]

WebAndAgent ==
  << {NoPod, Web("running", "web", <<Clean, Clean>>),
      Web("running", "default", <<Restarting, Restarting>>),
      Web("failed", "web", <<Crashing, Crashing>>),
      Web("pending", "default", <<Unpulled, Starved>>)},
     {NoPod, Agent("running", <<Powerful>>), Agent("failed", <<Crashing, Crashing>>)} >>

WebWorkload == [name |-> "web", namespace |-> "app", desired |-> 2, ready |-> 2]

LOCAL NodeWith(cordoned, conditions) ==
  [name |-> "node", cordoned |-> cordoned, conditions |-> conditions]
NodeRecords ==
  {NodeWith(FALSE, <<"ready">>), NodeWith(FALSE, <<"disk_pressure", "network_unavailable">>),
   NodeWith(TRUE, <<"disk_pressure", "network_unavailable">>)}

-----------------------------------------------------------------------------
(***************************************************************************)
(* TopologyGraphs and InventoryReports: two clusters. In namespace a of    *)
(* the first, a service selects one workload with its whole selector and   *)
(* another with a part of it; two pods of the first workload differ in     *)
(* their labels; an ingress of b names a service that a has too. The       *)
(* second cluster has the same names.                                      *)
(***************************************************************************)

LOCAL Api == <<"app", "api">>
LOCAL Tier(t) == <<"tier", t>>
LOCAL Team(t) == <<"team", t>>

LOCAL Object(kind, id, cluster, namespace, name) ==
  [kind |-> kind, id |-> id, cluster |-> cluster, namespace |-> namespace, name |-> name]

LOCAL SpaceOf(id, c, ns) ==
  Object("namespace", id, c, ns, ns) @@ [labels |-> {Team(ns)}]
LOCAL Service(id, c, ns, selector) ==
  Object("service", id, c, ns, "api") @@ [selector |-> selector]
LOCAL WorkloadOf(id, c, ns, name, labels) ==
  Object("workload", id, c, ns, name) @@
    [labels |-> labels, price |-> id, health |-> IF id = 2 THEN "degraded" ELSE "healthy"]
LOCAL Pod(id, c, ns, owner, labels, phase, reason) ==
  Object("pod", id, c, ns, "pod") @@
    [owner |-> owner, labels |-> labels, phase |-> phase, reason |-> reason]
LOCAL Ingress(id, c, ns) ==
  Object("ingress", id, c, ns, "web") @@ [backends |-> {"api"}]
LOCAL Policy(id, c, ns, podSelector, rules) ==
  Object("policy", id, c, ns, "policy") @@
    [ingress |-> TRUE, podSelector |-> podSelector, rules |-> rules]
LOCAL FromTeam(t) ==
  [ipBlock |-> FALSE, anyNamespace |-> TRUE, namespaceSelector |-> {Team(t)},
   anyPod |-> FALSE, podSelector |-> {}]
LOCAL FromPods(selector) ==
  [ipBlock |-> FALSE, anyNamespace |-> FALSE, namespaceSelector |-> {},
   anyPod |-> TRUE, podSelector |-> selector]

StandingObjects ==
  { SpaceOf(1, 1, "a"), SpaceOf(2, 1, "b"), SpaceOf(3, 2, "a"),
    Service(1, 1, "a", {Api, Tier("web")}),
    WorkloadOf(1, 1, "a", "web", {Api, Tier("web")}),
    WorkloadOf(2, 1, "a", "db", {Api, Tier("db")}),
    WorkloadOf(3, 2, "a", "web", {Api}), Service(3, 2, "a", {Api}) }

PassingObjects ==
  { Service(2, 1, "b", {Api}), Ingress(1, 1, "b"),
    Pod(1, 1, "a", "web", {Api, Tier("web")}, "pending", "crash_loop_back_off"),
    Pod(2, 1, "a", "web", {Api}, "running", "oom_killed"),
    Policy(1, 1, "a", {Api}, {}), Policy(2, 1, "a", {Tier("web")}, {{FromTeam("a")}}),
    Policy(3, 1, "a", {}, {{FromPods({Api})}}) }

-----------------------------------------------------------------------------
(***************************************************************************)
(* ClusterListings: a pod that is ready, one that was killed for its       *)
(* memory often and runs again, one held back after that, one just killed  *)
(* after an error, one that starts.                                        *)
(***************************************************************************)
LOCAL Raw(phase, state, why, last, restarts, ready) ==
  [phase |-> phase, revision |-> 1, state |-> state, why |-> why, last |-> last,
   restarts |-> restarts, ready |-> ready]

RawPods ==
  { Raw("Running", "running", "", "", 0, TRUE),
    Raw("Running", "running", "", "OOMKilled", 5, FALSE),
    Raw("Running", "waiting", "CrashLoopBackOff", "OOMKilled", 4, FALSE),
    Raw("Running", "terminated", "OOMKilled", "Error", 1, FALSE),
    Raw("Pending", "waiting", "ContainerCreating", "", 0, FALSE) }
=============================================================================

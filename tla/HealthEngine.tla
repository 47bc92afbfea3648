---------------------------- MODULE HealthEngine ----------------------------
(***************************************************************************)
(* The health engine of k8s-health-service (engine/health-engine.ts): what *)
(* it finds wrong with pods, workloads and nodes, the score of a scope and *)
(* the recommendations made of a list of issues.                           *)
(*                                                                         *)
(* A pod is a record of its name, namespace, owner, phase and containers;  *)
(* a node of its name, whether it is cordoned, and its conditions.  An     *)
(* issue is told by its kind, severity, subject and the part of the        *)
(* subject its message names; the id and the times are left out.           *)
(***************************************************************************)
EXTENDS Integers, SequencesExt

LOCAL Issue(kind, severity, on, part) ==
  [kind |-> kind, severity |-> severity, on |-> on, part |-> part]

LOCAL OneIf(condition, issue) == IF condition THEN <<issue>> ELSE <<>>

LOCAL FlatMap(Op(_), s) == FlattenSeq([k \in DOMAIN s |-> Op(s[k])])

PullFailures == {"image_pull_back_off", "err_image_pull", "err_image_never_pull",
                 "create_container_config_error", "invalid_image_name"}

\* A container reports its last termination reason.
ContainerIssues(pod, k) ==
  LET reason == pod.containers[k].reason
  IN  OneIf(reason = "crash_loop_back_off",
            Issue("crash_loop_back_off", "critical", pod.name, k))
      \o OneIf(reason \in PullFailures, Issue("image_pull_back_off", "high", pod.name, k))
      \o OneIf(reason = "oom_killed", Issue("oom_killed", "high", pod.name, k))

Restarts(pod) == FoldSeq(LAMBDA c, n : n + c.restarts, 0, pod.containers)

DetectPodIssues(pod) ==
  FlattenSeq([k \in DOMAIN pod.containers |-> ContainerIssues(pod, k)])
  \o OneIf(Restarts(pod) >= 5, Issue("restart_storm", "critical", pod.name, 0))
  \o OneIf(pod.phase = "pending", Issue("pending_pod", "high", pod.name, 0))
  \o OneIf(pod.phase = "failed", Issue("failed_pod", "critical", pod.name, 0))

DetectWorkloadIssues(w) ==
  OneIf(w.desired > 0 /\ w.ready < w.desired,
        Issue("unschedulable_workload", IF w.ready = 0 THEN "critical" ELSE "high",
              w.name, 0))

\* A cordoned node reports no condition.
DetectNodeIssues(node) ==
  LET Reports(condition) ==
        OneIf(condition # "ready",
              Issue("node_pressure",
                    IF condition = "network_unavailable" THEN "critical" ELSE "high",
                    node.name, condition))
  IN  IF node.cordoned THEN <<Issue("node_pressure", "high", node.name, "cordoned")>>
      ELSE FlatMap(Reports, node.conditions)

-----------------------------------------------------------------------------
(***************************************************************************)
(* The scopes, on a snapshot of one cluster.                               *)
(***************************************************************************)

CollectIssues(snap) ==
  FlatMap(DetectPodIssues, snap.pods) \o FlatMap(DetectWorkloadIssues, snap.workloads)
  \o FlatMap(DetectNodeIssues, snap.nodes)

\* The objects of a namespace.
In(ns, snap) ==
  [pods |-> SelectSeq(snap.pods, LAMBDA p : p.namespace = ns),
   workloads |-> SelectSeq(snap.workloads, LAMBDA w : w.namespace = ns),
   nodes |-> <<>>]

\* A workload and its pods.
Of(w, snap) ==
  [pods |-> SelectSeq(snap.pods,
              LAMBDA p : p.namespace = w.namespace /\ p.owner = w.name),
   workloads |-> <<w>>, nodes |-> <<>>]

-----------------------------------------------------------------------------
(***************************************************************************)
(* buildScore(): the weights are doubled, an info issue weighing one half. *)
(***************************************************************************)

TwiceWeight ==
  [critical |-> 16, high |-> 8, medium |-> 4, low |-> 2, info |-> 1]

LOCAL Larger(m, n) == IF m >= n THEN m ELSE n

\* Math.round() takes a half up.
Score(issues) ==
  LET lost == FoldSeq(LAMBDA i, n : n + TwiceWeight[i.severity], 0, issues)
  IN  Larger(0, (200 - lost + 1) \div 2)

BandFor(score) ==
  IF score >= 90 THEN "A" ELSE IF score >= 80 THEN "B"
  ELSE IF score >= 70 THEN "C" ELSE IF score >= 60 THEN "D" ELSE "F"

StatusFor(score) ==
  IF score >= 90 THEN "healthy" ELSE IF score >= 70 THEN "degraded"
  ELSE IF score > 0 THEN "unhealthy" ELSE "unknown"

-----------------------------------------------------------------------------
(***************************************************************************)
(* buildRecommendations(): in the order they are pushed, and then sorted   *)
(* by priority.                                                            *)
(***************************************************************************)

LOCAL Advice(priority, kinds) == [priority |-> priority, kinds |-> kinds]

\* Mutant: unschedulable workloads are told of, and not counted.
PodsOnly ==
  << Advice(0, {"crash_loop_back_off"}), Advice(1, {"pending_pod"}),
     Advice(1, {"oom_killed"}), Advice(1, {"image_pull_back_off"}),
     Advice(0, {"restart_storm"}), Advice(2, {"node_pressure"}) >>

AllAdvice ==
  << Advice(0, {"crash_loop_back_off"}),
     Advice(1, {"pending_pod", "unschedulable_workload"}),
     Advice(1, {"oom_killed"}), Advice(1, {"image_pull_back_off"}),
     Advice(0, {"restart_storm"}), Advice(2, {"node_pressure"}) >>

Affected(advice, issues) == Len(SelectSeq(issues, LAMBDA i : i.kind \in advice.kinds))

Recommendations(issues) ==
  LET given == SelectSeq(AllAdvice, LAMBDA a : Affected(a, issues) > 0)
      counted == [k \in DOMAIN given |->
                   [priority |-> given[k].priority, kinds |-> given[k].kinds,
                    affected |-> Affected(given[k], issues)]]
  IN  FlattenSeq([p \in 1..3 |-> SelectSeq(counted, LAMBDA a : a.priority = p - 1)])
=============================================================================

---------------------------- MODULE RuntimeRules ----------------------------
(***************************************************************************)
(* The rules of runtime-security-service (engine/rules.ts) and the report  *)
(* made of their findings (engine/runtime-security.engine.ts).             *)
(*                                                                         *)
(* A container is a record of what the rules look at: is it privileged,    *)
(* its hostPath mounts, does it run as root, its added capabilities, has   *)
(* it limits, is its image pinned.  A finding is told by its rule, level,  *)
(* pod and the part of the pod its message names.                          *)
(***************************************************************************)
EXTENDS Integers, SequencesExt

LOCAL Risk(rule, level, pod, part) ==
  [rule |-> rule, level |-> level, on |-> pod.name, part |-> part]

LOCAL OneIf(condition, risk) == IF condition THEN <<risk>> ELSE <<>>

\* One rule of a container, over the containers of all pods.
LOCAL EachContainer(Findings(_, _), pods) ==
  FlattenSeq([n \in DOMAIN pods |->
    FlattenSeq([k \in DOMAIN pods[n].containers |-> Findings(pods[n], k)])])

LOCAL EachPod(Findings(_), pods) == FlattenSeq([n \in DOMAIN pods |-> Findings(pods[n])])

DangerousCapabilities ==
  {"NET_RAW", "NET_ADMIN", "SYS_ADMIN", "SYS_MODULE", "SYS_PTRACE", "SYS_RAWIO",
   "SYS_BOOT", "SYS_TIME", "SYSLOG", "MKNOD", "AUDIT_WRITE", "DAC_READ_SEARCH",
   "SETFCAP", "SYS_RESOURCE", "ALL"}

SensitiveHostPaths ==
  {"/", "/etc", "/var/run/docker.sock", "/var/lib/kubelet", "/proc", "/sys", "/root",
   "/var/log"}

Privileged(pods) ==
  LET Of(pod, k) == OneIf(pod.containers[k].privileged, Risk(1, "critical", pod, k))
  IN  EachContainer(Of, pods)

HostPath(pods) ==
  LET Of(pod, k) == [j \in DOMAIN pod.containers[k].paths |->
        LET path == pod.containers[k].paths[j]
        IN  Risk(2, IF path \in SensitiveHostPaths THEN "critical" ELSE "high",
                 pod, <<k, path>>)]
  IN  EachContainer(Of, pods)

RootUser(pods) ==
  LET Of(pod, k) == OneIf(pod.containers[k].root, Risk(3, "high", pod, k))
  IN  EachContainer(Of, pods)

DangerousCapability(pods) ==
  LET Of(pod, k) ==
        LET added == SelectSeq(pod.containers[k].caps,
                               LAMBDA c : c \in DangerousCapabilities)
        IN  [j \in DOMAIN added |->
              Risk(4, IF added[j] \in {"SYS_ADMIN", "ALL"} THEN "critical" ELSE "high",
                   pod, <<k, added[j]>>)]
  IN  EachContainer(Of, pods)

\* The severity of a finding is its level, but a capability's is always high.
Severity(risk) == IF risk.rule = 4 THEN "high" ELSE risk.level

\* A pod of which every container runs as root.
SecurityContext(pods) ==
  LET Of(pod) ==
        OneIf(/\ pod.namespace \notin {"kube-system", "kube-public", "kube-node-lease"}
              /\ \A k \in DOMAIN pod.containers : pod.containers[k].root,
              Risk(5, "medium", pod, 0))
  IN  EachPod(Of, pods)

ServiceAccount(pods) ==
  LET Of(pod) ==
        OneIf(pod.account = "default" /\ pod.namespace \notin {"kube-system", "kube-public"},
              Risk(6, "medium", pod, 0))
  IN  EachPod(Of, pods)

ResourceLimit(pods) ==
  LET Of(pod, k) == OneIf(~pod.containers[k].limited, Risk(8, "low", pod, k))
  IN  EachContainer(Of, pods)

ImageDigest(pods) ==
  LET Of(pod, k) == OneIf(~pod.containers[k].pinned, Risk(9, "medium", pod, k))
  IN  EachContainer(Of, pods)

\* RULES, in their order.  The seventh, on RBAC, finds nothing.
Evaluate(pods) ==
  Privileged(pods) \o HostPath(pods) \o RootUser(pods) \o DangerousCapability(pods)
  \o SecurityContext(pods) \o ServiceAccount(pods) \o ResourceLimit(pods)
  \o ImageDigest(pods)

-----------------------------------------------------------------------------
LevelWeight == [critical |-> 4, high |-> 3, medium |-> 2, low |-> 1]

LOCAL Larger(m, n) == IF m >= n THEN m ELSE n

LOCAL AtLevel(findings, level) == SelectSeq(findings, LAMBDA f : f.level = level)

RollupLevel(findings) ==
  IF AtLevel(findings, "critical") # <<>> THEN "critical"
  ELSE IF AtLevel(findings, "high") # <<>> THEN "high"
  ELSE IF AtLevel(findings, "medium") # <<>> THEN "medium" ELSE "low"

ScoreFor(findings) ==
  Larger(0, 100 - FoldSeq(LAMBDA f, n : n + 4 * LevelWeight[f.level], 0, findings))

Counts(findings) == [level \in DOMAIN LevelWeight |-> Len(AtLevel(findings, level))]

\* One recommendation per rule, at the level of its first finding, the
\* gravest first.
TopRecommendations(findings) ==
  LET With(rule) == SelectSeq(findings, LAMBDA f : f.rule = rule)
      made == [rule \in 1..9 |-> With(rule)]
      fired == SelectSeq([k \in 1..9 |-> k], LAMBDA rule : made[rule] # <<>>)
      all == [k \in DOMAIN fired |->
               [rule |-> fired[k], level |-> made[fired[k]][1].level,
                affected |-> Len(made[fired[k]])]]
      weighing(n) == SelectSeq(all, LAMBDA r : LevelWeight[r.level] = n)
  IN  weighing(4) \o weighing(3) \o weighing(2) \o weighing(1)

Report(pods) ==
  LET findings == Evaluate(pods)
  IN  [riskLevel |-> RollupLevel(findings), score |-> ScoreFor(findings),
       counts |-> Counts(findings), findings |-> findings,
       recommendations |-> TopRecommendations(findings)]
=============================================================================

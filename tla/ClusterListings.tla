--------------------------- MODULE ClusterListings ---------------------------
(***************************************************************************)
(* What kubernetes-service says of a live cluster, LiveProvider's lists    *)
(* and providers/k8s-mappers.ts, and what k8s-health makes of it.  The     *)
(* cluster has one workload, whose pods the kubelet and whose status its   *)
(* controller change while pods and workloads are listed one after the     *)
(* other.                                                                  *)
(*                                                                         *)
(* A pod has one container.  Its raw status is the state of the container, *)
(* why it waits or was terminated, why it was terminated the time before,  *)
(* and how often it was restarted.  Quantities are in thousandths.         *)
(***************************************************************************)
EXTENDS Integers, FiniteSets, SequencesExt

CONSTANTS
  Slots,       \* the pods there may be
  FirstPods,   \* the raw pods an instance begins with
  MaxDesired,  \* replicas that are asked for
  Quantities,  \* amounts in thousandths, for the quantities of requests
  MaxChanges   \* bound on the changes of the cluster

None == [phase |-> "None"]

VARIABLES
  kind,      \* of the workload
  paused,    \* is the rollout of the deployment paused?
  desired,   \* replicas in its specification
  revision,  \* of its template
  pods,      \* the raw pods
  status,    \* what its controller last wrote
  got,       \* what was listed, mapped
  was,       \* history: the raw pods, when they were listed
  changes,
  drift      \* history: changes since the controller wrote, and since the first list

vars == <<kind, paused, desired, revision, pods, status, got, was, changes, drift>>

Alive(p)   == pods[p] # None
IsReady(p) == Alive(p) /\ pods[p].ready

Current == {p \in Slots : Alive(p) /\ pods[p].revision = revision}

\* What a controller writes once it has caught up.
Counts ==
  [desired |-> desired, ready |-> Cardinality({p \in Slots : IsReady(p)}),
   updated |-> Cardinality(Current),
   available |-> Cardinality({p \in Slots : IsReady(p)}),
   current |-> Cardinality({p \in Slots : Alive(p) /\ pods[p].revision = 1})]

Init ==
  /\ kind \in {"deployment", "statefulset", "daemonset"}
  /\ paused \in BOOLEAN /\ (paused => kind = "deployment")
  /\ desired \in 0..MaxDesired /\ revision = 1
  /\ pods \in [Slots -> FirstPods \union {None}]
  /\ status = Counts
  /\ got = [c \in {} |-> 0] /\ was = pods
  /\ changes = 0 /\ drift = 0

-----------------------------------------------------------------------------
(***************************************************************************)
(* The cluster.                                                            *)
(***************************************************************************)

Ended   == DOMAIN got = {"pods", "workloads"}
Listing == DOMAIN got # {} /\ ~Ended

Changes ==
  /\ ~Ended
  /\ changes < MaxChanges /\ changes' = changes + 1 /\ drift' = drift + 1

PodBecomes(p, raw) ==
  /\ Changes /\ pods' = [pods EXCEPT ![p] = raw]
  /\ UNCHANGED <<kind, paused, desired, revision, status, got, was>>

Created ==
  [phase |-> "Pending", revision |-> revision, state |-> "none", why |-> "", last |-> "",
   restarts |-> 0, ready |-> FALSE]

Appears(p) == ~Alive(p) /\ PodBecomes(p, Created)
Vanishes(p) == Alive(p) /\ PodBecomes(p, None)

IsScheduled(p) ==
  /\ Alive(p) /\ pods[p].state = "none" /\ pods[p].phase = "Pending"
  /\ PodBecomes(p, [pods[p] EXCEPT !.state = "waiting", !.why = "ContainerCreating"])

PullFails(p) ==
  /\ Alive(p) /\ pods[p].state = "waiting" /\ pods[p].why = "ContainerCreating"
  /\ PodBecomes(p, [pods[p] EXCEPT !.why = "ErrImagePull"])

Starts(p) ==
  /\ Alive(p) /\ pods[p].state \in {"waiting", "terminated"}
  /\ LET again == pods[p].state = "terminated" \/ pods[p].last # ""
     IN  PodBecomes(p, [pods[p] EXCEPT
           !.phase = "Running", !.state = "running", !.why = "",
           !.last = IF pods[p].state = "terminated" THEN pods[p].why ELSE @,
           !.restarts = IF again THEN @ + 1 ELSE @])

BecomesReady(p) ==
  /\ Alive(p) /\ pods[p].state = "running" /\ ~pods[p].ready
  /\ PodBecomes(p, [pods[p] EXCEPT !.ready = TRUE])

Exits(p, reason) ==
  /\ Alive(p) /\ pods[p].state = "running"
  /\ PodBecomes(p, [pods[p] EXCEPT !.state = "terminated", !.why = reason, !.ready = FALSE])

BacksOff(p) ==
  /\ Alive(p) /\ pods[p].state = "terminated"
  /\ PodBecomes(p, [pods[p] EXCEPT !.state = "waiting", !.last = pods[p].why,
                                   !.why = "CrashLoopBackOff"])

\* An evicted pod keeps no status of its container.
IsEvicted(p) ==
  /\ Alive(p) /\ pods[p].phase = "Running"
  /\ PodBecomes(p, [pods[p] EXCEPT !.phase = "Failed", !.state = "none", !.why = "",
                                   !.last = "", !.restarts = 0, !.ready = FALSE])

\* A new template or another number of replicas.
Specify(replicas) ==
  /\ Changes /\ desired' = replicas /\ revision' \in {revision, 2}
  /\ UNCHANGED <<kind, paused, pods, status, got, was>>

Reconcile ==
  /\ ~Ended /\ status # Counts /\ status' = Counts
  /\ drift' = IF Listing THEN drift ELSE 0
  /\ UNCHANGED <<kind, paused, desired, revision, pods, got, was, changes>>

ClusterChanges ==
  \/ \E p \in Slots : \/ Appears(p) \/ Vanishes(p) \/ IsScheduled(p) \/ PullFails(p)
                      \/ Starts(p) \/ BecomesReady(p) \/ BacksOff(p) \/ IsEvicted(p)
                      \/ \E reason \in {"OOMKilled", "Error"} : Exits(p, reason)
  \/ \E replicas \in 0..MaxDesired : Specify(replicas)
  \/ Reconcile

-----------------------------------------------------------------------------
(***************************************************************************)
(* The mappers.                                                            *)
(***************************************************************************)

MapTerminationReason(reason) ==
  CASE reason = "CrashLoopBackOff" -> "crash_loop_back_off"
    [] reason = "ErrImagePull"     -> "err_image_pull"
    [] reason = "OOMKilled"        -> "oom_killed"
    [] reason = "Error"            -> "error"
    [] OTHER                       -> "unknown"

ContainerTerminationReason(raw) ==
  IF raw.state = "none" THEN "unknown"
  ELSE MapTerminationReason(IF raw.why # "" THEN raw.why ELSE raw.last)

MapContainer(raw) ==
  [state |-> IF raw.state = "none" THEN "waiting" ELSE raw.state, ready |-> raw.ready,
   restarts |-> raw.restarts, reason |-> ContainerTerminationReason(raw)]

\* The pods of a deployment belong to its replica sets.
Owner(raw) == IF kind = "deployment" THEN <<"web", raw.revision>> ELSE <<"web">>

MapPod(p, raw) ==
  LET container == MapContainer(raw)
  IN  [name |-> p, namespace |-> "app", owner |-> Owner(raw),
       phase |-> CASE raw.phase = "Pending" -> "pending" [] raw.phase = "Running" -> "running"
                   [] raw.phase = "Failed" -> "failed",
       containers |-> <<container>>, restarts |-> container.restarts,
       reason |-> container.reason]

HealthFromReplicas(ready, wanted) ==
  IF wanted = 0 THEN "unknown" ELSE IF ready = wanted THEN "healthy"
  ELSE IF ready = 0 THEN "unhealthy" ELSE "degraded"

\* Of a stateful set, the replicas of the revision it comes from.
Available == IF kind = "statefulset" THEN status.current ELSE status.available

\* A daemon set has no replicas; its controller writes how many it wants.
Wanted == IF kind = "daemonset" THEN status.desired ELSE desired

Rollout ==
  IF kind # "deployment" THEN "none" ELSE IF paused THEN "paused"
  ELSE IF Wanted = 0 THEN "unknown"
  ELSE IF status.ready >= Wanted THEN "complete" ELSE "progressing"

MapWorkload ==
  [name |-> <<"web">>, namespace |-> "app", desired |-> Wanted, ready |-> status.ready,
   updated |-> status.updated, available |-> Available,
   health |-> HealthFromReplicas(status.ready, Wanted), rollout |-> Rollout]

ListPods ==
  /\ "pods" \notin DOMAIN got
  /\ got' = [c \in DOMAIN got \union {"pods"} |->
       IF c # "pods" THEN got[c]
       ELSE LET alive == {p \in Slots : Alive(p)}
            IN  [p \in alive |-> MapPod(p, pods[p])]]
  /\ was' = pods
  /\ UNCHANGED <<kind, paused, desired, revision, pods, status, changes, drift>>

ListWorkloads ==
  /\ "workloads" \notin DOMAIN got
  /\ got' = [c \in DOMAIN got \union {"workloads"} |->
       IF c # "workloads" THEN got[c] ELSE MapWorkload]
  /\ UNCHANGED <<kind, paused, desired, revision, pods, status, was, changes, drift>>

Next == ClusterChanges \/ ListPods \/ ListWorkloads

Spec == Init /\ [][Next]_vars

-----------------------------------------------------------------------------
(***************************************************************************)
(* Quantities, as text: a number and a suffix.                             *)
(***************************************************************************)

MEMORY_SUFFIXES == {"", "m", "k", "Ki", "Mi"}

RoundThousandths(n) == (n + 500) \div 1000

ParseCpuMillicores(number, suffix) ==
  IF suffix = "m" THEN RoundThousandths(number) ELSE number

Multiplier(suffix) ==
  CASE suffix = "Ki" -> 1024 [] suffix = "Mi" -> 1048576 [] suffix = "k" -> 1000 [] OTHER -> 1

\* parseFloat() reads what is before a suffix it does not know.
ParseMemoryBytes(number, suffix) ==
  LET whole == number \div 1000
      part  == number % 1000
  IN  whole * Multiplier(suffix) + RoundThousandths(part * Multiplier(suffix))

-----------------------------------------------------------------------------
(***************************************************************************)
(* Properties.                                                             *)
(***************************************************************************)

TypeOK ==
  /\ kind \in {"deployment", "statefulset", "daemonset"} /\ paused \in BOOLEAN
  /\ desired \in 0..MaxDesired /\ revision \in 1..2
  /\ \A p \in Slots : Alive(p) => pods[p].restarts \in 0..(MaxChanges + 5)
  /\ DOMAIN got \subseteq {"pods", "workloads"}
  /\ changes \in 0..MaxChanges /\ drift \in 0..MaxChanges

Engine == INSTANCE HealthEngine

Listed(c) == c \in DOMAIN got
IssueKinds(p) == {i.kind : i \in {Engine!DetectPodIssues(got["pods"][p])[n] :
                                    n \in DOMAIN Engine!DetectPodIssues(got["pods"][p])}}

\* A pod that could not run when it was listed has an issue that says why; a
\* container that was killed for its memory is told of until it ends in
\* another way, as a crash loop while it is held back (k8s-mappers.ts:116-144,
\* health-engine.ts:129-218).
FailuresShown ==
  Listed("pods") =>
    \A p \in DOMAIN got["pods"] :
      LET raw == was[p]
          issues == IssueKinds(p)
          ended == IF raw.state = "terminated" THEN raw.why ELSE raw.last
      IN  /\ raw.why = "CrashLoopBackOff" <=> "crash_loop_back_off" \in issues
          /\ raw.why = "ErrImagePull" => "image_pull_back_off" \in issues
          /\ "oom_killed" \in issues <=> ended = "OOMKilled" /\ raw.state # "waiting"
          /\ ended = "OOMKilled" => issues # {}
          /\ "restart_storm" \in issues <=> raw.restarts >= 5
          /\ raw.phase # "Running" => issues # {}
          /\ raw.ready /\ ended = "" /\ raw.restarts < 5 => issues = {}

\* The replicas a workload calls ready are the pods listed as ready, but for
\* one for every change that its controller had not seen, or that came
\* between the two lists; and its health and its rollout speak of as many
\* (k8s-mappers.ts:109-114, 415-470, live.provider.ts:222-317).
ReadyAgrees ==
  Listed("pods") /\ Listed("workloads") =>
    LET w == got["workloads"]
        ready == Cardinality({p \in DOMAIN got["pods"] : got["pods"][p].containers[1].ready})
        Near(n, k) == n - k <= drift /\ k - n <= drift
    IN  /\ Near(w.ready, ready)
        /\ w.health = "healthy" /\ w.rollout = "progressing" => FALSE
        /\ w.rollout = "complete" => ready + drift >= w.desired
        /\ w.rollout = "progressing" => ready < w.desired + drift
        /\ w.health = "unhealthy" => ready <= drift
        /\ drift = 0 => (Engine!DetectWorkloadIssues(w) # <<>> <=> ready < desired)

\* The score of a workload counts the issues of its pods, as the score of the
\* cluster does, unless a replica set stands between them
\* (k8s-mappers.ts:247-261, health-engine.ts:399-405).
ScoreCountsPods ==
  Listed("pods") /\ Listed("workloads") =>
    LET w == got["workloads"]
        names == SetToSeq(DOMAIN got["pods"])
        snap == [pods |-> [n \in DOMAIN names |-> got["pods"][names[n]]],
                 workloads |-> <<w>>, nodes |-> <<>>]
        Scored(s) == Engine!Score(Engine!CollectIssues(s))
        own == Scored(Engine!Of(w, snap))
    IN  /\ Scored(snap) <= own
        /\ kind # "deployment" => own = Scored(snap)
        /\ kind = "deployment" => own = Engine!Score(Engine!DetectWorkloadIssues(w))

\* A quantity means what Kubernetes means by it, to the nearest millicore or
\* byte, for the suffixes that the code knows (k8s-mappers.ts:58-92).
QuantitiesAgree ==
  \A n \in Quantities, suffix \in MEMORY_SUFFIXES :
    LET Value == n * Multiplier(suffix)   \* in thousandths
    IN  /\ suffix \in {"", "m"} =>
             LET milli == 1000 * ParseCpuMillicores(n, suffix)
                 exact == IF suffix = "m" THEN n ELSE 1000 * n
             IN  2 * (milli - exact) <= 1000 /\ 2 * (exact - milli) < 1000
        /\ suffix # "m" /\ n < 2000 =>
             LET bytes == ParseMemoryBytes(n, suffix)
             IN  bytes * 1000 - Value <= 500 /\ Value - bytes * 1000 < 500

ListingsSound == FailuresShown /\ ReadyAgrees /\ ScoreCountsPods /\ QuantitiesAgree
=============================================================================

----------------------------- MODULE SbomAgent -----------------------------
(***************************************************************************)
(* One process of the SBOM generator: its startup (service.py, agent.py),  *)
(* the scans that HTTP requests and bus requests ask of it (generate(),    *)
(* _on_bus_request()), and the Syft processes they share (SyftRunner.run() *)
(* and its semaphore).                                                     *)
(*                                                                         *)
(* The bus is NATS as NATSClient uses it: a subscription awaits its        *)
(* handler before the next message, a message is acknowledged when the     *)
(* handler returned, and one that is not acknowledged in time is delivered *)
(* again.  A publish that rejects may have reached the bus.  The lifecycle *)
(* event of _build_response() is never published: json, syft_version and   *)
(* result are not defined there, and the NameError is swallowed, so there  *)
(* is no await between the end of a scan and its response.                 *)
(***************************************************************************)
EXTENDS Integers, Sequences, FiniteSets

CONSTANTS
  HttpJobs, BusJobs,  \* requests of either kind
  MaxScans,           \* max_concurrent_scans
  MaxDeliveries,      \* bound on the deliveries of a bus request
  MaxFaults           \* bound on failed bus calls, crashes and stops

Jobs == HttpJobs \union BusJobs

VARIABLES
  boot,        \* where start() is: "failed" when startup swallowed an error
  connected,   \* is the bus connected
  subscribed,  \* does the handler get bus requests
  syft,        \* the binary: "absent", "installed", then "resolved"
  version,     \* does warmup() have the version
  pc,          \* where the handling of a request is
  waiters,     \* requests waiting for the semaphore, in order
  permits,     \* free permits of the semaphore
  active,      \* active_job_count: requests whose JobRecord is unfinished
  gauge,       \* devsecops_sbom_active_scans
  processes,   \* requests with a Syft process
  due,         \* bus requests that the bus will deliver
  acked,       \* bus requests acknowledged
  deliveries,  \* deliveries of each bus request
  answers,     \* results published for each bus request
  faults,      \* failed bus calls, crashes and stops so far
  echoes       \* history: publishes that rejected and reached the bus

vars == <<boot, connected, subscribed, syft, version, pc, waiters, permits, active,
          gauge, processes, due, acked, deliveries, answers, faults, echoes>>
startup == <<boot, connected, subscribed>>
binary  == <<syft, version>>
scans   == <<waiters, permits, active, gauge, processes>>
bus     == <<due, acked, deliveries, answers>>
history == <<faults, echoes>>

Init ==
  /\ boot = "connect" /\ connected = FALSE /\ subscribed = FALSE
  /\ syft \in {"absent", "installed"} /\ version = FALSE
  /\ pc = [j \in Jobs |-> "none"]
  /\ waiters = <<>> /\ permits = MaxScans
  /\ active = {} /\ gauge = 0 /\ processes = {}
  /\ due = BusJobs /\ acked = {}
  /\ deliveries = [m \in BusJobs |-> 0]
  /\ answers = [m \in BusJobs |-> [ok |-> 0, error |-> 0]]
  /\ faults = 0 /\ echoes = 0

Fault == faults < MaxFaults /\ faults' = faults + 1

-----------------------------------------------------------------------------
(***************************************************************************)
(* start(), in the startup handler of service.py that swallows what it     *)
(* raises; the process serves HTTP in either case.                         *)
(***************************************************************************)

Idle == boot \in {"ready", "failed"}

StartFails ==
  /\ ~Idle /\ boot # "probe" /\ Fault
  /\ boot' = "failed"
  /\ UNCHANGED <<connected, subscribed, binary, pc, scans, bus, echoes>>

Connect ==
  /\ boot = "connect" /\ boot' = "probe" /\ connected' = TRUE
  /\ UNCHANGED <<subscribed, binary, pc, scans, bus, history>>

\* warmup(): the version is unknown when Syft cannot be run.
Warmup(known) ==
  /\ syft # "absent" /\ syft' = "resolved"
  /\ version' = (version \/ known)

ProbeSyft ==
  /\ boot = "probe"
  /\ IF syft = "absent"
     THEN boot' = "failed" /\ UNCHANGED binary
     ELSE boot' = "subscribe" /\ \E known \in BOOLEAN : Warmup(known)
  /\ UNCHANGED <<connected, subscribed, pc, scans, bus, history>>

Subscribe ==
  /\ boot = "subscribe" /\ boot' = "announce" /\ subscribed' = TRUE
  /\ UNCHANGED <<connected, binary, pc, scans, bus, history>>

\* agent.ready.
AnnounceReady ==
  /\ boot = "announce" /\ boot' = "ready"
  /\ UNCHANGED <<connected, subscribed, binary, pc, scans, bus, history>>

\* The binary appears on the path; /healthz and /readyz call warmup().
InstallSyft ==
  /\ syft = "absent" /\ syft' = "installed"
  /\ UNCHANGED <<startup, version, pc, scans, bus, history>>

Readyz ==
  /\ Idle /\ \E known \in BOOLEAN : Warmup(known)
  /\ UNCHANGED <<startup, pc, scans, bus, history>>

-----------------------------------------------------------------------------
(***************************************************************************)
(* generate(), from the SSRF check to the end of the scan.                 *)
(***************************************************************************)

InHandler == {m \in BusJobs : pc[m] # "none"}

Request(j) ==
  /\ j \in HttpJobs /\ Idle
  /\ pc[j] = "none" /\ pc' = [pc EXCEPT ![j] = "check"]
  /\ UNCHANGED <<startup, binary, scans, bus, history>>

Deliver(m) ==
  /\ m \in due /\ subscribed /\ InHandler = {}
  /\ deliveries[m] < MaxDeliveries
  /\ due' = due \ {m}
  /\ deliveries' = [deliveries EXCEPT ![m] = @ + 1]
  /\ pc' = [pc EXCEPT ![m] = "check"]
  /\ UNCHANGED <<startup, binary, scans, acked, answers, history>>

\* What follows generate(): an HTTP response, or a result on the bus.
After(j, outcome) == IF j \in BusJobs THEN outcome ELSE "done"

\* The request does not validate, or its target is refused.
Refuse(j) ==
  /\ pc[j] = "check" /\ pc' = [pc EXCEPT ![j] = After(j, "error")]
  /\ UNCHANGED <<startup, binary, scans, bus, history>>

\* A new JobRecord; without Syft, run() raises at once and it is finished.
NoBinary(j) ==
  /\ pc[j] = "check" /\ syft = "absent"
  /\ pc' = [pc EXCEPT ![j] = After(j, "error")] /\ gauge' = 0
  /\ UNCHANGED <<startup, binary, waiters, permits, active, processes, bus, history>>

\* The semaphore is taken at once when it has a permit and no waiter.
Scan(j) ==
  /\ pc[j] = "check" /\ syft # "absent" /\ syft' = "resolved"
  /\ active' = active \union {j} /\ gauge' = 1
  /\ IF permits > 0 /\ waiters = <<>>
     THEN /\ permits' = permits - 1 /\ UNCHANGED waiters
          /\ pc' = [pc EXCEPT ![j] = "spawn"]
     ELSE /\ waiters' = Append(waiters, j) /\ UNCHANGED permits
          /\ pc' = [pc EXCEPT ![j] = "wait"]
  /\ UNCHANGED <<startup, version, processes, bus, history>>

\* A permit that was released goes to the first waiter.
Wake ==
  /\ permits > 0 /\ waiters # <<>>
  /\ permits' = permits - 1 /\ waiters' = Tail(waiters)
  /\ pc' = [pc EXCEPT ![Head(waiters)] = "spawn"]
  /\ UNCHANGED <<startup, binary, active, gauge, processes, bus, history>>

Spawn(j) ==
  /\ pc[j] = "spawn" /\ pc' = [pc EXCEPT ![j] = "run"]
  /\ processes' = processes \union {j}
  /\ UNCHANGED <<startup, binary, waiters, permits, active, gauge, bus, history>>

\* The process is gone, the permit is released, and the JobRecord finished.
Ends(j, outcome) ==
  /\ processes' = processes \ {j} /\ permits' = permits + 1
  /\ active' = active \ {j} /\ gauge' = 0
  /\ pc' = [pc EXCEPT ![j] = After(j, outcome)]
  /\ UNCHANGED <<startup, binary, waiters, bus, history>>

SpawnFails(j) == pc[j] = "spawn" /\ Ends(j, "error")

\* Syft exits in time; its output may be useless.
SyftExits(j) == pc[j] = "run" /\ \E outcome \in {"ok", "error"} : Ends(j, outcome)

\* Mutant: the permit is given back before the killed process is gone.
LetGo(j) ==
  /\ pc[j] = "run" /\ pc' = [pc EXCEPT ![j] = "kill"]
  /\ permits' = permits + 1
  /\ UNCHANGED <<startup, binary, waiters, active, gauge, processes, bus, history>>

\* request_timeout_seconds: the process is killed and waited for.
Timeout(j) ==
  /\ pc[j] = "run" /\ pc' = [pc EXCEPT ![j] = "kill"]
  /\ UNCHANGED <<startup, binary, scans, bus, history>>

Killed(j) == pc[j] = "kill" /\ Ends(j, "error")

-----------------------------------------------------------------------------
(***************************************************************************)
(* The end of _on_bus_request(), and the bus.                              *)
(***************************************************************************)

Publishes(m, status) ==
  answers' = [answers EXCEPT ![m] = [@ EXCEPT ![status] = @ + 1]]

PublishResult(m, status) ==
  /\ pc[m] = status /\ connected /\ Publishes(m, status)
  /\ pc' = [pc EXCEPT ![m] = "none"] /\ acked' = acked \union {m}
  /\ UNCHANGED <<startup, binary, scans, due, deliveries, history>>

\* The publish rejects, at the latest when the bus is closed.  An "ok" is
\* followed by an "error"; after a failed "error" the handler raises, and
\* the request is not acknowledged.
PublishFails(m, status) ==
  /\ pc[m] = status
  /\ IF connected THEN Fault ELSE UNCHANGED faults
  /\ pc' = [pc EXCEPT ![m] = IF status = "ok" THEN "error" ELSE "none"]
  /\ \/ UNCHANGED <<answers, echoes>>
     \/ connected /\ Publishes(m, status) /\ echoes' = echoes + 1
  /\ UNCHANGED <<startup, binary, scans, due, acked, deliveries>>

Redeliver(m) ==
  /\ m \in BusJobs \ (acked \union due) /\ due' = due \union {m}
  /\ UNCHANGED <<startup, binary, pc, scans, acked, deliveries, answers, history>>

\* stop(): the bus is closed under the scans of bus requests.
Stop ==
  /\ Idle /\ connected /\ Fault
  /\ \A j \in HttpJobs : pc[j] \in {"none", "done"}
  /\ connected' = FALSE /\ subscribed' = FALSE
  /\ UNCHANGED <<boot, binary, pc, scans, bus, echoes>>

\* The process dies, and another one starts.
Crash ==
  /\ Fault
  /\ boot' = "connect" /\ connected' = FALSE /\ subscribed' = FALSE /\ version' = FALSE
  /\ syft' = IF syft = "resolved" THEN "installed" ELSE syft
  /\ pc' = [j \in Jobs |-> IF j \in HttpJobs /\ pc[j] # "none" THEN "done" ELSE "none"]
  /\ waiters' = <<>> /\ permits' = MaxScans
  /\ active' = {} /\ gauge' = 0 /\ processes' = {}
  /\ due' = due \ acked
  /\ UNCHANGED <<acked, deliveries, answers, echoes>>

Next ==
  \/ StartFails \/ Connect \/ ProbeSyft \/ Subscribe \/ AnnounceReady
  \/ InstallSyft \/ Readyz \/ Wake \/ Stop \/ Crash
  \/ \E j \in Jobs :
       \/ Request(j) \/ Refuse(j) \/ NoBinary(j) \/ Scan(j) \/ Spawn(j)
       \/ SpawnFails(j) \/ SyftExits(j) \/ Timeout(j) \/ Killed(j)
  \/ \E m \in BusJobs :
       \/ Deliver(m) \/ Redeliver(m)
       \/ \E status \in {"ok", "error"} : PublishResult(m, status) \/ PublishFails(m, status)

Spec == Init /\ [][Next]_vars

-----------------------------------------------------------------------------
InScan == {j \in Jobs : pc[j] \in {"wait", "spawn", "run", "kill"}}

TypeOK ==
  /\ boot \in {"connect", "probe", "subscribe", "announce", "ready", "failed"}
  /\ {connected, subscribed, version} \subseteq BOOLEAN
  /\ syft \in {"absent", "installed", "resolved"}
  /\ pc \in [Jobs -> {"none", "check", "wait", "spawn", "run", "kill", "ok", "error", "done"}]
  /\ waiters \in Seq(Jobs) /\ permits \in 0..MaxScans /\ gauge \in {0, 1}
  /\ active \subseteq Jobs /\ processes \subseteq Jobs
  /\ due \subseteq BusJobs /\ acked \subseteq BusJobs
  /\ deliveries \in [BusJobs -> 0..MaxDeliveries]
  /\ answers \in [BusJobs -> [ok : Nat, error : Nat]]
  /\ faults \in 0..MaxFaults /\ echoes \in 0..MaxFaults

\* There are never more Syft processes than permits, killed ones included;
\* no permit is lost, whichever way a scan ends; and waiters are those that
\* the semaphore holds up (syft.py:276-300).
PermitsKept ==
  /\ Cardinality(processes) <= MaxScans
  /\ permits + Cardinality({j \in Jobs : pc[j] \in {"spawn", "run", "kill"}}) = MaxScans
  /\ processes = {j \in Jobs : pc[j] \in {"run", "kill"}}
  /\ {waiters[i] : i \in DOMAIN waiters} = {j \in Jobs : pc[j] = "wait"}

\* /healthz counts the scans under way; the gauge is never left at 1
\* without one, though it may be 0 with some (agent.py:298-386).
ScansCounted == active = InScan /\ (gauge = 1 => active # {})

\* A bus request that was acknowledged was answered; it has one answer per
\* delivery, and more only for publishes that rejected after they reached
\* the bus (agent.py:591-614).
RequestsAnswered ==
  \A m \in BusJobs :
    LET told == answers[m].ok + answers[m].error
    IN  /\ m \in acked => told > 0
        /\ told <= deliveries[m] + echoes

\* A process that is not stopped and has no subscription is still starting
\* or has failed to: bus requests wait for the next start even when
\* /readyz says ready (agent.py:242-259, service.py:173-183).
DeafOnlyIfFailed ==
  /\ subscribed => connected
  /\ connected /\ ~subscribed => boot # "ready"

SbomJobsSound == PermitsKept /\ ScansCounted /\ RequestsAnswered /\ DeafOnlyIfFailed
=============================================================================

----------------------------- MODULE MCPlatform -----------------------------
(***************************************************************************)
(* The components that share no state, each on a small instance: `system`  *)
(* says which of them runs.  IncidentEvents, on the instance of            *)
(* MCIncidentEvents, and JsonlStore have their own variables; those of the *)
(* component that runs stand for its state, in the order of its module.    *)
(***************************************************************************)
EXTENDS MCIncidentEvents, SmallClusters, SmallServices

CONSTANTS x1, x2, k1, k2, Null

VARIABLES
  system,
  j_kind, j_file, j_memory, j_index, j_lineNo, j_puts, j_lives, j_past, j_risky,
  s1, s2, s3, s4, s5, s6, s7, s8, s9, s10, s11, s12, s13, s14, s15, s16, s17

Components == << s1, s2, s3, s4, s5, s6, s7, s8, s9, s10, s11, s12, s13, s14,
                    s15, s16, s17 >>

Jsonl == INSTANCE JsonlStore WITH
  Ids <- {x1, x2}, None <- Null, Contents <- {{k1}, {k2}}, Lengths <- {1, 2},
  MaxPuts <- 4, MaxLives <- 3, kind <- j_kind, file <- j_file, memory <- j_memory,
  index <- j_index, lineNo <- j_lineNo, puts <- j_puts, lives <- j_lives,
  past <- j_past, risky <- j_risky

Credentials == INSTANCE ClusterCredentials WITH
  Replicas <- {x1, x2}, Rings <- << <<>>, <<k1>>, <<k2, k1>>, <<k2>> >>,
  None <- Null, MaxPatches <- 1, stage <- s1, ringOf <- s2, pc <- s3, read <- s4,
  plain <- s5, enc <- s6, keyId <- s7, latest <- s8, halved <- s9, raced <- s10,
  crossed <- s11

Clients == INSTANCE LiveClients WITH
  Clusters <- {x1, x2}, MaxEntries <- 1, MaxVersions <- 2, MaxGets <- 2,
  default <- s1, conn <- s2, fresh <- s3, evictions <- s4, cache <- s5, pc <- s6,
  on <- s7, held <- s8, named <- s9, failed <- s10, answer <- s11, gets <- s12,
  seen <- s13, crossed <- s14

Scans == INSTANCE SecurityScans WITH
  Requests <- {x1, x2}, MaxScans <- 2, MaxRequests <- 4, MaxFindings <- 2,
  MaxCuts <- 2, begun <- s1, pc <- s2, scan <- s3, todo <- s4, made <- s5,
  status <- s6, rows <- s7, told <- s8, counts <- s9, sboms <- s10, ingested <- s11,
  cuts <- s12, cutScans <- s13

Sbom == INSTANCE SbomAgent WITH
  HttpJobs <- {x1, x2}, BusJobs <- {k1}, MaxScans <- 1, MaxDeliveries <- 2,
  MaxFaults <- 2, boot <- s1, connected <- s2, subscribed <- s3, syft <- s4,
  version <- s5, pc <- s6, waiters <- s7, permits <- s8, active <- s9, gauge <- s10,
  processes <- s11, due <- s12, acked <- s13, deliveries <- s14, answers <- s15,
  faults <- s16, echoes <- s17

Polls == INSTANCE FindingPolls WITH
  Pods <- {1, 2}, PodStates <- WebAndAgent, Workload <- WebWorkload,
  ReadyOf <- {0, 1, 2}, NodeStates <- NodeRecords, Gone <- NoPod, MaxChanges <- 1,
  MaxPolls <- 2, pod <- s1, ready <- s2, node <- s3, changes <- s4, polls <- s5,
  pending <- s6, handled <- s7, items <- s8

Topology == INSTANCE InventoryReports WITH
  Pressed <- <<1, 0>>, Top <- 1, Clusters <- {1, 2}, Fixed <- StandingObjects,
  Optional <- PassingObjects, MaxChanges <- 1, objects <- s1, at <- s2, todo <- s3,
  snapshot <- s4, changes <- s5, always <- s6, ever <- s7

Vulns == INSTANCE VulnIntel WITH
  Cves <- {x1, x2}, MixedCase <- {x2}, Feeds <- <<"nvd", "ghsa">>,
  SeverityOf <- [nvd |-> 2, ghsa |-> 1], None <- Null, MaxReports <- 2,
  MaxDays <- 2, MaxJobs <- 2, MaxRestarts <- 1, memory <- s1, disk <- s2,
  seen <- s3, todo <- s4, pc <- s5, task <- s6, wants <- s7, held <- s8, kev <- s9,
  day <- s10, reports <- s11, restarts <- s12, jobs <- s13, worst <- s14,
  newest <- s15, overlapped <- s16

Graphs == INSTANCE DependencyGraphs WITH
  Sboms <- SmallSboms, Cves <- SmallCves, Requests <- {x1, x2}, Chunk <- 2,
  MaxNodes <- 5, MaxEdges <- 3, MaxBuilds <- 3, MaxRuns <- 2, MaxSeverity <- 2,
  graphs <- s1, severity <- s2, on <- s3, components <- s4, sent <- s5, got <- s6,
  builds <- s7, runs <- s8, covered <- s9

Costs == INSTANCE CostIntelligence WITH
  Clusters <- {1, 2}, WorkloadsOf <- SmallWorkloads, Pods <- SmallPods,
  CpuPrice <- 3, MemoryPrice <- 1, MaxChanges <- 1, on <- s1, present <- s2,
  ever <- s3, pc <- s4, listed <- s5, series <- s6, todo <- s7, got <- s8,
  failed <- s9, changes <- s10

Views == INSTANCE SecurityViews WITH
  Assets <- {1, 2}, Kinds <- SmallKinds, Documents <- SmallDocuments,
  Demo <- DemoData, Statuses <- {"resolved"}, Cap <- 3, TopCount <- 2,
  MaxWrites <- 2, database <- s1, assets <- s2, scans <- s3, findings <- s4,
  sboms <- s5, index <- s6, post <- s7, got <- s8, todo <- s9, writes <- s10,
  removed <- s11, during <- s12

Activity == INSTANCE ActivityLog WITH
  Replicas <- {x1, x2}, Tenants <- {1, 2}, Callers <- {<<x1, 1>>, <<x1, 2>>},
  Answers <- {<<30, 80, 50>>}, Top <- 2, MaxEvents <- 1, MaxTenants <- 1,
  MaxRequests <- 2, MaxDeliveries <- 2, MaxFaults <- 1, redis <- s1, pc <- s2,
  on <- s3, answer <- s4, todo <- s5, sent <- s6, stream <- s7, log <- s8,
  tenants <- s9, heard <- s10, faults <- s11

Workloads == INSTANCE ClusterListings WITH
  Slots <- {1, 2}, FirstPods <- RawPods, MaxDesired <- 2,
  Quantities <- {0, 1, 250, 499, 500, 1500, 2500}, MaxChanges <- 1, kind <- s1,
  paused <- s2, desired <- s3, revision <- s4, pods <- s5, status <- s6, got <- s7,
  was <- s8, changes <- s9, drift <- s10

Fetches == INSTANCE VulnFeeds WITH
  Listings <- SmallListings, Published <- {LateAdvisory}, CveIds <- FeedCves,
  PageSize <- 2, Versions <- {3, 4, 5, 6, 7, 8, 10}, Limits <- {0, 3},
  MaxPages <- 3, MaxChanges <- 1, feed <- s1, limit <- s2, upstream <- s3,
  start <- s4, pages <- s5, got <- s6, state <- s7, audited <- s8, changes <- s9,
  always <- s10, slipped <- s11, pushed <- s12

Exploits == INSTANCE ExploitScores WITH
  Callers <- {1, 2}, TenantOf <- <<1, 2>>, Estimates <- {2, 3}, Usages <- {0, 2, 4},
  TenantBudget <- 4, GlobalBudget <- 5, MaxRetries <- 1, Likelihoods <- {10, 90},
  Epss <- {0, 20}, NoEpss <- 0, BaseScore <- 98, MaxCalls <- 3, perTenant <- s1,
  globalUsed <- s2, pc <- s3, attempt <- s4, estimate <- s5, epss <- s6,
  answer <- s7, audit <- s8, review <- s9, calls <- s10, spent <- s11

Fixtures == INSTANCE FixtureProviders WITH
  Asked <- {"", "default", "monitoring", "foo"}, MaxCalls <- 2, calls <- s1,
  page <- s2, followed <- s3, found <- s4

Incidents == INSTANCE IncidentRecords WITH
  Requests <- {1, 2}, Patches <- SmallPatches, Opened <- NewIncident,
  MaxPatches <- 3, MaxRejections <- 1, postgres <- s1, row <- s2, pc <- s3,
  body <- s4, held <- s5, told <- s6, created <- s7, sent <- s8, rejections <- s9,
  serial <- s10, since <- s11, raced <- s12, reopened <- s13, crossed <- s14

Controls == INSTANCE ControlEvidence WITH
  Requests <- {1, 2}, Refs <- {"r1", "r2"}, Statuses <- {"pass", "fail"},
  MaxSent <- 3, MaxFaults <- 1, refs <- s1, status <- s2, rows <- s3, pc <- s4,
  body <- s5, told <- s6, sent <- s7, faults <- s8, first <- s9, direct <- s10,
  cut <- s11, crossed <- s12

Deliveries == INSTANCE WebhookDeliveries WITH
  Requests <- {1, 2}, MaxWebhooks <- 3, MaxChanges <- 2, MaxFaults <- 1,
  integration <- s1, lastSync <- s2, syncs <- s3, told <- s4, pc <- s5,
  delivery <- s6, stamp <- s7, log <- s8, clock <- s9, changes <- s10,
  faults <- s11, off <- s12

Analysis == INSTANCE AgentAnalysis WITH
  Inputs <- SmallInputs, Parsed <- SmallVersions, None <- Null, model <- s1,
  findings <- s2, pc <- s3, heuristic <- s4, triaged <- s5, proposed <- s6

Console == INSTANCE ConsoleSessions WITH
  Visited <- {"remediation", "sbom"}, Parameters <- {1}, MaxSerial <- 3,
  MaxSessions <- 2, MaxPolls <- 1, MaxCalls <- 3, MaxFailures <- 1, live <- s1,
  token <- s2, authRequired <- s3, login <- s4, sessions <- s5, failures <- s6,
  route <- s7, tab <- s8, choice <- s9, wanted <- s10, shown <- s11, calls <- s12,
  serial <- s13

jVars == << j_kind, j_file, j_memory, j_index, j_lineNo, j_puts, j_lives, j_past,
            j_risky >>

Systems == {"incidents", "stores", "credentials", "clients", "scans", "sbom agent",
    "findings", "topology", "vulnerabilities", "dependencies", "costs",
    "security views", "activity", "listings", "feeds", "exploit scores", "fixtures",
    "incident records", "controls", "webhooks", "agents", "console"}
Runs(name)  == system = name
Quiet(name) == system # name

PlatformInit ==
  /\ system \in Systems
  /\ Init /\ (Quiet("incidents") => ~redis)
  /\ Jsonl!Init /\ (Quiet("stores") => j_kind = "cve")
  /\ \/ /\ Runs("incidents") \/ Runs("stores")
        /\ s1 = Null /\ s2 = Null /\ s3 = Null /\ s4 = Null /\ s5 = Null /\ s6 = Null
        /\ s7 = Null /\ s8 = Null /\ s9 = Null /\ s10 = Null /\ s11 = Null /\ s12 = Null
        /\ s13 = Null /\ s14 = Null /\ s15 = Null /\ s16 = Null /\ s17 = Null
     \/ /\ Runs("credentials") /\ Credentials!Init
        /\ s12 = Null /\ s13 = Null /\ s14 = Null /\ s15 = Null /\ s16 = Null /\ s17 = Null
     \/ /\ Runs("clients") /\ Clients!Init
        /\ s15 = Null /\ s16 = Null /\ s17 = Null
     \/ /\ Runs("scans") /\ Scans!Init
        /\ s14 = Null /\ s15 = Null /\ s16 = Null /\ s17 = Null
     \/ Runs("sbom agent") /\ Sbom!Init
     \/ /\ Runs("findings") /\ Polls!Init
        /\ s9 = Null /\ s10 = Null /\ s11 = Null /\ s12 = Null /\ s13 = Null /\ s14 = Null
        /\ s15 = Null /\ s16 = Null /\ s17 = Null
     \/ /\ Runs("topology") /\ Topology!Init
        /\ s8 = Null /\ s9 = Null /\ s10 = Null /\ s11 = Null /\ s12 = Null /\ s13 = Null
        /\ s14 = Null /\ s15 = Null /\ s16 = Null /\ s17 = Null
     \/ /\ Runs("vulnerabilities") /\ Vulns!Init
        /\ s17 = Null
     \/ /\ Runs("dependencies") /\ Graphs!Init
        /\ s10 = Null /\ s11 = Null /\ s12 = Null /\ s13 = Null /\ s14 = Null /\ s15 = Null
        /\ s16 = Null /\ s17 = Null
     \/ /\ Runs("costs") /\ Costs!Init
        /\ s11 = Null /\ s12 = Null /\ s13 = Null /\ s14 = Null /\ s15 = Null /\ s16 = Null
        /\ s17 = Null
     \/ /\ Runs("security views") /\ Views!Init
        /\ s13 = Null /\ s14 = Null /\ s15 = Null /\ s16 = Null /\ s17 = Null
     \/ /\ Runs("activity") /\ Activity!Init
        /\ s12 = Null /\ s13 = Null /\ s14 = Null /\ s15 = Null /\ s16 = Null /\ s17 = Null
     \/ /\ Runs("listings") /\ Workloads!Init
        /\ s11 = Null /\ s12 = Null /\ s13 = Null /\ s14 = Null /\ s15 = Null /\ s16 = Null
        /\ s17 = Null
     \/ /\ Runs("feeds") /\ Fetches!Init
        /\ s13 = Null /\ s14 = Null /\ s15 = Null /\ s16 = Null /\ s17 = Null
     \/ /\ Runs("exploit scores") /\ Exploits!Init
        /\ s12 = Null /\ s13 = Null /\ s14 = Null /\ s15 = Null /\ s16 = Null /\ s17 = Null
     \/ /\ Runs("fixtures") /\ Fixtures!Init
        /\ s5 = Null /\ s6 = Null /\ s7 = Null /\ s8 = Null /\ s9 = Null /\ s10 = Null
        /\ s11 = Null /\ s12 = Null /\ s13 = Null /\ s14 = Null /\ s15 = Null /\ s16 = Null
        /\ s17 = Null
     \/ /\ Runs("incident records") /\ Incidents!Init
        /\ s15 = Null /\ s16 = Null /\ s17 = Null
     \/ /\ Runs("controls") /\ Controls!Init
        /\ s13 = Null /\ s14 = Null /\ s15 = Null /\ s16 = Null /\ s17 = Null
     \/ /\ Runs("webhooks") /\ Deliveries!Init
        /\ s13 = Null /\ s14 = Null /\ s15 = Null /\ s16 = Null /\ s17 = Null
     \/ /\ Runs("agents") /\ Analysis!Init
        /\ s7 = Null /\ s8 = Null /\ s9 = Null /\ s10 = Null /\ s11 = Null /\ s12 = Null
        /\ s13 = Null /\ s14 = Null /\ s15 = Null /\ s16 = Null /\ s17 = Null
     \/ /\ Runs("console") /\ Console!Init
        /\ s14 = Null /\ s15 = Null /\ s16 = Null /\ s17 = Null

\* A step of the component that runs.
PlatformNext ==
  \/ Runs("incidents") /\ Next /\ UNCHANGED <<system, jVars, Components>>
  \/ Runs("stores") /\ Jsonl!Next /\ UNCHANGED <<system, vars, Components>>
  \/ /\ UNCHANGED <<system, vars, jVars>>
     /\ \/ Runs("credentials") /\ Credentials!Next /\ UNCHANGED <<s12, s13, s14, s15, s16, s17>>
        \/ Runs("clients") /\ Clients!Next /\ UNCHANGED <<s15, s16, s17>>
        \/ Runs("scans") /\ Scans!Next /\ UNCHANGED <<s14, s15, s16, s17>>
        \/ Runs("sbom agent") /\ Sbom!Next
        \/ Runs("findings") /\ Polls!Next /\ UNCHANGED <<s9, s10, s11, s12, s13, s14, s15, s16, s17>>
        \/ Runs("topology") /\ Topology!Next /\ UNCHANGED <<s8, s9, s10, s11, s12, s13, s14, s15, s16, s17>>
        \/ Runs("vulnerabilities") /\ Vulns!Next /\ UNCHANGED <<s17>>
        \/ Runs("dependencies") /\ Graphs!Next /\ UNCHANGED <<s10, s11, s12, s13, s14, s15, s16, s17>>
        \/ Runs("costs") /\ Costs!Next /\ UNCHANGED <<s11, s12, s13, s14, s15, s16, s17>>
        \/ Runs("security views") /\ Views!Next /\ UNCHANGED <<s13, s14, s15, s16, s17>>
        \/ Runs("activity") /\ Activity!Next /\ UNCHANGED <<s12, s13, s14, s15, s16, s17>>
        \/ Runs("listings") /\ Workloads!Next /\ UNCHANGED <<s11, s12, s13, s14, s15, s16, s17>>
        \/ Runs("feeds") /\ Fetches!Next /\ UNCHANGED <<s13, s14, s15, s16, s17>>
        \/ Runs("exploit scores") /\ Exploits!Next /\ UNCHANGED <<s12, s13, s14, s15, s16, s17>>
        \/ Runs("fixtures") /\ Fixtures!Next /\ UNCHANGED <<s5, s6, s7, s8, s9, s10, s11, s12, s13, s14, s15, s16, s17>>
        \/ Runs("incident records") /\ Incidents!Next /\ UNCHANGED <<s15, s16, s17>>
        \/ Runs("controls") /\ Controls!Next /\ UNCHANGED <<s13, s14, s15, s16, s17>>
        \/ Runs("webhooks") /\ Deliveries!Next /\ UNCHANGED <<s13, s14, s15, s16, s17>>
        \/ Runs("agents") /\ Analysis!Next /\ UNCHANGED <<s7, s8, s9, s10, s11, s12, s13, s14, s15, s16, s17>>
        \/ Runs("console") /\ Console!Next /\ UNCHANGED <<s14, s15, s16, s17>>

platformVars == <<system, vars, jVars, Components>>

PlatformSpec == PlatformInit /\ [][PlatformNext]_platformVars

-----------------------------------------------------------------------------
\* Every component has its types.
PlatformTypeOK ==
  /\ system \in Systems
  /\ Quiet("incidents") \/ TypeOK
  /\ Quiet("stores") \/ Jsonl!TypeOK
  /\ Quiet("credentials") \/ Credentials!TypeOK
  /\ Quiet("clients") \/ Clients!TypeOK
  /\ Quiet("scans") \/ Scans!TypeOK
  /\ Quiet("sbom agent") \/ Sbom!TypeOK
  /\ Quiet("findings") \/ Polls!TypeOK
  /\ Quiet("topology") \/ Topology!TypeOK
  /\ Quiet("vulnerabilities") \/ Vulns!TypeOK
  /\ Quiet("dependencies") \/ Graphs!TypeOK
  /\ Quiet("costs") \/ Costs!TypeOK
  /\ Quiet("security views") \/ Views!TypeOK
  /\ Quiet("activity") \/ Activity!TypeOK
  /\ Quiet("listings") \/ Workloads!TypeOK
  /\ Quiet("feeds") \/ Fetches!TypeOK
  /\ Quiet("exploit scores") \/ Exploits!TypeOK
  /\ Quiet("fixtures") \/ Fixtures!TypeOK
  /\ Quiet("incident records") \/ Incidents!TypeOK
  /\ Quiet("controls") \/ Controls!TypeOK
  /\ Quiet("webhooks") \/ Deliveries!TypeOK
  /\ Quiet("agents") \/ Analysis!TypeOK
  /\ Quiet("console") \/ Console!TypeOK

\* The stores of vuln-intel and dependency-intel are maps that a restart
\* keeps, as long as every write was safe (store.py:123-139, 103-113).
ImplementsDurableMap == Jsonl!ImplementsDurableMap

\* The credentials of a cluster stay the latest ones that were set, and stay
\* readable, through key rotation (migrations.ts:63-154,
\* cluster.repository.ts:218-399); a list request is answered with a
\* connection its cluster had during it, and the cache keeps no other for
\* long (live.provider.ts:141-176); it says of pods and workloads what the
\* cluster said of them (k8s-mappers.ts:58-499); the fixture providers show
\* one fleet, closed under what it names, which gives every engine what it is
\* to show (registry.ts:200-826, fixture.provider.ts of six services).
KubernetesSound ==
  /\ Quiet("credentials") \/ Credentials!CredentialsSafe
  /\ Quiet("clients") \/ Clients!LiveClientsFresh
  /\ Quiet("listings") \/ Workloads!ListingsSound
  /\ Quiet("fixtures") \/ Fixtures!FixturesSound

\* Findings, completions and ingestions are announced as they are stored,
\* whatever request is cut short or repeated (routes/scans.ts:53-117,
\* routes/vulnerabilities-ingest.ts:61-159).
ScansAccounted == Quiet("scans") \/ Scans!ScansAccounted

\* What security-service shows of a tenant agrees with what is stored and
\* with what it shows elsewhere (security-analytics.ts:255-684,
\* routes/dashboard.ts:85-183); its replicas remember the events they were
\* told of (event-log.ts:36-78, routes/risk.ts:58-117); the console shows
\* what the session that is logged in was sent, and says so where it shows
\* samples (frontend: api.ts:119-313, auth.ts:31-72, useFetch.ts:11-36).
ViewsSound ==
  /\ Quiet("security views") \/ Views!ViewsSound
  /\ Quiet("activity") \/ Activity!ActivitySound
  /\ Quiet("console") \/ Console!ConsoleSound

\* The scans of the SBOM agent keep to their permits, are counted, and are
\* answered (agent.py:274-386, syft.py:257-335).
SbomJobsSound == Quiet("sbom agent") \/ Sbom!SbomJobsSound

\* Scores, reports and recommendations agree with the findings they are made
\* of, and what compliance keeps with the requests that found it
\* (health-engine.ts, rules.ts, infrastructure-listener.ts); so do the
\* priorities and the upgrades that the agents propose (triage.ts:80-331,
\* remediation.ts:66-336).
FindingsSound ==
  /\ Quiet("findings") \/ Polls!FindingsSound
  /\ Quiet("agents") \/ Analysis!AnalysisSound

\* The graphs and verdicts of the topology engine are grounded in what was
\* there during the fetch (client.ts:51-96, topology.engine.ts:167-470); the
\* catalog, the dependencies and the reports agree with them and with each
\* other (inventory.engine.ts:127-316, reporting: client.ts:53-322,
\* report.engine.ts:122-568).
TopologySound ==
  /\ Quiet("topology") \/ Topology!TopologySound
  /\ Quiet("topology") \/ Topology!ReportsSound

\* What vuln-intel keeps of a CVE agrees with what the feeds and the
\* enrichments said of it, and with what it was told it had seen
\* (api/app.py:133-341, models/cve.py:298-380); the budget of its exploit
\* scorer is what its calls have cost (llm.py:167-653).
CvesSound ==
  /\ Quiet("vulnerabilities") \/ Vulns!CvesSound
  /\ Quiet("exploit scores") \/ Exploits!ScoringSound

\* A fetch of a feed yields what was listed, and the records keep what the
\* advisories say of severities and versions (sources/nvd.py, ghsa.py,
\* osv.py, scoring.py:206-252, matcher.py:80-109).
FeedsSound == Quiet("feeds") \/ Fetches!FeedsSound

\* The dependency graphs stay closed under their edges, and their findings
\* are those of the components that were sent (builder.py:79-192,
\* correlator.py:95-168).
GraphsSound == Quiet("dependencies") \/ Graphs!GraphsSound

\* Costs, savings and advice are those of the workloads they name, and of the
\* use that was measured (source.ts:122-246, cost.engine.ts:65-390).
CostsSound == Quiet("costs") \/ Costs!CostsSound

\* What requests store of an incident, a control and an integration, and what
\* they announce of it, agree, whatever request is raced, cut short or
\* repeated (routes/incidents.ts:49-88, routes/evidence.ts:36-59,
\* controls.ts:73-101, webhooks.ts:45-78).
RecordsSound ==
  /\ Quiet("incident records") \/ Incidents!IncidentRecordsSound
  /\ Quiet("controls") \/ Controls!ControlEvidenceSound
  /\ Quiet("webhooks") \/ Deliveries!DeliveriesSound
=============================================================================

-------------------------- MODULE ConsoleSessions --------------------------
(***************************************************************************)
(* The console in the browser: sessions, pages, and what the pages show of *)
(* the services.  A page loads its data when it is mounted; a load that    *)
(* fails shows sample data instead, and the path goes into the list from   *)
(* which the shell says how much of what it shows is a sample.  An answer  *)
(* of 401 to any request ends the session.  Requests outlive the page and  *)
(* the session that made them.                                             *)
(*                                                                         *)
(* A load is a useFetch of a page, a run of the agents, a submission or an *)
(* export.  What a page shows is the number of the session whose request   *)
(* brought it, or one of the constants below.                              *)
(***************************************************************************)
EXTENDS Integers, FiniteSets

CONSTANTS
  Visited,      \* the routes that are visited
  Parameters,   \* what a load may be parameterised with
  MaxSerial,    \* bound: mounts and loads
  MaxSessions,  \* bound: sessions
  MaxPolls,     \* TASK_POLL_MAX
  MaxCalls,     \* bound: requests and timers at a time
  MaxFailures   \* bound: paths that have failed

VARIABLES
  live,          \* VITE_USE_MOCKS is "false"
  token,         \* the session of the access token, None without one
  authRequired,  \* a request was answered 401 since the last login or logout
  login,         \* a login is in flight
  sessions,      \* sessions so far
  failures,      \* apiHealth.failures
  route,         \* the route in the address bar
  tab,           \* whether the Apply tab of the remediation page is open
  choice,        \* what each load of the page is parameterised with
  wanted,        \* the load whose outcome the page waits for, None if none
  shown,         \* what the page shows of each load
  calls,         \* requests and timers of loads
  serial         \* loads so far

vars == <<live, token, authRequired, login, sessions, failures, route, tab, choice,
          wanted, shown, calls, serial>>
pageVars == <<route, tab, choice, wanted, shown, serial>>
authVars == <<token, authRequired, login, sessions>>

None    == 0   \* no session, no load, no parameter
Sample  == -1  \* data of mock.ts
Failed  == -2  \* an error message
Empty   == -3  \* an answer without anything to act upon
Nothing == -4  \* the default value
Data == Nothing .. MaxSessions

-----------------------------------------------------------------------------
(***************************************************************************)
(* The accessors of api.ts with their paths, and the loads of the routes.  *)
(***************************************************************************)

PathOf ==
  [dashboardKpis |-> "/security/dashboard", assets |-> "/assets",
   vulnerabilities |-> "/vulnerabilities", incidents |-> "/incidents",
   sbom |-> "/sbom/components", sbomDocument |-> "/sboms/:id",
   compliance |-> "/controls", integrations |-> "/integrations",
   securityScore |-> "/security/score", vulnTimeline |-> "/security/vuln-timeline",
   riskHeatmap |-> "/security/risk-heatmap", graphData |-> "/security/graph",
   kubernetesClusters |-> "/clusters", kubernetesNamespaces |-> "/namespaces",
   kubernetesWorkloads |-> "/workloads", healthClusters |-> "/health/clusters",
   healthNamespaces |-> "/health/namespaces", healthWorkloads |-> "/health/workloads",
   healthPods |-> "/health/pods", healthIssues |-> "/health/issues",
   healthRecommendations |-> "/health/recommendations",
   runtimeRisks |-> "/runtime-security/risks", runtimeReport |-> "/runtime-security/report",
   costAnalysis |-> "/cost/analysis", costWorkloads |-> "/cost/workloads",
   costFindings |-> "/cost/findings", costRecommendations |-> "/cost/recommendations",
   topologyGraphs |-> "/topology/graphs",
   run |-> "/vulnerabilities", apply |-> "/vulnerabilities", export |-> "/sboms/:id/export"]

RouteLoads ==
  [dashboard |-> {"dashboardKpis", "securityScore", "riskHeatmap"},
   assets |-> {"assets"}, incidents |-> {"incidents"},
   vulnerabilities |-> {"vulnerabilities"}, timeline |-> {"vulnTimeline"},
   remediation |-> {"run"}, sbom |-> {"sbom", "sbomDocument"},
   compliance |-> {"compliance"}, integrations |-> {"integrations"}, settings |-> {},
   infrastructure |-> {"kubernetesClusters", "kubernetesNamespaces", "kubernetesWorkloads",
                       "runtimeReport", "costAnalysis", "healthClusters"},
   clusters |-> {"kubernetesClusters", "healthClusters"},
   namespaces |-> {"kubernetesClusters", "kubernetesNamespaces"},
   workloads |-> {"kubernetesClusters", "kubernetesWorkloads"},
   runtimeSecurity |-> {"runtimeRisks", "runtimeReport"}, topology |-> {"topologyGraphs"},
   cost |-> {"costAnalysis", "costWorkloads", "costFindings", "costRecommendations"},
   health |-> {"healthClusters", "healthNamespaces", "healthWorkloads", "healthPods",
               "healthIssues", "healthRecommendations"},
   infrastructureIncidents |-> {"incidents"}, graph |-> {"graphData"}]

\* The loads that a choice on the page repeats with another parameter.  The
\* cluster explorer lists namespaces only once it has a cluster.
Chosen ==
  {"vulnTimeline", "kubernetesNamespaces", "kubernetesWorkloads", "sbomDocument", "graphData"}

LoadsOn(r) == RouteLoads[r]
Loads == (UNION {LoadsOn(r) : r \in Visited}) \union {"run", "apply", "integrations", "export"}

-----------------------------------------------------------------------------
(***************************************************************************)
(* Pages.                                                                  *)
(***************************************************************************)

\* The shell and its page are there; else the login form is (App.tsx).
Mounted == ~live \/ token # None

\* Of a call: the load it belongs to, what it does, with which token, and of
\* which data a task is.
Call(l, id, p, step, kind, auth, from, polls) ==
  [load |-> l, id |-> id, of |-> p, step |-> step, kind |-> kind, auth |-> auth,
   from |-> from, polls |-> polls]
Started(l, id, p) ==
  Call(l, id, p, IF live THEN "get" ELSE "sample", "read", token', Nothing, 0)

Blank == [data |-> Nothing, of |-> None]

\* A page is mounted: its state is new, and each useFetch starts its load;
\* the calls in `left` go on.  That no load begins while a login is required
\* is RequiredOnlyWithout; an address may open the tab, which is OpenTab.
Mount(r, left) ==
  /\ serial < MaxSerial
  /\ serial' = serial + 1
  /\ route' = r /\ tab' = FALSE
  /\ choice' = [l \in Loads |-> None]
  /\ wanted' = [l \in Loads |-> IF l \in LoadsOn(r) THEN serial + 1 ELSE None]
  /\ shown' = [l \in Loads |-> Blank]
  /\ calls' = left \union {Started(l, serial + 1, None) : l \in LoadsOn(r)}
  /\ Cardinality(calls') <= MaxCalls

\* The page goes away: the clean-up of useFetch cancels its loads.
Unmount ==
  /\ tab' = FALSE
  /\ choice' = [l \in Loads |-> None]
  /\ wanted' = [l \in Loads |-> None]
  /\ shown' = [l \in Loads |-> Blank]
  /\ UNCHANGED <<route, serial>>

\* Load l begins once more, with parameter p.
Load(l, p) ==
  /\ serial < MaxSerial /\ Cardinality(calls) < MaxCalls
  /\ serial' = serial + 1
  /\ choice' = [choice EXCEPT ![l] = p]
  /\ wanted' = [wanted EXCEPT ![l] = serial + 1]
  /\ UNCHANGED <<live, authVars, failures, route>>

\* The outcome of a call is shown, if the page still waits for it.
Settle(c, data) ==
  /\ IF wanted[c.load] = c.id
     THEN /\ shown' = [shown EXCEPT ![c.load] = [data |-> data, of |-> c.of]]
          /\ wanted' = [wanted EXCEPT ![c.load] = None]
     ELSE UNCHANGED <<shown, wanted>>
  /\ UNCHANGED <<route, tab, choice, serial>>

-----------------------------------------------------------------------------
(***************************************************************************)
(* Sessions (auth.ts, Login.tsx).                                          *)
(***************************************************************************)

SubmitLogin ==
  /\ ~Mounted /\ ~login
  /\ login' = TRUE
  /\ UNCHANGED <<live, token, authRequired, sessions, failures, pageVars, calls>>

LoggedIn ==
  /\ login /\ sessions < MaxSessions
  /\ login' = FALSE /\ authRequired' = FALSE
  /\ sessions' = sessions + 1 /\ token' = sessions + 1
  /\ Mount(route, calls)
  /\ UNCHANGED <<live, failures>>

LoginFailed ==
  /\ login
  /\ login' = FALSE
  /\ UNCHANGED <<live, token, authRequired, sessions, failures, pageVars, calls>>

Logout ==
  /\ Mounted /\ token # None
  /\ authRequired' = FALSE /\ token' = None
  /\ IF live THEN Unmount ELSE UNCHANGED pageVars
  /\ UNCHANGED <<live, login, sessions, failures, calls>>

\* The tab is reloaded: sessionStorage keeps the token, if there is one.
Reload ==
  /\ \E kept \in {token, None} :
       /\ token' = kept
       /\ IF live /\ kept = None
          THEN Unmount /\ calls' = {}
          ELSE Mount(route, {})
  /\ authRequired' = FALSE /\ login' = FALSE /\ failures' = {}
  /\ UNCHANGED <<live, sessions>>

\* sessionExpired(), as api.ts calls it upon a 401, and the page that it ends.
SessionExpired ==
  /\ token' = None /\ authRequired' = TRUE
  /\ Unmount
  /\ UNCHANGED <<live, login, sessions>>

-----------------------------------------------------------------------------
(***************************************************************************)
(* Loads by getRaw: what they bring, or the sample.                        *)
(***************************************************************************)

Navigate(r) ==
  /\ Mounted /\ r # route
  /\ token' = token /\ Mount(r, calls)
  /\ UNCHANGED <<live, authRequired, login, sessions, failures>>

\* The user picks another parameter: the load before it is cancelled.
Choose(l, p) ==
  /\ wanted[l] # None \/ shown[l] # Blank
  /\ p # choice[l]
  /\ Load(l, p)
  /\ calls' = calls \union {Started(l, serial + 1, p)}
  /\ UNCHANGED <<tab, shown>>

\* The 80 ms of the samples are over.
SampleServed(c) ==
  /\ c.step = "sample"
  /\ calls' = calls \ {c}
  /\ Settle(c, Sample)
  /\ UNCHANGED <<live, authVars, failures>>

\* recordFailure.
RecordFailure(path) ==
  /\ failures' = failures \union {path}
  /\ Cardinality(failures') <= MaxFailures
\* The banner of the shell.
Degraded == failures # {}

PathFor(c) ==
  CASE c.step = "get"  -> <<PathOf[c.load], c.of>>
    [] c.step = "post" -> <<"/agents/tasks", None>>
    [] c.step = "poll" -> <<"/agents/tasks/:id", None>>

Brought(c) ==
  /\ c.step = "get" /\ c.load # "run"
  /\ calls' = calls \ {c}
  /\ Settle(c, c.auth)
  /\ UNCHANGED <<live, authVars, failures>>

\* Not 2xx, no answer at all, or not JSON: the sample, and the path is
\* recorded; an export fails instead.
Fallback(c) ==
  /\ c.step = "get" /\ c.load # "run"
  /\ RecordFailure(PathFor(c))
  /\ calls' = calls \ {c}
  /\ Settle(c, IF c.load = "export" THEN Failed ELSE Sample)
  /\ UNCHANGED <<live, authVars>>

\* A 401 to a read, a task or a poll of it: whoever made the request, the
\* session that is there now ends, and its page with it.
Unauthorised(c) ==
  /\ c.step \in {"get", "post", "poll"}
  /\ RecordFailure(PathFor(c))
  /\ calls' = calls \ {c}
  /\ SessionExpired

\* One of the buttons that export the document of the page.
Export ==
  /\ Mounted /\ route = "sbom" /\ wanted.export = None
  /\ Load("export", None)
  /\ shown' = [shown EXCEPT !.export = Blank]
  /\ calls' = calls \union
       {Call("export", serial + 1, None, IF live THEN "get" ELSE "sample", "read", token,
             Nothing, 0)}
  /\ UNCHANGED tab

\* The stored document has another format (501).
Unsupported(c) ==
  /\ c.step = "get" /\ c.load = "export"
  /\ calls' = calls \ {c}
  /\ Settle(c, Failed)
  /\ UNCHANGED <<live, authVars, failures>>

-----------------------------------------------------------------------------
(***************************************************************************)
(* The remediation page: runs of the agents over the vulnerabilities, and  *)
(* the submission of a proposal (Remediation.tsx, postAgentTask).          *)
(***************************************************************************)

RunAgain ==
  /\ Mounted /\ route = "remediation" /\ wanted.run = None
  /\ Load("run", None)
  /\ calls' = calls \union {Started("run", serial + 1, None)}
  /\ UNCHANGED <<tab, shown>>

\* The vulnerabilities, real or the samples, become the input of two tasks
\* that are submitted at once, with the token that is there now; while a
\* login is required, they fail.
Listed(c, data) ==
  IF authRequired
  THEN calls' = calls \ {c} /\ Settle(c, Failed)
  ELSE /\ Cardinality(calls) < MaxCalls
       /\ calls' = (calls \ {c}) \union
            {Call("run", c.id, None, "post", kind, token, data, 0) :
               kind \in {"triage.findings", "remediation.propose"}}
       /\ UNCHANGED pageVars

RunListed(c) ==
  /\ c.step = "get" /\ c.load = "run"
  /\ \/ Listed(c, c.auth) /\ UNCHANGED failures
     \/ calls' = calls \ {c} /\ Settle(c, Empty) /\ UNCHANGED failures
     \/ Listed(c, Sample) /\ RecordFailure(PathFor(c))
  /\ UNCHANGED <<live, authVars>>

\* Promise.all: a run is over when its last task is.
TaskDone(c) ==
  /\ c.step = "poll"
  /\ calls' = calls \ {c}
  /\ IF \E d \in calls' : d.load = c.load /\ d.id = c.id
     THEN UNCHANGED pageVars
     ELSE Settle(c, c.from)
  /\ UNCHANGED <<live, authVars, failures>>

\* The submission or the poll fails, with or without a record of it, or the
\* task did, or was polled for the last time.
TaskFailed(c) ==
  /\ c.step \in {"post", "poll"}
  /\ RecordFailure(PathFor(c)) \/ UNCHANGED failures
  /\ calls' = calls \ {c}
  /\ Settle(c, Failed)
  /\ UNCHANGED <<live, authVars>>

\* The task is queued or runs: the next poll is TASK_POLL_INTERVAL_MS away.
TaskRuns(c) ==
  /\ c.step \in {"post", "poll"}
  /\ c.polls < MaxPolls
  /\ calls' = (calls \ {c}) \union {[c EXCEPT !.step = "wait"]}
  /\ UNCHANGED <<live, authVars, failures, pageVars>>

\* The next poll, which fails while a login is required.
Poll(c) ==
  /\ c.step = "wait"
  /\ IF authRequired
     THEN calls' = calls \ {c} /\ Settle(c, Failed)
     ELSE /\ calls' = (calls \ {c}) \union
               {[c EXCEPT !.step = "poll", !.auth = token, !.polls = c.polls + 1]}
          /\ UNCHANGED pageVars
  /\ UNCHANGED <<live, authVars, failures>>

\* The Apply tab is a component of its own, which loads the integrations.
OpenTab ==
  /\ Mounted /\ route = "remediation" /\ ~tab
  /\ tab' = TRUE
  /\ Load("integrations", None)
  /\ calls' = calls \union {Started("integrations", serial + 1, None)}
  /\ UNCHANGED shown

CloseTab ==
  /\ tab
  /\ tab' = FALSE
  /\ wanted' = [wanted EXCEPT !.integrations = None, !.apply = None]
  /\ shown' = [shown EXCEPT !.integrations = Blank, !.apply = Blank]
  /\ UNCHANGED <<live, authVars, failures, route, choice, calls, serial>>

\* What the tabs of the page make of the run.
RunShown ==
  CASE wanted.run # None -> "running"
    [] wanted.run = None /\ shown.run.data = Failed -> "error"
    [] wanted.run = None /\ shown.run.data \in {Nothing, Empty} -> "nothing"
    [] OTHER -> "results"

\* A proposal of the run that is shown is submitted; the identifier of the
\* integration may be typed.
Submit ==
  /\ tab /\ RunShown = "results" /\ wanted.apply = None
  /\ Load("apply", None)
  /\ shown' = [shown EXCEPT !.apply = Blank]
  /\ calls' = calls \union
       {Call("apply", serial + 1, None, IF live THEN "post" ELSE "sample",
             "remediation.apply", token, shown.run.data, 0)}
  /\ UNCHANGED tab

-----------------------------------------------------------------------------
Init ==
  /\ live \in BOOLEAN
  /\ token \in {None, 1} /\ sessions = token
  /\ authRequired = FALSE /\ login = FALSE /\ failures = {}
  /\ route \in Visited /\ tab = FALSE
  /\ choice = [l \in Loads |-> None]
  /\ shown = [l \in Loads |-> Blank]
  /\ wanted = [l \in Loads |-> IF Mounted /\ l \in LoadsOn(route) THEN 1 ELSE None]
  /\ calls = IF ~Mounted THEN {}
             ELSE {Call(l, 1, None, IF live THEN "get" ELSE "sample", "read", token,
                        Nothing, 0) : l \in LoadsOn(route)}
  /\ serial = 1

Answered ==
  \E c \in calls :
    \/ SampleServed(c)
    \/ Brought(c)
    \/ Fallback(c)
    \/ Unauthorised(c)
    \/ Unsupported(c)
    \/ RunListed(c)
    \/ TaskDone(c)
    \/ TaskFailed(c)
    \/ TaskRuns(c)
    \/ Poll(c)

Next ==
  \/ SubmitLogin
  \/ LoggedIn
  \/ LoginFailed
  \/ Logout
  \/ Reload
  \/ \E r \in Visited : Navigate(r)
  \/ \E l \in Chosen \intersect Loads, p \in Parameters : Choose(l, p)
  \/ Export
  \/ RunAgain
  \/ OpenTab
  \/ CloseTab
  \/ Submit
  \/ Answered

Spec == Init /\ [][Next]_vars
-----------------------------------------------------------------------------
CallRecords ==
  [load : Loads, id : 1 .. serial, of : Parameters \union {None},
   step : {"sample", "get", "post", "wait", "poll"},
   kind : {"read", "triage.findings", "remediation.propose", "remediation.apply"},
   auth : 0 .. sessions, from : Data, polls : 0 .. MaxPolls]
TypeOK ==
  /\ live \in BOOLEAN /\ authRequired \in BOOLEAN /\ login \in BOOLEAN
  /\ tab \in BOOLEAN
  /\ sessions \in 0 .. MaxSessions /\ token \in 0 .. sessions
  /\ route \in Visited
  /\ serial \in 1 .. MaxSerial
  /\ choice \in [Loads -> Parameters \union {None}]
  /\ wanted \in [Loads -> 0 .. serial]
  /\ shown \in [Loads -> [data : Data, of : Parameters \union {None}]]
  /\ calls \subseteq CallRecords

Awaited(c) == wanted[c.load] = c.id

\* With the services, a page shows samples only for paths whose failure the
\* shell counts, and the runs and applications of what the agents made of
\* samples only if it counts the vulnerabilities; an export is never a
\* sample (api.ts:83-177, 344-347; AppShell.tsx:36-41).
SamplesFlagged ==
  live => \A l \in Loads :
            shown[l].data = Sample => /\ Degraded /\ <<PathOf[l], shown[l].of>> \in failures
                                      /\ l # "export"

\* What a page shows was brought by a request of the session that is logged
\* in, with its token, however many logins and expired sessions ago others
\* were sent (useFetch.ts:18-33, auth.ts:31-72).
OwnSession ==
  live => /\ \A l \in Loads : shown[l].data \in {Nothing, Failed, Empty, Sample, token}
          /\ \A c \in calls : Awaited(c) =>
                /\ c.auth = token
                /\ c.from \in {Nothing, Sample, token}
          /\ token = None => \A l \in Loads : shown[l] = Blank /\ wanted[l] = None

\* A page that waits for nothing shows what was asked for last, and no page
\* waits for what will never come (useFetch.ts:18-33, Remediation.tsx:128-140).
LatestChoice ==
  \A l \in Loads :
    /\ wanted[l] = None => shown[l].data = Nothing \/ shown[l].of = choice[l]
    /\ wanted[l] # None => \E c \in calls : c.load = l /\ Awaited(c) /\ c.of = choice[l]

\* A login is required of nobody who is logged in: no load of a page is
\* answered with a sample, or an error, because of an earlier session's 401
\* (auth.ts:25-72, api.ts:146-150).
RequiredOnlyWithout == authRequired => live /\ token = None

ConsoleSound ==
  /\ SamplesFlagged
  /\ OwnSession
  /\ LatestChoice
  /\ RequiredOnlyWithout
=============================================================================

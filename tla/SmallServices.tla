---------------------------- MODULE SmallServices ----------------------------
(***************************************************************************)
(* The small instances of the services that analyse what others collected, *)
(* and of the agents that do.                                              *)
(***************************************************************************)
EXTENDS Integers, Sequences, TLC

(***************************************************************************)
(* CostIntelligence: in cluster 1 a workload whose name begins another's,  *)
(* that one, a workload of 200 CPUs and one without requests; in cluster 2 *)
(* a workload with the name of one of cluster 1, and a pod with the name   *)
(* of one of its pods.                                                     *)
(***************************************************************************)
LOCAL Workload(name, cpu, cpuLimit, memory, memoryLimit) ==
  [name |-> name, cpu |-> cpu, cpuLimit |-> cpuLimit, memory |-> memory,
   memoryLimit |-> memoryLimit, ready |-> 1, desired |-> 2]
LOCAL PodOf(cluster, name, owner, prefixes, cpu, memory) ==
  [cluster |-> cluster, name |-> name, owner |-> owner, prefixes |-> prefixes,
   use |-> [cpuP50 |-> cpu \div 2, cpuP95 |-> cpu, memoryP50 |-> memory, memoryP95 |-> memory]]

SmallWorkloads ==
  << <<Workload("web", 400, 2000, 512, 512), Workload("web-api", 50, 0, 128, 0),
       Workload("batch", 200000, 200000, 1024, 1024), Workload("bare", 0, 0, 0, 0)>>,
     <<Workload("web", 1000, 1000, 256, 256)>> >>

SmallPods ==
  { PodOf(1, "web-0", "web", {"web"}, 8, 10), PodOf(2, "web-0", "web", {"web"}, 500, 200),
    PodOf(1, "web-api-1", "web-api", {"web", "web-api"}, 45, 30),
    PodOf(1, "batch-1", "batch", {"batch"}, 40000, 0) }

(***************************************************************************)
(* SecurityViews: the demo document, which has a root and a chain of       *)
(* dependencies, and one that names a component twice, without a ref, in   *)
(* two ecosystems; a finding without a version, and one of eight days ago. *)
(***************************************************************************)
LOCAL Part(ref, name, ecosystem) ==
  [ref |-> ref, name |-> name, version |-> "1", ecosystem |-> ecosystem]
LOCAL Seen(asset, package, version, severity, age) ==
  [asset |-> asset, package |-> package, version |-> version, severity |-> severity,
   age |-> age]
LOCAL DemoDocument ==
  [root |-> <<"root">>,
   components |-> <<Part(<<"l">>, "lodash", "npm"), Part(<<"e">>, "express", "npm"),
                    Part(<<"c">>, "chalk", "npm")>>,
   dependencies |-> <<[ref |-> <<"root">>, on |-> <<<<"l">>, <<"e">>>>],
                      [ref |-> <<"e">>, on |-> <<<<"c">>>>]>>]
LOCAL Repeating ==
  [root |-> <<>>, components |-> <<Part(<<>>, "chalk", "npm"), Part(<<>>, "chalk", "pypi")>>,
   dependencies |-> <<>>]

SmallKinds     == {Seen(1, "chalk", "", "critical", 0), Seen(2, "lodash", "1", "info", 8)}
SmallDocuments == {DemoDocument, Repeating}
DemoData ==
  [asset |-> 1, document |-> DemoDocument,
   findings |-> <<Seen(1, "lodash", "1", "high", 1), Seen(1, "express", "1", "medium", 2)>>]

(***************************************************************************)
(* IncidentRecords: patches of two fields of an open incident, and a third *)
(* field that no request names.                                            *)
(***************************************************************************)
SmallPatches ==
  {[status |-> value] : value \in {"open", "resolved", "closed"}} \union {[assigneeId |-> 1]}
NewIncident == [status |-> "open", assigneeId |-> 0, severity |-> 1]

(***************************************************************************)
(* AgentAnalysis: up to three findings of one name in two ecosystems, which *)
(* read versions differently: two texts of one version, a pre-release of   *)
(* it, fixes of two release lines, and one that cannot be read; scores at  *)
(* the limits of the priorities.                                           *)
(***************************************************************************)
LOCAL Version(release, rank) == [release |-> release, rank |-> rank]
SmallVersions ==
  [npm  |-> ("1.0.0" :> Version(<<1, 0, 0>>, 0) @@ "1.2" :> Version(<<1, 2>>, 0) @@
             "v1.2.0" :> Version(<<1, 2, 0>>, 0) @@ "1.2.0-rc" :> Version(<<1, 2, 0>>, -1) @@
             "2.0.0" :> Version(<<2, 0, 0>>, 0)),
   pypi |-> ("1.0.0" :> Version(<<1, 0, 0>>, 0) @@ "1.2" :> Version(<<1, 2>>, 0) @@
             "1.0rc1" :> Version(<<1, 0>>, -1))]

LOCAL Scored(severity, kev, epss, exposure, criticality, fixAvailable) ==
  [severity |-> severity, kev |-> kev, epss |-> epss, exposure |-> exposure,
   criticality |-> criticality, fixAvailable |-> fixAvailable]
LOCAL Found(id, cveId, ecosystem, version, fixedVersions) ==
  [id |-> id, cveId |-> cveId, package |-> [name |-> "chalk", ecosystem |-> ecosystem],
   version |-> version, fixedVersions |-> fixedVersions]
LOCAL AgentFindings ==
  { Scored("high", FALSE, 0, "", "", "no") @@
      Found("f1", "c1", "npm", "1.0.0", <<"v1.2.0", "2.0.0">>),
    Scored("medium", TRUE, 50, "internal", "high", "yes") @@
      Found("f2", "c2", "npm", "1.0.0", <<"1.2.0-rc", "1.2">>),
    Scored("critical", FALSE, 49, "internet", "critical", "") @@
      Found("f3", "", "npm", "2.0.0", <<"1.2", "2.0.0">>),
    Scored("low", FALSE, 0, "internet", "critical", "") @@
      Found("f4", "c4", "pypi", "1.0rc1", <<"1.0.0", "1.2">>),
    Scored("informational", FALSE, 0, "", "", "") @@
      Found("f5", "c5", "pypi", "1.2.0-rc", <<>>),
    Scored("medium", TRUE, 0, "", "", "no") @@
      Found("f6", "c6", "pypi", "1.0rc1", <<"v1.2.0", "1.2">>) }
SmallInputs == UNION {[1 .. n -> AgentFindings] : n \in 0 .. 3}

-----------------------------------------------------------------------------
(***************************************************************************)
(* DependencyGraphs and VulnFeeds: three SBOMs are ingested under one id,  *)
(* with and without a workspace: they share components, name some of them  *)
(* only in a dependency, and give the library twice, at two versions.  Of  *)
(* the two CVEs one names the library by ecosystem and name and the logger *)
(* by name alone, the other the logger by purl and both versions of the    *)
(* library.                                                                *)
(***************************************************************************)
LOCAL Component(purl, name, version, root) ==
  [purl |-> purl, ecosystem |-> "npm", name |-> name, version |-> version, root |-> root]
LOCAL App    == Component("pkg:app@1", "app", 1, TRUE)
LOCAL Lib(v) == Component("none", "lib", v, FALSE)
LOCAL Log    == Component("pkg:log@2", "log", 2, FALSE)

\* The ids of the nodes those components get.
LOCAL AppId    == <<"pkg:app@1">>
LOCAL LibId(v) == <<"npm", "lib", v>>
LOCAL LogId    == <<"pkg:log@2">>

LOCAL SbomOf(components, dependencies, workspace) ==
  [sbom |-> "one", components |-> components, dependencies |-> dependencies,
   workspace |-> workspace]

SmallSboms ==
  { SbomOf(<<App, Lib(1)>>, << <<AppId, LibId(1)>>, <<AppId, LogId>> >>, TRUE),
    SbomOf(<<Lib(2), Log, Lib(1)>>, << <<LibId(2), LogId>>, <<LibId(2), LibId(1)>> >>, TRUE),
    SbomOf(<<Log, Lib(2), Lib(1)>>, << <<LibId(2), LogId>> >>, FALSE) }

LOCAL Package(purl, ecosystem, name, versions) ==
  [purl |-> purl, ecosystem |-> ecosystem, name |-> name, versions |-> versions]

SmallCves ==
  << [id |-> "cve1",
      affected |-> <<Package("none", "npm", "lib", {1}), Package("none", "none", "log", {2})>>],
     [id |-> "cve2",
      affected |-> <<Package("pkg:log@2", "none", "log", {2}),
                     Package("none", "npm", "lib", {1, 2})>>] >>

-----------------------------------------------------------------------------
(***************************************************************************)
(* What the feeds list: four advisories of which one does not fit the      *)
(* schema, with and without one that the record type rejects; or a single  *)
(* one with some CVSS entries, or with some bounds of versions.            *)
(***************************************************************************)
LOCAL Metric(kind, primary, parses, score, given) ==
  [kind |-> kind, primary |-> primary, parses |-> parses, score |-> score, given |-> given]
LOCAL Severe == Metric("v31", TRUE, TRUE, 98, FALSE)
LOCAL Bounds(bounds) == [vulnerable |-> TRUE, bounds |-> bounds]
LOCAL Always == Bounds(<< <<"from", 0>> >>)

LOCAL Advisory(id, aliases, fits, sane, metrics, ranges) ==
  [id |-> id, aliases |-> aliases, fits |-> fits, sane |-> sane, label |-> 2,
   metrics |-> metrics, ranges |-> ranges]
LOCAL Plainly(id) == Advisory(id, <<>>, TRUE, TRUE, <<Severe>>, <<Always>>)

FeedCves == {"CVE-1", "CVE-2", "CVE-3", "CVE-4", "CVE-5"}
LateAdvisory == Plainly("CVE-3")

\* NVD lists CVE ids only, the others have names of their own.
LOCAL Paged(own) ==
  LET Named(cve, name, aliases, fits, sane) ==
        Advisory(IF own THEN name ELSE cve, IF own THEN aliases ELSE <<>>, fits, sane,
                 <<Severe>>, <<Always>>)
      unfit == Named("CVE-4", "GHSA-1", <<"PYSEC-1", "CVE-4">>, FALSE, TRUE)
      bad   == Named("CVE-4", "GHSA-2", <<"CVE-4">>, TRUE, FALSE)
      good  == Named("CVE-5", "GHSA-3", <<"PYSEC-1">>, TRUE, TRUE)
  IN  {<<Plainly("CVE-1"), unfit, good, Plainly("CVE-2")>>,
       <<Plainly("CVE-1"), good, bad, Plainly("CVE-2")>>}

LOCAL Entries ==
  {Severe, Metric("v31", FALSE, TRUE, 75, TRUE), Metric("v30", TRUE, TRUE, 50, FALSE),
   Metric("v40", FALSE, TRUE, 45, TRUE), Metric("v40", TRUE, TRUE, 30, FALSE),
   Metric("v2", TRUE, TRUE, 40, FALSE), Metric("v2", FALSE, TRUE, 75, FALSE),
   Metric("v31", TRUE, FALSE, 98, FALSE)}
LOCAL Starts == {<<>>} \union {<< <<w, v>> >> : w \in {"from", "after"}, v \in {0, 3, 4}}
LOCAL Stops  == {<<>>} \union {<< <<w, v>> >> : w \in {"before", "upto"}, v \in {6, 7, 8}}

LOCAL Single ==
  {Advisory("CVE-1", <<>>, TRUE, TRUE, <<m, n>>, <<Always>>) : m \in Entries, n \in Entries}
  \union {Advisory("CVE-1", <<>>, TRUE, TRUE, <<>>, <<Bounds(i \o s)>>) : i \in Starts, s \in Stops}
  \union {Advisory("CVE-1", <<>>, TRUE, TRUE, <<m>>, ranges) :
            m \in Entries,
            ranges \in { <<>>, <<Bounds(<< <<"is", 4>> >>)>>,
                         <<Bounds(<< <<"from", 0>>, <<"before", 4>>, <<"from", 7>> >>)>>,
                         <<Bounds(<< <<"from", 0>>, <<"before", 4>> >>), Bounds(<< <<"from", 7>> >>)>> }}

SmallListings ==
  UNION {[feed : {f}, items : Paged(f # "nvd") \union {<<item>> : item \in Single}] :
           f \in {"nvd", "ghsa", "osv"}}
=============================================================================

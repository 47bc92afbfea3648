-------------------------- MODULE DependencyGraphs --------------------------
(***************************************************************************)
(* The dependency-intel service (api/app.py): graphs built of SBOMs        *)
(* (builder.py), their correlation with the records of vuln-intel          *)
(* (correlator.py, and vuln-intel's matcher.py), and the clusters that are *)
(* read off a graph (risk.py, the PageRank of which is left out).          *)
(*                                                                         *)
(* A graph is changed in place: a correlation that awaits vuln-intel, one  *)
(* chunk of components after another, finds the nodes that another request *)
(* added meanwhile.  A save is part of each step.                          *)
(*                                                                         *)
(* Names and purls are in lower case.  A version is a number, 0 when there *)
(* is none, and a version range is the set of the versions in it.  A node  *)
(* id is a tuple: of a purl or other reference, or of ecosystem, name and  *)
(* version.  Edges of one kind and scope stand for all.                    *)
(***************************************************************************)
EXTENDS Integers, SequencesExt

CONSTANTS
  Sboms,       \* SBOM requests: [sbom, components, dependencies, workspace]
  Cves,        \* vuln-intel's records: [id, affected], in the order of its store
  Requests,    \* correlations under way at once
  Chunk,       \* components per match request
  MaxNodes,    \* max_graph_nodes
  MaxEdges,    \* max_graph_edges
  MaxBuilds,   \* bound on the SBOM requests
  MaxRuns,     \* bound on the correlations
  MaxSeverity  \* bound on the severity of a record

None == "none"

VARIABLES
  graphs,      \* the graphs, in the order of their creation
  severity,    \* the severity of each record by now
  on,          \* the graph of a correlation, 0 for none
  components,  \* what it sends
  sent,        \* how many of them it has sent
  got,         \* the findings it was answered
  builds, runs,
  covered      \* history: <<graph, component>> of the correlations that ended

vars == <<graphs, severity, on, components, sent, got, builds, runs, covered>>
correlation == <<on, components, sent, got>>

Init ==
  /\ graphs = <<>> /\ severity = [k \in DOMAIN Cves |-> 1]
  /\ on = [q \in Requests |-> 0] /\ sent = [q \in Requests |-> 0]
  /\ components = [q \in Requests |-> <<>>] /\ got = [q \in Requests |-> <<>>]
  /\ builds = 0 /\ runs = 0 /\ covered = {}

-----------------------------------------------------------------------------
(***************************************************************************)
(* build_graph().                                                          *)
(***************************************************************************)

ComponentKey(c) ==
  IF c.purl # None THEN <<c.purl>> ELSE <<c.ecosystem, c.name, c.version>>

Ids(nodes) == {nodes[k].id : k \in DOMAIN nodes}
At(nodes, id) == CHOOSE k \in DOMAIN nodes : nodes[k].id = id

Node(id, c) ==
  [id |-> id, purl |-> c.purl, ecosystem |-> c.ecosystem, name |-> c.name,
   version |-> c.version, root |-> c.root, dependents |-> {}, findings |-> <<>>]

\* A node for a reference that no component has.
Stub(ref) ==
  Node(ref, [purl |-> None, ecosystem |-> None, name |-> ref[1], version |-> 0,
             root |-> FALSE])

\* A component of a known id fills in what its node lacks, but for the name.
Filled(node, c) ==
  [node EXCEPT !.root = @ \/ c.root,
               !.purl = IF @ = None THEN c.purl ELSE @,
               !.ecosystem = IF @ = None THEN c.ecosystem ELSE @,
               !.version = IF @ = 0 THEN c.version ELSE @]

\* The limit counts the nodes that were added twice.
AddComponent(graph, c) ==
  LET key == ComponentKey(c)
      known == key \in Ids(graph.nodes)
  IN  IF Len(graph.nodes) + graph.added >= MaxNodes THEN graph
      ELSE [graph EXCEPT
             !.added = IF known THEN @ ELSE @ + 1,
             !.roots = IF c.root THEN @ \union {key} ELSE @,
             !.nodes = IF known THEN [@ EXCEPT ![At(graph.nodes, key)] = Filled(@, c)]
                                ELSE Append(@, Node(key, c))]

WithStub(nodes, ref) == IF ref \in Ids(nodes) THEN nodes ELSE Append(nodes, Stub(ref))

AddDependency(graph, d) ==
  LET nodes == WithStub(WithStub(graph.nodes, d[1]), d[2])
  IN  IF Cardinality(graph.edges) + graph.added >= MaxEdges THEN graph
      ELSE IF d \in graph.edges THEN graph
      ELSE [graph EXCEPT
             !.added = @ + 1, !.edges = @ \union {d},
             !.nodes = [nodes EXCEPT
               ![At(nodes, d[2])] = [@ EXCEPT !.dependents = @ \union {d[1]}]]]

NewGraph(sbom) == [sbom |-> sbom, nodes |-> <<>>, edges |-> {}, roots |-> {}, added |-> 0]

BuildGraph(request, graph) ==
  LET noded  == FoldLeft(AddComponent, graph, request.components)
      linked == FoldLeft(AddDependency, [noded EXCEPT !.added = 0], request.dependencies)
  IN  [linked EXCEPT !.added = 0]

\* get_by_sbom(): the oldest graph of the SBOM.
OfSbom(sbom) == SelectInSeq(graphs, LAMBDA g : g.sbom = sbom)

IngestSbom(request) ==
  /\ builds < MaxBuilds /\ builds' = builds + 1
  /\ LET k == OfSbom(request.sbom) IN
       graphs' = IF request.workspace /\ k > 0
                 THEN [graphs EXCEPT ![k] = BuildGraph(request, @)]
                 ELSE Append(graphs, BuildGraph(request, NewGraph(request.sbom)))
  /\ UNCHANGED <<severity, correlation, runs, covered>>

-----------------------------------------------------------------------------
(***************************************************************************)
(* match_components() of vuln-intel.                                       *)
(***************************************************************************)

PackageMatches(c, package) ==
  IF c.purl # None
  THEN IF package.purl # None THEN c.purl = package.purl ELSE c.name = package.name
  ELSE c.name = package.name /\ (None \in {c.ecosystem, package.ecosystem}
                                   \/ c.ecosystem = package.ecosystem)

\* Without a version the package is enough.
Affects(package, c) == PackageMatches(c, package) /\ c.version \in package.versions \union {0}

IsAffected(cve, c) == \E k \in DOMAIN cve.affected : Affects(cve.affected[k], c)

\* The components that a record's findings are of, package by package.
Hits(k, cs) ==
  LET affected == Cves[k].affected
  IN  FlattenSeq([j \in DOMAIN affected |->
        LET found == SelectSeq(cs, LAMBDA c : Affects(affected[j], c))
        IN  [i \in DOMAIN found |->
              [component |-> found[i], cve |-> k, severity |-> severity[k]]]])

\* One finding for a name and a record, whatever the versions.
Unseen(findings, f) ==
  \A j \in DOMAIN findings :
    findings[j].component.name # f.component.name \/ findings[j].cve # f.cve

MatchComponents(cs) ==
  LET hits == FlattenSeq([k \in DOMAIN Cves |-> Hits(k, cs)])
      Add(findings, f) == IF Unseen(findings, f) THEN Append(findings, f) ELSE findings
  IN  FoldLeft(Add, <<>>, hits)

-----------------------------------------------------------------------------
(***************************************************************************)
(* correlate(): build_match_payload(), the chunks, ingest_correlation().   *)
(***************************************************************************)

PayloadOf(graph) ==
  [k \in DOMAIN graph.nodes |->
    LET n == graph.nodes[k]
    IN  [purl |-> n.purl, ecosystem |-> n.ecosystem, name |-> n.name, version |-> n.version]]

\* _match_node(): by purl, by name and ecosystem, or by name alone; of
\* several nodes the last one.
MatchNode(c, nodes) ==
  LET purl == SelectLastInSeq(nodes, LAMBDA n : c.purl # None /\ n.purl = c.purl)
      full == SelectLastInSeq(nodes, LAMBDA n : n.name = c.name /\ n.ecosystem = c.ecosystem)
      first == SelectInSeq(nodes, LAMBDA n : n.name = c.name)
  IN  IF purl > 0 THEN purl
      ELSE IF full > 0 THEN full
      ELSE IF first = 0 THEN 0
      ELSE SelectLastInSeq(nodes,
             LAMBDA n : n.name = c.name /\ n.ecosystem = nodes[first].ecosystem)

Known(node, k) == \E j \in DOMAIN node.findings : node.findings[j].cve = k

\* A node keeps the first finding of a record.
Attach(nodes, f) ==
  LET n == MatchNode(f.component, nodes)
  IN  IF n = 0 THEN nodes
      ELSE IF Known(nodes[n], f.cve) THEN nodes
      ELSE [nodes EXCEPT ![n].findings = Append(@, [cve |-> f.cve, severity |-> f.severity])]

Correlate(q, g) ==
  /\ on[q] = 0 /\ runs < MaxRuns /\ runs' = runs + 1
  /\ on' = [on EXCEPT ![q] = g]
  /\ components' = [components EXCEPT ![q] = PayloadOf(graphs[g])]
  /\ UNCHANGED <<graphs, severity, sent, got, builds, covered>>

\* The correlation is over, and nothing of it is used again.
Ends(q) ==
  /\ on' = [on EXCEPT ![q] = 0] /\ sent' = [sent EXCEPT ![q] = 0]
  /\ components' = [components EXCEPT ![q] = <<>>] /\ got' = [got EXCEPT ![q] = <<>>]

\* Mutant: the loop ends before a chunk that is not full.
LastOf(q) == sent[q] + 2 * Chunk > Len(components[q])

\* Is the chunk that begins here the last one?
LastChunk(q) == sent[q] + Chunk >= Len(components[q])

\* vuln-intel answers a chunk.  After the last one the findings are attached
\* to the graph as it is now.
Answer(q) ==
  LET g     == on[q]
      upTo  == IF sent[q] + Chunk > Len(components[q]) THEN Len(components[q])
               ELSE sent[q] + Chunk
      found == got[q] \o MatchComponents(SubSeq(components[q], sent[q] + 1, upTo))
  IN  /\ g > 0
      /\ IF LastChunk(q)
         THEN /\ graphs' = [graphs EXCEPT ![g].nodes = FoldLeft(Attach, @, found)]
              /\ covered' = covered \union {<<g, c>> : c \in ToSet(components[q])}
              /\ Ends(q)
         ELSE /\ sent' = [sent EXCEPT ![q] = upTo] /\ got' = [got EXCEPT ![q] = found]
              /\ UNCHANGED <<graphs, covered, on, components>>
      /\ UNCHANGED <<severity, builds, runs>>

\* vuln-intel fails or is too late: the request fails, the graph is as it was.
Fails(q) ==
  /\ on[q] > 0 /\ Ends(q)
  /\ UNCHANGED <<graphs, severity, builds, runs, covered>>

\* vuln-intel merges a graver report of a record.
GetsWorse(k) ==
  /\ severity[k] < MaxSeverity
  /\ severity' = [severity EXCEPT ![k] = @ + 1]
  /\ UNCHANGED <<graphs, correlation, builds, runs, covered>>

Next ==
  \/ \E request \in Sboms : IngestSbom(request)
  \/ \E k \in DOMAIN Cves : GetsWorse(k)
  \/ \E q \in Requests :
       Answer(q) \/ Fails(q) \/ \E g \in DOMAIN graphs : Correlate(q, g)

Spec == Init /\ [][Next]_vars

-----------------------------------------------------------------------------
(***************************************************************************)
(* find_vulnerability_clusters().                                          *)
(***************************************************************************)

\* The records with findings, in the order in which the nodes have them.
FoundIn(graph) ==
  LET all == FlattenSeq([n \in DOMAIN graph.nodes |->
               [j \in DOMAIN graph.nodes[n].findings |-> graph.nodes[n].findings[j].cve]])
      New(cves, k) == IF k \in ToSet(cves) THEN cves ELSE Append(cves, k)
  IN  FoldLeft(New, <<>>, all)

NodesWith(graph, k) == {n \in DOMAIN graph.nodes : Known(graph.nodes[n], k)}

SeveritiesOf(graph, k) ==
  UNION {{f.severity : f \in {x \in ToSet(graph.nodes[n].findings) : x.cve = k}} :
           n \in NodesWith(graph, k)}

Clusters(graph) ==
  LET Add(clusters, k) ==
        IF \E c \in clusters : c.nodes = NodesWith(graph, k) THEN clusters
        ELSE clusters \union
               {[cve |-> k, nodes |-> NodesWith(graph, k),
                 severity |-> CHOOSE s \in SeveritiesOf(graph, k) :
                                \A t \in SeveritiesOf(graph, k) : t <= s]}
  IN  FoldLeft(Add, {}, FoundIn(graph))

-----------------------------------------------------------------------------
TypeOK ==
  /\ severity \in [DOMAIN Cves -> 1..MaxSeverity]
  /\ on \in [Requests -> 0..Len(graphs)]
  /\ \A q \in Requests : sent[q] \in 0..Len(components[q]) /\ (on[q] = 0 => got[q] = <<>>)
  /\ Len(graphs) \in 0..builds /\ builds \in 0..MaxBuilds /\ runs \in 0..MaxRuns
  /\ \A c \in covered : c[1] \in DOMAIN graphs

\* A node has one place in its graph, every edge has its ends there, each
\* node knows those that depend on it, and the roots are the nodes flagged
\* so, over SBOMs that come again with other components
\* (builder.py:103-190).
GraphsClosed ==
  \A g \in DOMAIN graphs :
    LET nodes == graphs[g].nodes IN
      /\ \A m, n \in DOMAIN nodes : nodes[m].id = nodes[n].id => m = n
      /\ \A e \in graphs[g].edges : {e[1], e[2]} \subseteq Ids(nodes)
      /\ \A n \in DOMAIN nodes :
           /\ nodes[n].dependents = {e[1] : e \in {d \in graphs[g].edges : d[2] = nodes[n].id}}
           /\ nodes[n].root <=> nodes[n].id \in graphs[g].roots

\* The limits hold, but for the nodes made of the references of edges: two
\* for an edge at most (builder.py:109-113, 150-163).
LimitsKept ==
  \A g \in DOMAIN graphs :
    /\ Cardinality(graphs[g].edges) <= MaxEdges
    /\ Len(graphs[g].nodes) <= MaxNodes + 2 * Cardinality(graphs[g].edges)

\* A node has one finding of a record at most, however often and however
\* concurrently the graph is correlated; and a component of its name, in
\* its graph, is affected by the record, at no more than its severity
\* (correlator.py:140-142, matcher.py:148-156).
FindingsGrounded ==
  \A g \in DOMAIN graphs : \A n \in DOMAIN graphs[g].nodes :
    LET node == graphs[g].nodes[n]
        same == {c \in ToSet(PayloadOf(graphs[g])) : c.name = node.name}
    IN  /\ \A i, j \in DOMAIN node.findings :
             node.findings[i].cve = node.findings[j].cve => i = j
        /\ \A f \in ToSet(node.findings) :
             /\ f.severity <= severity[f.cve]
             /\ \E c \in same : IsAffected(Cves[f.cve], c)

\* Every component that a correlation sent, in whatever chunk, and that a
\* record affects has the finding on a node of its name: on one of them, when
\* the graph has several versions (app.py:142-151, correlator.py:95-168).
NothingMissed ==
  \A pair \in covered : \A k \in DOMAIN Cves :
    IsAffected(Cves[k], pair[2]) =>
      \E n \in DOMAIN graphs[pair[1]].nodes :
        /\ graphs[pair[1]].nodes[n].name = pair[2].name
        /\ Known(graphs[pair[1]].nodes[n], k)

\* The clusters cover the nodes that have findings, no two are the same set
\* of nodes, and each has the gravest severity of its record (risk.py:216-268).
ClustersCover ==
  \A g \in DOMAIN graphs :
    LET clusters == Clusters(graphs[g]) IN
      /\ UNION {c.nodes : c \in clusters} =
           {n \in DOMAIN graphs[g].nodes : graphs[g].nodes[n].findings # <<>>}
      /\ \A c, d \in clusters : c.nodes = d.nodes => c = d
      /\ \A c \in clusters, n \in DOMAIN graphs[g].nodes :
           \A f \in ToSet(graphs[g].nodes[n].findings) :
             f.cve = c.cve => n \in c.nodes /\ f.severity <= c.severity

GraphsSound ==
  GraphsClosed /\ LimitsKept /\ FindingsGrounded /\ NothingMissed /\ ClustersCover
=============================================================================

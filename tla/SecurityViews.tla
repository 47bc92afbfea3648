---------------------------- MODULE SecurityViews ----------------------------
(***************************************************************************)
(* What security-service shows of a tenant's assets, scans, findings and   *)
(* SBOMs: the vulnerability list, the component index and graph, the heat  *)
(* map, the timeline and the score (services/security-analytics.ts and its *)
(* routes), and the dashboard (routes/dashboard.ts).  A view lists each    *)
(* collection it is made of with a query of its own, in any order, while   *)
(* other requests write.                                                   *)
(*                                                                         *)
(* A document has components, with their bom-ref or <<>>, and dependencies *)
(* of a ref on others.  Names are in lower case, as they are compared.     *)
(* Scores are counted in halves and factors in hundredths, not rounded.    *)
(***************************************************************************)
EXTENDS Integers, SequencesExt, FiniteSetsExt, Functions

CONSTANTS
  Assets,      \* assets there may be
  Kinds,       \* findings there may be: asset scanned, package, version, severity, age
  Documents,   \* SBOM documents that are posted
  Demo,        \* the demo data: its document, the asset it is of, the findings
  Statuses,    \* the statuses a finding is given
  Cap,         \* nodes of a graph: 50
  TopCount,    \* components on the dashboard: 5
  MaxWrites    \* bound on the requests that write

Collections == {"assets", "scans", "findings", "sboms", "components", "edges"}

\* The score and the dashboard; the graph, the components and the heat map;
\* the vulnerabilities, with the assets that a page lists beside them.
Views == {{"assets", "findings", "sboms"}, {"findings", "components", "edges"},
          {"findings", "scans", "assets"}}

VARIABLES
  database,  \* is there a PostgreSQL database?
  assets,
  scans,     \* the assets with a scan
  findings,  \* in the order of their creation: what they are and their status
  sboms,     \* the stored SBOMs, in the order of their creation
  index,     \* of an SBOM: its components and edges, or <<>>
  post,      \* a POST of an SBOM: where its handler is, for what
  got,       \* the collections that were listed
  todo,      \* the collections still to be listed
  writes,    \* requests so far that write
  removed,   \* history: assets that were removed
  during     \* history: the collections that grew while others were listed

vars == <<database, assets, scans, findings, sboms, index, post, got, todo, writes,
          removed, during>>
tables == <<assets, scans, findings, sboms, index>>
get    == <<got, todo>>

Severities == <<"critical", "high", "medium", "low", "info">>
Rank(severity) == CHOOSE n \in DOMAIN Severities : Severities[n] = severity

-----------------------------------------------------------------------------
(***************************************************************************)
(* The component index of a document.                                      *)
(***************************************************************************)

Id(c) == IF c.ref = <<>> THEN <<c.name, c.version>> ELSE c.ref

\* What a ref depends on: its last entry counts.
Children(doc, ref) ==
  LET mine == {n \in DOMAIN doc.dependencies : doc.dependencies[n].ref = ref}
  IN  IF mine = {} THEN {} ELSE ToSet(doc.dependencies[Max(mine)].on)

\* The distance from what the root depends on; 0 for what it never reaches.
Depths(doc) ==
  LET refs  == {doc.dependencies[n].ref : n \in DOMAIN doc.dependencies}
                 \union UNION {ToSet(doc.dependencies[n].on) : n \in DOMAIN doc.dependencies}
      level[n \in 0..Cardinality(refs)] ==
        IF n = 0 THEN Children(doc, doc.root)
        ELSE LET before == level[n - 1] IN UNION {Children(doc, r) : r \in before}
      Depth(ref) == LET ns == {n \in DOMAIN level : ref \in level[n]}
                    IN  IF ns = {} THEN 0 ELSE Min(ns)
  IN  [ref \in refs |-> IF doc.root = <<>> THEN 0 ELSE Depth(ref)]

ParseRawComponents(doc) ==
  LET depths == Depths(doc)
      DepthOf(id) == IF id \in DOMAIN depths THEN depths[id] ELSE 0
  IN  [components |-> [n \in DOMAIN doc.components |->
         LET c == doc.components[n]
         IN  [id |-> Id(c), name |-> c.name, version |-> c.version,
              ecosystem |-> c.ecosystem, depth |-> DepthOf(Id(c))]],
       edges |-> FlattenSeq([n \in DOMAIN doc.dependencies |->
         [k \in DOMAIN doc.dependencies[n].on |->
            [source |-> doc.dependencies[n].ref, target |-> doc.dependencies[n].on[k]]]])]

\* The rows of the index have keys, the map in memory has none.
Storable(doc) ==
  LET parsed == ParseRawComponents(doc)
  IN  /\ IsInjective([n \in DOMAIN parsed.components |-> parsed.components[n].id])
      /\ IsInjective(parsed.edges)

-----------------------------------------------------------------------------
NoPost == [at |-> "idle", asset |-> 0, sbom |-> 0]

Finding(kind) == [of |-> kind, status |-> "open"]

Init ==
  /\ database \in BOOLEAN
  /\ \/ /\ assets = {} /\ scans = {} /\ findings = <<>> /\ sboms = <<>> /\ index = <<>>
     \/ /\ assets = Assets /\ scans = {Demo.asset}
        /\ findings = [n \in DOMAIN Demo.findings |-> Finding(Demo.findings[n])]
        /\ sboms = <<[asset |-> Demo.asset, document |-> Demo.document]>>
        /\ index = <<ParseRawComponents(Demo.document)>>
  /\ post = NoPost
  /\ got = [c \in {} |-> 0] /\ todo \in Views
  /\ writes = 0 /\ removed = {} /\ during = {}

Listing == todo # {} /\ todo \notin Views

Grows(collection) ==
  during' = IF Listing THEN during \union {collection} ELSE during

Writes == writes < MaxWrites /\ writes' = writes + 1

AddAsset(a) ==
  /\ Writes /\ a \notin assets /\ assets' = assets \union {a}
  /\ Grows("assets")
  /\ UNCHANGED <<database, scans, findings, sboms, index, post, get, removed>>

\* Its scans, findings and SBOMs stay.
RemoveAsset(a) ==
  /\ Writes /\ a \in assets /\ assets' = assets \ {a}
  /\ removed' = removed \union {a}
  /\ UNCHANGED <<database, scans, findings, sboms, index, post, get, during>>

StartScan(a) ==
  /\ Writes /\ a \in assets \ scans /\ scans' = scans \union {a}
  /\ Grows("scans")
  /\ UNCHANGED <<database, assets, findings, sboms, index, post, get, removed>>

\* A finding of a scan; completing the scan again repeats it.
AddFinding(kind) ==
  /\ Writes /\ kind.asset \in scans /\ findings' = Append(findings, Finding(kind))
  /\ Grows("findings")
  /\ UNCHANGED <<database, assets, scans, sboms, index, post, get, removed>>

UpdateStatus(n, status) ==
  /\ Writes /\ findings' = [findings EXCEPT ![n].status = status]
  /\ UNCHANGED <<database, assets, scans, sboms, index, post, get, removed, during>>

-----------------------------------------------------------------------------
(***************************************************************************)
(* POST /v1/sboms: three awaits and a publish.                             *)
(***************************************************************************)

FindAsset(a) ==
  /\ Writes /\ post.at = "idle" /\ a \in assets
  /\ post' = [at |-> "found", asset |-> a, sbom |-> 0]
  /\ UNCHANGED <<database, tables, get, removed, during>>

CreateSbom(document) ==
  /\ post.at = "found"
  /\ sboms' = Append(sboms, [asset |-> post.asset, document |-> document])
  /\ index' = Append(index, <<>>)
  /\ post' = [post EXCEPT !.at = "stored", !.sbom = Len(sboms) + 1]
  /\ Grows("sboms")
  /\ UNCHANGED <<database, assets, scans, findings, get, writes, removed>>

ReplaceComponents ==
  LET document == sboms[post.sbom].document IN
  /\ post.at = "stored" /\ (database => Storable(document))
  /\ index' = [index EXCEPT ![post.sbom] = ParseRawComponents(document)]
  /\ post' = [post EXCEPT !.at = "indexed"]
  /\ Grows("components")
  /\ UNCHANGED <<database, assets, scans, findings, sboms, get, writes, removed>>

\* The transaction is rolled back; the SBOM stays, without an index.
IndexRefused ==
  /\ post.at = "stored" /\ database /\ ~Storable(sboms[post.sbom].document)
  /\ post' = NoPost
  /\ UNCHANGED <<database, tables, get, writes, removed, during>>

\* integration.sync.completed, and the answer.
AnnounceSbom ==
  /\ post.at = "indexed" /\ post' = NoPost
  /\ UNCHANGED <<database, tables, get, writes, removed, during>>

-----------------------------------------------------------------------------
(***************************************************************************)
(* A GET lists the collections.                                            *)
(***************************************************************************)

Parts(field) ==
  FlattenSeq([s \in DOMAIN index |->
    IF index[s] = <<>> THEN <<>>
    ELSE LET rows == IF field = "edges" THEN index[s].edges ELSE index[s].components
         IN  [n \in DOMAIN rows |-> rows[n] @@ [sbom |-> s]]])

List(c) ==
  /\ c \in todo /\ todo' = todo \ {c}
  /\ got' = got @@ (c :> CASE c = "assets"     -> assets
                           [] c = "scans"      -> scans
                           [] c = "findings"   -> findings
                           [] c = "sboms"      -> sboms
                           [] OTHER            -> Parts(c))
  /\ UNCHANGED <<database, tables, post, writes, removed, during>>

Next ==
  \/ \E a \in Assets : AddAsset(a) \/ RemoveAsset(a) \/ StartScan(a) \/ FindAsset(a)
  \/ \E kind \in Kinds : AddFinding(kind)
  \/ \E n \in DOMAIN findings, status \in Statuses : UpdateStatus(n, status)
  \/ \E document \in Documents : CreateSbom(document)
  \/ ReplaceComponents \/ IndexRefused \/ AnnounceSbom
  \/ \E c \in Collections : List(c)

Spec == Init /\ [][Next]_vars
-----------------------------------------------------------------------------
(***************************************************************************)
(* The views of services/security-analytics.ts.                            *)
(***************************************************************************)

Tenant == [c \in Collections |-> IF c \in DOMAIN got THEN got[c] ELSE <<>>]

Found(n) == Tenant["findings"][n].of
Matching(c) ==
  {n \in DOMAIN Tenant["findings"] :
     /\ Found(n).package = c.name
     /\ Found(n).version = "" \/ c.version = "" \/ Found(n).version = c.version}

\* The severity that is last in Severities, though it is called the highest;
\* 0 when there is none.
HighestSeverity(c) == LET ranks == {Rank(Found(n).severity) : n \in Matching(c)}
                      IN  IF ranks = {} THEN 0 ELSE Max(ranks)

WireComponents ==
  [k \in DOMAIN Tenant["components"] |->
     LET c == Tenant["components"][k]
     IN  c @@ [vulnerabilities |-> Cardinality(Matching(c)), highest |-> HighestSeverity(c)]]

\* Mutant: the nodes of an edge are not looked for.
AllEdges ==
  LET nodes == WireComponents
  IN  [nodes |-> IF Len(nodes) <= Cap THEN nodes ELSE SubSeq(nodes, 1, Cap),
       edges |-> Tenant["edges"]]

DependencyGraph ==
  LET nodes == WireComponents
      Place(k) == <<IF nodes[k].highest = 0 THEN Len(Severities) ELSE nodes[k].highest,
                    nodes[k].depth, k>>
      Before(j, k) == \/ Place(j)[1] < Place(k)[1]
                      \/ /\ Place(j)[1] = Place(k)[1]
                         /\ Place(j)[2] < Place(k)[2] \/ (Place(j)[2] = Place(k)[2] /\ j < k)
      kept == {k \in DOMAIN nodes :
                 Cardinality({j \in DOMAIN nodes : Before(j, k)}) < Cap}
      ids  == {nodes[k].id : k \in kept}
  IN  [nodes |-> [n \in 1..Cardinality(kept) |->
         nodes[CHOOSE k \in kept : Cardinality({j \in kept : Before(j, k)}) = n - 1]],
       edges |-> SelectSeq(Tenant["edges"], LAMBDA e : e.source \in ids /\ e.target \in ids)]

Open == {"open", "triaging", "in_progress"}

\* In halves of a point: what the findings of these numbers take off 100.
Penalty(numbers) ==
  LET Count(severity) == Cardinality({n \in numbers : Found(n).severity = severity})
  IN  20 * Count("critical") + 10 * Count("high") + 4 * Count("medium") + Count("low")

Composite(penalty) ==
  LET score == (201 - penalty) \div 2 IN IF score < 0 THEN 0 ELSE score

Numbers     == DOMAIN Tenant["findings"]
OpenNumbers == {n \in Numbers : Tenant["findings"][n].status \in Open}

Covered == {Tenant["sboms"][s].asset : s \in DOMAIN Tenant["sboms"]}

SecurityScore ==
  [hasData   |-> Tenant["assets"] # {} \/ Covered # {} \/ Numbers # {},
   composite |-> Composite(Penalty(OpenNumbers)),
   coverage  |-> IF Tenant["assets"] = {} THEN 100
                 ELSE (200 * Cardinality(Covered) + Cardinality(Tenant["assets"]))
                        \div (2 * Cardinality(Tenant["assets"])),
   critical  |-> Cardinality({n \in OpenNumbers : Found(n).severity = "critical"}),
   open      |-> Cardinality(OpenNumbers)]

Band(score) == IF score >= 90 THEN "A" ELSE IF score >= 75 THEN "B"
               ELSE IF score >= 60 THEN "C" ELSE IF score >= 40 THEN "D" ELSE "F"

\* Findings per day, of the last days.
VulnTimeline(days) ==
  [age \in 0..(days - 1) |-> [severity \in ToSet(Severities) |->
     Cardinality({n \in Numbers : Found(n).age = age /\ Found(n).severity = severity})]]

\* The ecosystem of a package is that of the last component of its name.
EcosystemOf(package) ==
  LET named == {k \in DOMAIN Tenant["components"] : Tenant["components"][k].name = package}
  IN  IF named = {} THEN "other" ELSE Tenant["components"][Max(named)].ecosystem

Ecosystems == {"npm", "pypi", "maven", "go", "rubygems", "cargo", "nuget", "other"}

RiskHeatmap ==
  [cell \in Ecosystems \X ToSet(Severities) |->
     Cardinality({n \in Numbers : EcosystemOf(Found(n).package) = cell[1]
                                   /\ Found(n).severity = cell[2]})]

\* The asset a vulnerability is shown with, 0 when its scan is not known.
AssetShown(n) == IF Found(n).asset \in Tenant["scans"] THEN Found(n).asset ELSE 0

-----------------------------------------------------------------------------
(***************************************************************************)
(* The dashboard, routes/dashboard.ts.                                     *)
(***************************************************************************)

\* The worst severity counts, and 12.5 for reach and exposure.
RiskOf(severity) ==
  CASE severity = "critical" -> 350 [] severity = "high" -> 280
    [] severity = "medium" -> 175 [] severity = "low" -> 88 [] OTHER -> 35

Packages == {<<Found(n).package, Found(n).version>> : n \in {m \in Numbers : Found(m).package # ""}}
Worst(package) ==
  Min({Rank(Found(n).severity) : n \in {m \in Numbers :
         <<Found(m).package, Found(m).version>> = package}})
FirstOf(package) ==
  Min({n \in Numbers : <<Found(n).package, Found(n).version>> = package})

\* The riskiest packages, those found first before those as risky.
TopRisky ==
  LET Above(p, q) == LET rp == RiskOf(Severities[Worst(p)])
                         rq == RiskOf(Severities[Worst(q)])
                     IN  rp > rq \/ (rp = rq /\ FirstOf(p) < FirstOf(q))
  IN  {p \in Packages : Cardinality({q \in Packages : Above(q, p)}) < TopCount}

Dashboard ==
  [sboms |-> Len(Tenant["sboms"]),
   counts |-> [severity \in ToSet(Severities) |->
                 Cardinality({n \in Numbers : Found(n).severity = severity})],
   score |-> Composite(Penalty(Numbers)), risky |-> TopRisky]

-----------------------------------------------------------------------------
TypeOK ==
  /\ database \in BOOLEAN /\ writes \in 0..MaxWrites
  /\ assets \union scans \union removed \subseteq Assets
  /\ \A n \in DOMAIN findings :
       findings[n].of \in Kinds \union ToSet(Demo.findings)
       /\ findings[n].status \in Statuses \union {"open"}
  /\ DOMAIN index = DOMAIN sboms
  /\ \A s \in DOMAIN sboms : sboms[s].asset \in Assets
  /\ post.at \in {"idle", "found", "stored", "indexed"} /\ post.sbom \in 0..Len(sboms)
  /\ DOMAIN got \intersect todo = {} /\ DOMAIN got \union todo \in Views
  /\ during \subseteq Collections

Answered(view) == DOMAIN got = view

\* An SBOM has its index unless its request is still at it, or its document
\* repeats a component or an edge and the database refuses that; the depth of
\* a component in it is the length of a path from the root, and no
\* dependency skips a level (sbom.ts:82-102, security-analytics.ts:255-330).
IndexFollows ==
  \A s \in DOMAIN sboms :
    LET document == sboms[s].document IN
    IF index[s] = <<>>
    THEN \/ post.at = "stored" /\ post.sbom = s
         \/ database /\ ~Storable(document)
    ELSE LET DepthOf(ref) == {index[s].components[n].depth : n \in
                               {m \in DOMAIN index[s].components :
                                  index[s].components[m].id = ref}}
             Parents(ref) == {d \in ToSet(index[s].edges) : d.target = ref}
         IN  /\ Len(index[s].components) = Len(document.components)
             /\ \A n \in DOMAIN index[s].components :
                  LET c == index[s].components[n] IN
                  c.depth > 0 =>
                    /\ \E e \in Parents(c.id) : c.depth - 1 \in DepthOf(e.source)
                    /\ \A e \in Parents(c.id) :
                         e.source # document.root /\ DepthOf(e.source) \ {0} # {} =>
                           c.depth <= 1 + Max(DepthOf(e.source))

\* The score and the dashboard agree as long as nothing was resolved, the
\* score is never the lower, and resolving a finding never lowers it
\* (security-analytics.ts:542-552, dashboard.ts:176-183).
SurfacesAgree ==
  Answered({"assets", "findings", "sboms"}) =>
    LET score == SecurityScore
        board == Dashboard
    IN  /\ score.composite >= board.score
        /\ OpenNumbers = Numbers => score.composite = board.score
        /\ \A n \in OpenNumbers : Composite(Penalty(OpenNumbers \ {n})) >= score.composite
        /\ score.critical > 1 => Band(score.composite) # "A"
        /\ score.critical <= board.counts["critical"]
        /\ \A p \in board.risky : \A q \in Packages \ board.risky : Worst(p) <= Worst(q)

\* Coverage is a part of the whole, unless an asset was removed or came while
\* the others were listed (security-analytics.ts:564-566).
CoverageIsAPart ==
  Answered({"assets", "findings", "sboms"}) /\ removed = {} /\ "assets" \notin during =>
    SecurityScore.coverage <= 100

\* A vulnerability is shown with its asset, and that asset is there, unless
\* its scan began or the asset came or went meanwhile
\* (security-analytics.ts:487-507).
AssetsAreShown ==
  Answered({"findings", "scans", "assets"}) /\ {"scans", "assets"} \intersect during = {} =>
    \A n \in Numbers : /\ AssetShown(n) = Found(n).asset
                       /\ AssetShown(n) \in Tenant["assets"] \union removed

\* The graph is bounded and closed, draws what is between the components it
\* shows, and has room for those whose findings are all serious
\* (security-analytics.ts:423-452).
GraphIsClosed ==
  Answered({"findings", "components", "edges"}) =>
    LET graph   == DependencyGraph
        nodes   == ToSet(graph.nodes)
        ids     == {c.id : c \in nodes}
        all     == WireComponents
        serious == {k \in DOMAIN all : all[k].highest \in 1..(Len(Severities) - 1)}
    IN  /\ Len(graph.nodes) <= Cap
        /\ \A e \in ToSet(graph.edges) : e.source \in ids /\ e.target \in ids
        /\ \A e \in ToSet(Tenant["edges"]) :
             {e.source, e.target} \subseteq ids => e \in ToSet(graph.edges)
        /\ Cardinality(serious) <= Cap => {all[k] : k \in serious} \subseteq nodes

\* Every finding is in one cell of the heat map, one day of a timeline that is
\* long enough, and counted with the components of its package
\* (security-analytics.ts:348-360, 625-684).
CountsAddUp ==
  Answered({"findings", "components", "edges"}) =>
    LET heat == RiskHeatmap
        time == VulnTimeline(7)
        recent == {n \in Numbers : Found(n).age < 7}
        board == Dashboard
        all == WireComponents
    IN  /\ SumFunctionOnSet(heat, DOMAIN heat) = Cardinality(Numbers)
        /\ \A severity \in ToSet(Severities) :
             /\ MapThenSumSet(LAMBDA age : time[age][severity], DOMAIN time)
                  = Cardinality({n \in recent : Found(n).severity = severity})
             /\ MapThenSumSet(LAMBDA eco : heat[<<eco, severity>>], Ecosystems)
                  = board.counts[severity]
        /\ \A k \in DOMAIN all : all[k].vulnerabilities > 0 =>
             heat[<<EcosystemOf(all[k].name), Severities[all[k].highest]>>] > 0

ViewsSound ==
  /\ IndexFollows /\ SurfacesAgree /\ CoverageIsAPart
  /\ AssetsAreShown /\ GraphIsClosed /\ CountsAddUp
=============================================================================

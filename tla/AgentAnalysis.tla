--------------------------- MODULE AgentAnalysis ---------------------------
(***************************************************************************)
(* The agents of agent-service that only compute, over the findings of one *)
(* task: triage.findings scores them by rules, and may then ask a language *)
(* model, whose reply may move the priority by one level; and              *)
(* remediation.propose groups them by package and chooses, for each        *)
(* package, the version to upgrade to.                                     *)
(*                                                                         *)
(* Priorities P1 to P4 are 1 to 4; an EPSS probability is in percent, 0 if *)
(* it is not known, and of the other optional fields "" says that they are *)
(* absent.  A version is a string, which parseVersion may read as release  *)
(* segments, and a rank that puts a pre-release below the release and a    *)
(* post-release above it.                                                  *)
(***************************************************************************)
EXTENDS Integers, SequencesExt

CONSTANTS
  Inputs,   \* the sequences of findings that tasks come with
  Parsed,   \* of an ecosystem, what each version it can read is read as
  None      \* no result yet

VARIABLES
  model,      \* the configuration of the language model
  findings,   \* the findings of the task
  pc,         \* where triage is
  heuristic,  \* the result by rules
  triaged,    \* the result of triage.findings
  proposed    \* the result of remediation.propose, by package

vars == <<model, findings, pc, heuristic, triaged, proposed>>

-----------------------------------------------------------------------------
(***************************************************************************)
(* Triage (triage.ts).                                                     *)
(***************************************************************************)

SeverityBase ==
  [critical |-> 80, high |-> 60, medium |-> 35, low |-> 15, informational |-> 5]

LOCAL Add(condition, points) == IF condition THEN points ELSE 0

ScoreFinding(f) ==
    SeverityBase[f.severity]
  + Add(f.kev, 25)
  + Add(f.epss >= 50, 15)
  + Add(f.exposure = "internet", 10)
  + Add(f.criticality = "critical", 10) + Add(f.criticality = "high", 5)
  - Add(f.fixAvailable = "no", 5)

PriorityForScore(score) ==
  CASE score >= 80 -> 1
    [] score >= 60 /\ score < 80 -> 2
    [] score >= 35 /\ score < 60 -> 3
    [] score < 35 -> 4

DecisionForPriority(priority) ==
  CASE priority \in {1, 2} -> "open_incident"
    [] priority = 3 -> "create_ticket"
    [] priority = 4 -> "log_only"

\* The highest score decides; without findings there is nothing but a log line.
HeuristicTriage(fs) ==
  LET scores   == [i \in DOMAIN fs |-> ScoreFinding(fs[i])]
      priority == IF fs = <<>> THEN 4 ELSE PriorityForScore(Max(Range(scores)))
      Count(s) == Len(SelectSeq(fs, LAMBDA f : f.severity = s))
  IN  [decision |-> DecisionForPriority(priority), priority |-> priority,
       perFinding |-> [i \in DOMAIN fs |-> PriorityForScore(scores[i])],
       critical |-> Count("critical"), high |-> Count("high"), engine |-> "heuristic"]

ClampWithinOneLevel(rule, proposal) == rule - proposal \in -1 .. 1

\* The decision follows the priority, whatever decision the model proposed.
Refined(result, reply) ==
  IF ClampWithinOneLevel(result.priority, reply.priority)
  THEN [result EXCEPT !.decision = DecisionForPriority(reply.priority),
                      !.priority = reply.priority, !.engine = "llm"]
  ELSE result

-----------------------------------------------------------------------------
(***************************************************************************)
(* Proposals (remediation.ts).                                             *)
(***************************************************************************)

Readable(ecosystem, raw) == raw \in DOMAIN Parsed[ecosystem]
ParseVersion(ecosystem, raw) == Parsed[ecosystem][raw]

Segment(v, i) == IF i \in DOMAIN v.release THEN v.release[i] ELSE 0

\* compareVersions(v, w) < 0: missing segments count as 0.
Below(v, w) ==
  LET places == DOMAIN v.release \union DOMAIN w.release
      Same(i) == Segment(v, i) = Segment(w, i)
  IN  \/ \E i \in places : /\ Segment(v, i) < Segment(w, i)
                           /\ \A j \in 1 .. i - 1 : Same(j)
      \/ (\A i \in places : Same(i)) /\ v.rank < w.rank
SameVersion(v, w) == ~Below(v, w) /\ ~Below(w, v)

\* Of versions, one that no other is below, and one that is below no other.
Lowest(versions)  == CHOOSE v \in versions : \A w \in versions : ~Below(w, v)
Highest(versions) == CHOOSE v \in versions : \A w \in versions : ~Below(v, w)

BumpType(from, to) ==
  CASE SameVersion(from, to) -> "none"
    [] Segment(to, 1) # Segment(from, 1) -> "major"
    [] Segment(to, 1) = Segment(from, 1) /\ Segment(to, 2) # Segment(from, 2) -> "minor"
    [] OTHER -> "patch"
RiskByBump ==
  [none |-> "low", major |-> "high", minor |-> "medium", patch |-> "low", unknown |-> "high"]

FindingLabel(f) ==
  IF f.cveId # "" THEN f.cveId ELSE IF f.id # "" THEN f.id ELSE "unknown"

Packages(fs) == {f.package : f \in Range(fs)}
Group(fs, package) == SelectSeq(fs, LAMBDA f : f.package = package)

\* The fixed versions of a finding at or above the installed one; another
\* release line's say nothing about it.
Candidates(f, ecosystem, current) ==
  LET readable == {raw \in Range(f.fixedVersions) : Readable(ecosystem, raw)}
  IN  {v \in {ParseVersion(ecosystem, raw) : raw \in readable} : ~Below(v, current)}

\* The first of the fixed versions that reads as the target, in the order of
\* the findings.
RawOf(target, group, ecosystem) ==
  LET raws == FlattenSeq([i \in DOMAIN group |-> group[i].fixedVersions])
      Reads(raw) == /\ Readable(ecosystem, raw)
                    /\ SameVersion(ParseVersion(ecosystem, raw), target)
  IN  SelectSeq(raws, Reads)[1]

\* A group takes the installed version of its first finding.  Each finding
\* asks for its lowest fix; the highest of them is the target.
Proposal(fs, package) ==
  LET group     == Group(fs, package)
      ecosystem == package.ecosystem
      from      == group[1].version
      current   == ParseVersion(ecosystem, from)
      fixes     == [i \in DOMAIN group |-> Candidates(group[i], ecosystem, current)]
      target    == Highest({current} \union {Lowest(fixes[i]) : i \in DOMAIN group})
      Over(to, bump, status) ==
        [from |-> from, to |-> to, bump |-> bump, risk |-> RiskByBump[bump],
         resolves |-> {FindingLabel(f) : f \in Range(group)}, status |-> status]
  IN  IF ~Readable(ecosystem, from) THEN Over(from, "unknown", "manual_review")
      ELSE IF \E i \in DOMAIN group : fixes[i] = {} THEN [status |-> "unresolved"]
      ELSE Over(IF Below(current, target) THEN RawOf(target, group, ecosystem) ELSE from,
                BumpType(current, target), "ok")

ProposeRemediation(fs) == [package \in Packages(fs) |-> Proposal(fs, package)]

-----------------------------------------------------------------------------
Init ==
  /\ model \in {"disabled", "no key", "enabled"}
  /\ findings \in Inputs
  /\ pc = "queued"
  /\ heuristic = None /\ triaged = None
  /\ proposed = None

\* remediation.propose runs, a pure function of the findings.
Propose ==
  /\ proposed = None
  /\ proposed' = ProposeRemediation(findings)
  /\ UNCHANGED <<model, findings, pc, heuristic, triaged>>

\* triage.findings: the rules; and the request to the model, if there is one.
Triage ==
  /\ pc = "queued"
  /\ heuristic' = HeuristicTriage(findings)
  /\ IF model = "enabled"
     THEN pc' = "asked" /\ triaged' = triaged
     ELSE pc' = "done" /\ triaged' = heuristic'
  /\ UNCHANGED <<model, findings, proposed>>

\* A reply that has the shape that was asked for.
Replied ==
  /\ pc = "asked"
  /\ \E reply \in [priority : 1 .. 4, decision : {"open_incident", "create_ticket", "log_only"}] :
       triaged' = Refined(heuristic, reply)
  /\ pc' = "done"
  /\ UNCHANGED <<model, findings, heuristic, proposed>>

\* No answer in time, one that is not 2xx, or a body of another shape: the
\* result by rules stands.
NotRefined ==
  /\ pc = "asked"
  /\ triaged' = heuristic /\ pc' = "done"
  /\ UNCHANGED <<model, findings, heuristic, proposed>>

Next == Propose \/ Triage \/ Replied \/ NotRefined

Spec == Init /\ [][Next]_vars

-----------------------------------------------------------------------------
TypeOK ==
  /\ model \in {"disabled", "no key", "enabled"}
  /\ findings \in Inputs
  /\ pc \in {"queued", "asked", "done"}
  /\ (heuristic = None) = (pc = "queued")
  /\ (triaged = None) = (pc # "done")
  /\ proposed # None => DOMAIN proposed = Packages(findings)

\* The model refines and does not decide: the priority moves by one level at
\* most, the decision is that of the priority, the scores stay, and a result
\* that names the rules as its engine is theirs (triage.ts:237-331).
RefinementBounded ==
  triaged # None =>
    /\ triaged.decision = DecisionForPriority(triaged.priority)
    /\ triaged.priority - heuristic.priority \in -1 .. 1
    /\ triaged.perFinding = heuristic.perFinding
    /\ triaged.engine = "heuristic" => triaged = heuristic
    /\ triaged.engine = "llm" => model = "enabled"

\* A task is as urgent as its most urgent finding, and no less urgent than
\* it would be without any one of them (triage.ts:142-156).
TriageOfTheWorst ==
  heuristic # None =>
    \A i \in DOMAIN findings :
      /\ heuristic.priority <= heuristic.perFinding[i]
      /\ \E j \in DOMAIN findings : heuristic.priority = heuristic.perFinding[j]
      /\ heuristic.priority <= HeuristicTriage(RemoveAt(findings, i)).priority

\* Whether upgrading a package from one version to another resolves the
\* findings: each has a fix between the two.
Resolves(group, ecosystem, current, v) ==
  \A f \in Range(group) : \E fix \in Candidates(f, ecosystem, current) : ~Below(v, fix)

\* A proposal resolves every finding of its package, and no lower version
\* does; it is never a downgrade, and it names no bump exactly when nothing
\* changes. Only without such a version is a package unresolved
\* (remediation.ts:229-316).
LeastUpgrade ==
  proposed # None =>
    \A package \in Packages(findings) :
      LET group     == Group(findings, package)
          ecosystem == package.ecosystem
          current   == ParseVersion(ecosystem, group[1].version)
          fixes     == UNION {Candidates(f, ecosystem, current) : f \in Range(group)}
          proposal  == proposed[package]
          to        == ParseVersion(ecosystem, proposal.to)
          Enough(v) == Resolves(group, ecosystem, current, v)
      IN  CASE proposal.status = "ok" ->
                 /\ Enough(to) /\ ~Below(to, current)
                 /\ \A v \in fixes \union {current} : Below(v, to) => ~Enough(v)
                 /\ (proposal.bump = "none") = SameVersion(to, current)
            [] proposal.status = "unresolved" -> \A v \in fixes : ~Enough(v)
            [] proposal.status = "manual_review" -> ~Readable(ecosystem, group[1].version)

\* The order of the findings does not matter, where those of a package agree
\* on its installed version: it may change the text of a version, and
\* nothing else (remediation.ts:246-332).
OrderIrrelevant ==
  proposed # None =>
    \A order \in Permutations(DOMAIN findings) :
      LET others == ProposeRemediation([i \in DOMAIN findings |-> findings[order[i]]])
      IN  \A package \in Packages(findings) :
            LET ecosystem == package.ecosystem
                one == proposed[package]
                two == others[package]
            IN  Cardinality({f.version : f \in Range(Group(findings, package))}) = 1 =>
                  /\ one.status = two.status
                  /\ one.status = "ok" =>
                       /\ SameVersion(ParseVersion(ecosystem, one.to),
                                      ParseVersion(ecosystem, two.to))
                       /\ one.bump = two.bump /\ one.resolves = two.resolves

AnalysisSound ==
  /\ RefinementBounded
  /\ TriageOfTheWorst
  /\ LeastUpgrade
  /\ OrderIrrelevant
=============================================================================

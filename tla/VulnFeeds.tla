----------------------------- MODULE VulnFeeds -----------------------------
(***************************************************************************)
(* How vuln-intel reads a feed (sources/nvd.py, ghsa.py, osv.py,           *)
(* validators.py, scoring.py) page by page, while advisories are published *)
(* and withdrawn, what record it makes of an advisory, and which versions  *)
(* its matcher then calls affected (matcher.py).                           *)
(*                                                                         *)
(* The records of a page are taken without suspending, so a page is one    *)
(* step.  fetch_one() makes the same record of an advisory.  That has      *)
(*   id, aliases  its names; those that begin with CVE- are in CveIds      *)
(*   fits         does the schema of its feed accept it                    *)
(*   sane         does the record type accept it (a purl begins with pkg:) *)
(*   label        the severity in words, of GitHub                         *)
(*   metrics      CVSS entries: kind, primary, parses, score in tenths, and*)
(*                whether OSV gives the score beside the vector            *)
(*   ranges       of the versions of its package: bounds <<word, version>> *)
(* A severity is its rank, UNKNOWN is -1.  A version is 3k for "k.0", 3k+1 *)
(* for "k.0.0" and 3k+2 for "k.0.0-rc": the first has no three numbers.    *)
(***************************************************************************)
EXTENDS Integers, FiniteSets, SequencesExt

CONSTANTS
  Listings,    \* [feed, items]: what the feeds list at first
  Published,   \* advisories that may be published meanwhile
  CveIds,
  PageSize,
  Versions,    \* of components
  Limits,      \* max_per_source, 0 for none
  MaxPages,    \* bound on the pages of a fetch
  MaxChanges   \* bound on the changes upstream

VARIABLES
  feed,       \* the source that is asked
  limit,
  upstream,   \* its listing
  start,      \* how many advisories the next page skips
  pages,      \* the pages that were asked for
  got,        \* the advisories whose records were yielded, and stored
  state,      \* "asking", "ended" or "failed"
  audited,    \* what the audit log says was accepted
  changes,
  always,     \* history: the advisories that were listed all the time
  slipped,    \* history: one was withdrawn that the pages had passed
  pushed      \* history: one was published before the next page

vars == <<feed, limit, upstream, start, pages, got, state, audited, changes,
          always, slipped, pushed>>

Unknown == -1
Absent  == -2
NoBound == -1

-----------------------------------------------------------------------------
(***************************************************************************)
(* scoring.py: severities are ranks, scores are tenths.                    *)
(***************************************************************************)

\* cvss3_severity_from_score(), cvss4_severity_from_score().
SeverityFromScore(score) ==
  IF score = 0 THEN 0
  ELSE IF score \in 1..39 THEN 1
  ELSE IF score \in 40..69 THEN 2
  ELSE IF score \in 70..89 THEN 3
  ELSE IF score \in 90..100 THEN 4
  ELSE Unknown

\* The "rough v2->v3 mapping": 2.5 times the score, rounded up.
SeverityFromV2(score) == SeverityFromScore((5 * score + 1) \div 2)

\* Mutant: the first of them that there is.
AggregateFirst(severities, fallback) ==
  LET there == SelectSeq(severities, LAMBDA s : s # Absent)
  IN  IF there = <<>> THEN fallback ELSE Head(there)

\* aggregate_severity() of CVSS v4, v3 and v2: the gravest, which is the
\* fallback when nothing is graver.
AggregateSeverity(severities, fallback) ==
  FoldLeft(LAMBDA worst, s : IF s > worst THEN s ELSE worst, fallback, severities)

-----------------------------------------------------------------------------
(***************************************************************************)
(* normalize_nvd(), normalize_ghsa(), normalize_osv().                     *)
(***************************************************************************)

\* The last of the entries that P selects decides.
Decides(entries, P(_), Severity(_)) ==
  LET k == SelectLastInSeq(entries, P)
  IN  IF k = 0 THEN Absent ELSE Severity(entries[k])

OfScore(m) == SeverityFromScore(m.score)

\* _select_cvss(): the containers in order, up to the first Primary entry.
Considered(metrics) ==
  LET Kind(kind) == SelectSeq(metrics, LAMBDA m : m.kind = kind /\ m.parses)
      all == Kind("v40") \o Kind("v31") \o Kind("v30") \o Kind("v2")
      cut == SelectInSeq(all, LAMBDA m : m.primary)
  IN  IF cut = 0 THEN all ELSE SubSeq(all, 1, cut)

NvdSeverity(item) ==
  LET entries == Considered(item.metrics)
  IN  AggregateSeverity(
        << Decides(entries, LAMBDA m : m.kind = "v40", OfScore),
           Decides(entries, LAMBDA m : m.kind \in {"v31", "v30"}, OfScore),
           Decides(entries, LAMBDA m : m.kind = "v2", LAMBDA m : SeverityFromV2(m.score)) >>,
        Unknown)

\* `cvss` is an object, and its keys are not: no score of GitHub is read.
GhsaSeverity(item) == AggregateSeverity(<<Absent, Absent, Absent>>, item.label)

\* A version 4 vector without a score beside it counts as 0.0; version 2 is
\* not read.
OsvSeverity(item) ==
  AggregateSeverity(
    << Decides(item.metrics, LAMBDA m : m.kind = "v40" /\ m.parses,
               LAMBDA m : SeverityFromScore(IF m.given THEN m.score ELSE 0)),
       Decides(item.metrics, LAMBDA m : m.kind \in {"v31", "v30"} /\ m.parses, OfScore),
       Absent >>,
    Unknown)

Bound(range, words) ==
  LET k == SelectLastInSeq(range.bounds, LAMBDA b : b[1] \in words)
  IN  IF k = 0 THEN NoBound ELSE range.bounds[k][2]

Range3(from, fixed, last) == [introduced_in |-> from, fixed |-> fixed, last_affected |-> last]

Bounded(r) == {r.introduced_in, r.fixed, r.last_affected} # {NoBound}

\* _affected_packages_from_nvd(): neither the version that the criteria name
\* nor an exclusive start is read.
NvdRanges(item) ==
  LET vulnerable == SelectSeq(item.ranges, LAMBDA r : r.vulnerable)
  IN  [k \in DOMAIN vulnerable |->
        Range3(Bound(vulnerable[k], {"from"}), Bound(vulnerable[k], {"before"}),
               Bound(vulnerable[k], {"upto"}))]

\* _affected_from_ghsa(): `<=` is read as `<`, `>` as `>=`, `=` not at all.
GhsaRanges(item) ==
  SelectSeq([k \in DOMAIN item.ranges |->
              Range3(Bound(item.ranges[k], {"from", "after"}),
                     Bound(item.ranges[k], {"before", "upto"}), NoBound)],
            Bounded)

\* _affected_from_osv(): the last event of each kind in a range.
OsvRanges(item) ==
  SelectSeq([k \in DOMAIN item.ranges |->
              Range3(Bound(item.ranges[k], {"from"}), Bound(item.ranges[k], {"before"}),
                     Bound(item.ranges[k], {"upto"}))],
            Bounded)

FirstCve(names, otherwise) ==
  LET k == SelectInSeq(names, LAMBDA n : n \in CveIds)
  IN  IF k = 0 THEN otherwise ELSE names[k]

Record(source, id, severity, ranges) ==
  [source |-> source, id |-> id, severity |-> severity, versions |-> ranges]

Normalize(source, item) ==
  CASE source = "nvd"  -> Record(source, item.id, NvdSeverity(item), NvdRanges(item))
    [] source = "ghsa" -> Record(source, FirstCve(item.aliases, item.id),
                                 GhsaSeverity(item), GhsaRanges(item))
    [] source = "osv"  -> Record(source, FirstCve(item.aliases, item.id),
                                 OsvSeverity(item), OsvRanges(item))

-----------------------------------------------------------------------------
(***************************************************************************)
(* version_in_range(): a version of three numbers is compared with bounds  *)
(* of three numbers only, any other one as a string with all of them.      *)
(***************************************************************************)
Parses(v) == v % 3 # 0

InRange(v, r) ==
  LET Counts(b) == b # NoBound /\ (Parses(v) => Parses(b))
  IN  /\ Counts(r.introduced_in) => v >= r.introduced_in
      /\ Counts(r.fixed) => v < r.fixed
      /\ Counts(r.last_affected) => v <= r.last_affected

VersionInRange(v, rec) == \E k \in DOMAIN rec.versions : InRange(v, rec.versions[k])

-----------------------------------------------------------------------------
(***************************************************************************)
(* A fetch, as ingest() consumes it.                                       *)
(***************************************************************************)
Init ==
  /\ \E listing \in Listings : feed = listing.feed /\ upstream = listing.items
  /\ limit \in Limits
  /\ start = 0 /\ pages = 0 /\ got = <<>> /\ state = "asking" /\ audited = 0
  /\ changes = 0 /\ always = ToSet(upstream) /\ slipped = FALSE /\ pushed = FALSE

\* validate_record(): the validator that NVD's items are given is that of a
\* whole page, which none of them is.
Valid(item) == feed # "nvd" /\ item.fits

\* What the next page holds.
Page ==
  SubSeq(upstream, start + 1,
         IF start + PageSize > Len(upstream) THEN Len(upstream) ELSE start + PageSize)

\* The records up to the limit, or up to one that the record type rejects.
Taken ==
  LET valid == SelectSeq(Page, Valid)
      bad   == SelectInSeq(valid, LAMBDA i : ~i.sane)
      sane  == IF bad = 0 THEN valid ELSE SubSeq(valid, 1, bad - 1)
      room  == limit - Len(got)
      full  == limit > 0 /\ Len(sane) >= room
  IN  [items |-> IF full THEN SubSeq(sane, 1, room) ELSE sane,
       stops |-> full,
       fails |-> ~full /\ bad > 0]

\* NVD says how many there are, GitHub gives a short page last, and OSV says
\* whether there are more.
NvdIsLast  == start + PageSize >= Len(upstream)
GhsaIsLast == Len(Page) < PageSize
OsvIsLast  == Len(Page) = Len(upstream)

LastPage ==
  CASE feed = "nvd"  -> NvdIsLast
    [] feed = "ghsa" -> GhsaIsLast
    [] feed = "osv"  -> OsvIsLast

\* The token of the next page is not sent back to OSV.
Following == IF feed = "osv" THEN start ELSE start + PageSize

\* The fetch is over, and the audit log has what was accepted.
Ends(n) == state' = "ended" /\ audited' = n

Answered ==
  /\ state = "asking" /\ pages < MaxPages /\ pages' = pages + 1
  /\ LET taken == Taken
     IN  /\ got' = got \o taken.items
         /\ \/ /\ taken.stops \/ (~taken.fails /\ LastPage)
               /\ Ends(Len(got')) /\ UNCHANGED start
            \/ taken.fails /\ state' = "failed" /\ UNCHANGED <<start, audited>>
            \/ /\ ~taken.stops /\ ~taken.fails /\ ~LastPage
               /\ start' = Following /\ UNCHANGED <<state, audited>>
  /\ UNCHANGED <<feed, limit, upstream, changes, always, slipped, pushed>>

\* The source does not answer: what was yielded stays, the rest is not asked
\* for.
Fails ==
  /\ state = "asking" /\ state' = "failed"
  /\ UNCHANGED <<feed, limit, upstream, start, pages, got, audited, changes,
                 always, slipped, pushed>>

-----------------------------------------------------------------------------
(***************************************************************************)
(* Upstream.  GitHub lists the newest first, NVD and OSV the oldest.       *)
(***************************************************************************)
Change == state = "asking" /\ changes < MaxChanges /\ changes' = changes + 1

Elsewhere == <<feed, limit, start, pages, got, state, audited>>

Publish(item) ==
  /\ Change /\ item \notin ToSet(upstream)
  /\ upstream' = IF feed = "ghsa" THEN <<item>> \o upstream ELSE Append(upstream, item)
  /\ pushed' = (pushed \/ (feed = "ghsa" /\ start > 0))
  /\ UNCHANGED <<Elsewhere, always, slipped>>

Withdraw(k) ==
  /\ Change /\ k \in DOMAIN upstream
  /\ upstream' = RemoveAt(upstream, k)
  /\ always' = always \ {upstream[k]}
  /\ slipped' = (slipped \/ k <= start)
  /\ UNCHANGED <<Elsewhere, pushed>>

Next ==
  \/ Answered \/ Fails
  \/ \E item \in Published : Publish(item)
  \/ \E k \in DOMAIN upstream : Withdraw(k)

Spec == Init /\ [][Next]_vars

-----------------------------------------------------------------------------
TypeOK ==
  /\ feed \in {"nvd", "ghsa", "osv"} /\ limit \in Limits
  /\ \A item \in ToSet(upstream) \union ToSet(got) :
       item \in Published \/ \E listing \in Listings : item \in ToSet(listing.items)
  /\ start \in Nat /\ pages \in 0..MaxPages /\ changes \in 0..MaxChanges
  /\ state \in {"asking", "ended", "failed"} /\ audited \in 0..Len(got)
  /\ always \subseteq ToSet(upstream)
  /\ slipped \in BOOLEAN /\ pushed \in BOOLEAN

\* A fetch that ends by itself has yielded every advisory that its schema
\* accepts and that was listed all the time, unless a withdrawal moved it to
\* a page that was already read (nvd.py:289-331, ghsa.py:257-292,
\* osv.py:282-317).
FetchComplete ==
  state = "ended" /\ limit = 0 /\ ~slipped =>
    \A item \in always : Valid(item) => item \in ToSet(got)

\* None is yielded twice, unless new ones push it to the next page; but OSV
\* gives its first page again and again (osv.py:283).
OnceEach == feed = "osv" \/ pushed \/ IsInjective(got)

\* Nothing beyond the limit is stored, and the audit log has every record
\* that was stored by a fetch that ended (api/app.py:172-213).
Accounted ==
  /\ limit = 0 \/ Len(got) <= limit
  /\ state = "ended" => audited = Len(got)

\* An advisory that has a CVE id is kept under it, whatever feed it came from,
\* so that the feeds' records of one vulnerability meet (ghsa.py:46-50,
\* osv.py:207-212).
KeptByCve ==
  \A item \in ToSet(upstream) :
    CveIds \intersect (ToSet(item.aliases) \union {item.id}) # {}
      => Normalize(feed, item).id \in CveIds

\* What the advisory itself says of a version: within all the bounds of a
\* range; or, for OSV, after an introduction with no fix since.
Age(v) == IF v % 3 = 2 THEN 2 * (v \div 3) - 1 ELSE 2 * (v \div 3)

Within(v, b) ==
  CASE b[1] = "from"   -> Age(v) >= Age(b[2])
    [] b[1] = "after"  -> Age(v) > Age(b[2])
    [] b[1] = "before" -> Age(v) < Age(b[2])
    [] b[1] = "upto"   -> Age(v) <= Age(b[2])
    [] b[1] = "is"     -> Age(v) = Age(b[2])

SaysAffected(source, item, v) ==
  \E r \in ToSet(item.ranges) :
    IF source = "osv"
    THEN \E i \in ToSet(r.bounds) :
           /\ i[1] = "from" /\ Age(i[2]) <= Age(v)
           /\ \A b \in ToSet(r.bounds) :
                b[1] # "from" /\ Age(b[2]) >= Age(i[2]) => Within(v, b)
    ELSE r.vulnerable /\ \A b \in ToSet(r.bounds) : Within(v, b)

\* A range of which the record has all: no word that the code misreads, one
\* introduction, and bounds of which none is a variant of the version.
Plain(source, item, v) ==
  \A r \in ToSet(item.ranges) :
    /\ \A b \in ToSet(r.bounds) :
         /\ b[1] \in {"from", "before"} \union (IF source = "ghsa" THEN {} ELSE {"upto"})
         /\ Parses(b[2]) = Parses(v) \/ b[2] = 0
         /\ b[2] \div 3 = v \div 3 => b[2] = v
    /\ r.bounds # <<>>
    /\ source = "osv" => Cardinality({k \in DOMAIN r.bounds : r.bounds[k][1] = "from"}) = 1

\* Of such ranges the matcher says what the advisory says, version by version
\* (matcher.py:80-109).
RangesAgree ==
  \A item \in ToSet(upstream) :
    LET rec == Normalize(feed, item)
    IN  \A v \in Versions :
          Plain(feed, item, v) => (VersionInRange(v, rec) <=> SaysAffected(feed, item, v))

\* A severity is never below that of the one vector that decides it: the only
\* Primary one of NVD, unless it is of version 2 and above 4.0, which counts as
\* unknown; or the only one of OSV, of version 3 (scoring.py:217-220,
\* nvd.py:103-126, osv.py:82-141).
Decisive(source, metrics, m) ==
  /\ m.parses
  /\ \/ /\ source = "nvd" /\ m.primary /\ (m.kind # "v2" \/ m.score <= 40)
        /\ \A n \in ToSet(metrics) : n.primary => n = m
     \/ source = "osv" /\ m.kind = "v31" /\ ToSet(metrics) = {m}

NeverUnderstated ==
  \A item \in ToSet(upstream) : \A m \in ToSet(item.metrics) :
    Decisive(feed, item.metrics, m) => Normalize(feed, item).severity >= OfScore(m)

FeedsSound ==
  FetchComplete /\ OnceEach /\ Accounted /\ KeptByCve /\ RangesAgree /\ NeverUnderstated
=============================================================================

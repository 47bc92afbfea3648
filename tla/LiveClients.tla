---------------------------- MODULE LiveClients ----------------------------
(***************************************************************************)
(* The list routes of kubernetes-service (routes/kubernetes.ts), from the  *)
(* cluster they pick to the client they call it with, and the cache of     *)
(* clients in live.provider.ts, while clusters are created, patched and    *)
(* deleted.                                                                *)
(*                                                                         *)
(* Every await is a place where other requests run.  A connection is the   *)
(* number of the credentials it was made of; the fingerprints of two       *)
(* connections differ when the connections do.  There is one tenant (keys  *)
(* and queries are scoped by it), and no request names a provider.         *)
(***************************************************************************)
EXTENDS Integers, Sequences, Functions

CONSTANTS
  Clusters,
  MaxEntries,    \* MAX_CACHE_ENTRIES
  MaxVersions,   \* bound on the connections of a cluster
  MaxGets        \* bound on the list requests

VARIABLES
  default,    \* AICC_K8S_PROVIDER: "fixture" or "live", fixed when it is deployed
  conn,       \* the connection in the repository, 0 when there is no cluster
  fresh,      \* clusters whose id was never given out
  evictions,  \* clusters that were patched or deleted, their eviction to come
  cache,      \* <<cluster, connection>> of the entries, oldest first
  pc,         \* where clientsFor() is in a request
  on,         \* the cluster of a request
  held,       \* the connection it was given
  named,      \* has clusterNameFor() found the name
  failed,     \* was the request answered with an error
  answer,     \* the connection it was served with, Fixture, or 0
  gets,       \* requests so far
  seen,       \* history: connections its cluster had during a request
  crossed     \* history: clusters changed while clientsFor() held a connection

vars == <<default, conn, fresh, evictions, cache, pc, on, held, named, failed, answer, gets,
          seen, crossed>>
clusters == <<default, conn, fresh, evictions>>

\* The requests, numbered as they come.
Requests == 1..MaxGets

\* The answer of FixtureProvider.
Fixture == MaxVersions + 1

AnyCluster == CHOOSE c \in Clusters : TRUE

Init ==
  /\ default \in {"fixture", "live"}
  /\ conn = [c \in Clusters |-> 0] /\ fresh = Clusters
  /\ evictions = {} /\ cache = <<>> /\ gets = 0 /\ crossed = {}
  /\ pc = [q \in Requests |-> "idle"]
  /\ on = [q \in Requests |-> AnyCluster]
  /\ held = [q \in Requests |-> 0]
  /\ named = [q \in Requests |-> FALSE] /\ failed = [q \in Requests |-> FALSE]
  /\ answer = [q \in Requests |-> 0]
  /\ seen = [q \in Requests |-> {}]

-----------------------------------------------------------------------------
(***************************************************************************)
(* POST, PATCH and DELETE /v1/kubernetes/clusters.                         *)
(***************************************************************************)

Holding(c) == {q \in Requests : on[q] = c /\ pc[q] = "check"}

Changes(c, to) ==
  /\ conn' = [conn EXCEPT ![c] = to]
  /\ seen' = [q \in Requests |->
       IF pc[q] # "idle" /\ on[q] = c THEN seen[q] \union {to} ELSE seen[q]]
  /\ crossed' = IF Holding(c) = {} THEN crossed ELSE crossed \union {c}
  /\ UNCHANGED <<default, cache, pc, on, held, named, failed, answer, gets>>

Create(c) ==
  /\ c \in fresh /\ fresh' = fresh \ {c}
  /\ Changes(c, 1) /\ UNCHANGED evictions

Update(c) ==
  /\ conn[c] \in 1..(MaxVersions - 1)
  /\ Changes(c, conn[c] + 1)
  /\ evictions' = evictions \union {c} /\ UNCHANGED fresh

Delete(c) ==
  /\ conn[c] > 0
  /\ Changes(c, 0)
  /\ evictions' = evictions \union {c} /\ UNCHANGED fresh

Without(c) == SelectSeq(cache, LAMBDA e : e[1] # c)

EvictLive(c) ==
  /\ c \in evictions /\ evictions' = evictions \ {c}
  /\ cache' = Without(c)
  /\ UNCHANGED <<default, conn, fresh, pc, on, held, named, failed, answer, gets, seen, crossed>>

-----------------------------------------------------------------------------
(***************************************************************************)
(* GET: pickCluster(), getProvider(), then clientsFor() and                *)
(* clusterNameFor() at once.                                               *)
(***************************************************************************)

Request == <<on, held, named, failed, answer, gets, seen>>

Goes(q, from, to) == pc[q] = from /\ pc' = [pc EXCEPT ![q] = to]

\* clusters.list() holds the cluster; without one the answer is 404.
Get(q, c) ==
  /\ Goes(q, "idle", "provider")
  /\ q = gets + 1 /\ gets' = q
  /\ conn[c] > 0
  /\ on' = [on EXCEPT ![q] = c]
  /\ seen' = [seen EXCEPT ![q] = {conn[c]}]
  /\ UNCHANGED <<clusters, cache, crossed, held, named, failed, answer>>

\* The request is over, and nothing of it is used again.
Ends(q, from) ==
  /\ Goes(q, from, "idle")
  /\ on' = [on EXCEPT ![q] = AnyCluster] /\ seen' = [seen EXCEPT ![q] = {}]
  /\ named' = [named EXCEPT ![q] = FALSE] /\ failed' = [failed EXCEPT ![q] = FALSE]
  /\ answer' = [answer EXCEPT ![q] = 0] /\ held' = [held EXCEPT ![q] = 0]
  /\ UNCHANGED <<clusters, gets, crossed>>

PickLive(q) ==
  /\ conn[on[q]] > 0 \/ default = "live"
  /\ Goes(q, "provider", "connect")
  /\ UNCHANGED <<clusters, cache, crossed, Request>>

\* A cluster that is gone has no provider: the default one answers.
PickDefault(q) ==
  /\ conn[on[q]] = 0 /\ default = "fixture"
  /\ Goes(q, "provider", "served")
  /\ answer' = [answer EXCEPT ![q] = Fixture]
  /\ named' = [named EXCEPT ![q] = TRUE]
  /\ UNCHANGED <<clusters, cache, crossed, on, held, failed, gets, seen>>

\* The name is looked up while clientsFor() runs, and its failure does not
\* stop clientsFor().
FindName(q) ==
  /\ pc[q] \in {"connect", "check", "served"} /\ ~named[q] /\ ~failed[q]
  /\ IF conn[on[q]] > 0
     THEN named' = [named EXCEPT ![q] = TRUE] /\ UNCHANGED failed
     ELSE failed' = [failed EXCEPT ![q] = TRUE] /\ UNCHANGED named
  /\ UNCHANGED <<clusters, cache, crossed, pc, on, held, answer, gets, seen>>

GetConnection(q) ==
  /\ conn[on[q]] > 0
  /\ Goes(q, "connect", "check")
  /\ held' = [held EXCEPT ![q] = conn[on[q]]]
  /\ UNCHANGED <<clusters, cache, crossed, on, named, failed, answer, gets, seen>>

NoConnection(q) ==
  /\ conn[on[q]] = 0 /\ Ends(q, "connect")
  /\ cache' = Without(on[q])

\* assertServerAllowed() throws.
Rejected(q) == Ends(q, "check") /\ UNCHANGED cache

\* The client of a connection is cached as the youngest entry.
Remember(c, v) ==
  LET entries == Append(Without(c), <<c, v>>)
  IN  IF Len(entries) > MaxEntries THEN Tail(entries) ELSE entries

Cached(c) == {e \in Range(cache) : e[1] = c}

\* The server is allowed: the cached client with the same fingerprint, or a
\* new one.
UseClient(q) ==
  /\ Goes(q, "check", "served")
  /\ answer' = [answer EXCEPT ![q] = held[q]]
  /\ cache' = Remember(on[q], held[q])
  /\ UNCHANGED <<clusters, crossed, on, held, named, failed, gets, seen>>

\* Promise.all() settles, and the request is over.
Answer(q) == (named[q] \/ failed[q]) /\ Ends(q, "served") /\ UNCHANGED cache

Next ==
  \/ \E c \in Clusters : Create(c) \/ Update(c) \/ Delete(c) \/ EvictLive(c)
  \/ \E q \in Requests :
       \/ \E c \in Clusters : Get(q, c)
       \/ PickLive(q) \/ PickDefault(q) \/ FindName(q)
       \/ GetConnection(q) \/ NoConnection(q)
       \/ Rejected(q) \/ UseClient(q) \/ Answer(q)

Spec == Init /\ [][Next]_vars

-----------------------------------------------------------------------------
Versions == 0..MaxVersions

TypeOK ==
  /\ default \in {"fixture", "live"}
  /\ conn \in [Clusters -> Versions] /\ fresh \subseteq Clusters
  /\ evictions \subseteq Clusters /\ crossed \subseteq Clusters
  /\ cache \in Seq(Clusters \X Versions)
  /\ pc \in [Requests -> {"idle", "provider", "connect", "check", "served"}]
  /\ on \in [Requests -> Clusters] /\ held \in [Requests -> Versions]
  /\ {named, failed} \subseteq [Requests -> BOOLEAN]
  /\ answer \in [Requests -> Versions \union {Fixture}]
  /\ gets \in 0..MaxGets /\ seen \in [Requests -> SUBSET Versions]

\* A request is served with a connection that its cluster had at some time
\* during the request, and with fixture data only when the cluster was
\* deleted during it (live.provider.ts:141-171, routes/kubernetes.ts:90-108).
AnswersFresh ==
  \A q \in Requests :
    /\ answer[q] = Fixture => 0 \in seen[q]
    /\ answer[q] \in 1..MaxVersions => answer[q] \in seen[q]

\* The cache is bounded and has one client per cluster, of its present
\* connection (live.provider.ts:5-10) unless an eviction is to come or the
\* cluster changed between a request's look at the repository and its write
\* of the cache: then the client of a deleted cluster may stay.
CacheFresh ==
  /\ Len(cache) <= MaxEntries
  /\ \A i, j \in DOMAIN cache : cache[i][1] = cache[j][1] => i = j
  /\ \A i \in DOMAIN cache :
       \/ cache[i][2] = conn[cache[i][1]]
       \/ cache[i][1] \in evictions \union crossed

LiveClientsFresh == AnswersFresh /\ CacheFresh
=============================================================================

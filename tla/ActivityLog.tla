----------------------------- MODULE ActivityLog -----------------------------
(***************************************************************************)
(* What security-service does for others and remembers of it: requests     *)
(* that it passes on through services/proxy.ts, the events it publishes of *)
(* the answers (POST /risk/calculate, routes/risk.ts; POST /sbom/generate, *)
(* routes/sbom-pipeline.ts), and the log of recent events that each        *)
(* replica keeps of what the bus delivers to it (services/event-log.ts).   *)
(*                                                                         *)
(* The in-memory bus hands an event to the replica that publishes it;      *)
(* Redis to one of the replicas, until that one acknowledges it.  An       *)
(* answer is a sequence of weights, in hundredths, one for each event that *)
(* could be made of it; of an SBOM there is one.                           *)
(***************************************************************************)
EXTENDS Integers, SequencesExt, FiniteSetsExt

CONSTANTS
  Replicas,
  Tenants,
  Callers,       \* where requests come in and for whom: replica and tenant
  Answers,       \* the answers of the upstream services
  Top,           \* events of one answer: 5
  MaxEvents,     \* events kept of a tenant: 200
  MaxTenants,    \* tenants kept: 1000
  MaxRequests,   \* bound on the requests
  MaxDeliveries, \* deliveries of an event before the bus gives it up
  MaxFaults      \* bound on publishes that reject and acknowledgements that are lost

Requests == 1..MaxRequests

VARIABLES
  redis,      \* which bus?
  pc,         \* of a request: where its handler is
  on,         \* its replica and its tenant
  answer,     \* what the upstream service answered
  todo,       \* the events still to publish, in their order
  sent,       \* the events it published
  stream,     \* of an event not acknowledged yet: how often it was delivered
  log,        \* of a replica and a tenant: the events, the newest first
  tenants,    \* of a replica: the tenants it has, the first inserted first
  heard,      \* history: of a replica, what it recorded, the newest last
  faults

vars == <<redis, pc, on, answer, todo, sent, stream, log, tenants, heard, faults>>
logs == <<log, tenants, heard>>

Init ==
  /\ redis \in BOOLEAN
  /\ pc = [q \in Requests |-> "none"] /\ on = [q \in Requests |-> <<>>]
  /\ answer = [q \in Requests |-> <<>>] /\ todo = [q \in Requests |-> <<>>]
  /\ sent = [q \in Requests |-> <<>>]
  /\ stream = [e \in {} |-> 0]
  /\ log = [r \in Replicas |-> [t \in Tenants |-> <<>>]]
  /\ tenants = [r \in Replicas |-> <<>>]
  /\ heard = [r \in Replicas |-> <<>>]
  /\ faults = 0

Goes(q, from, to) == pc[q] = from /\ pc' = [pc EXCEPT ![q] = to]

Fault == faults < MaxFaults /\ faults' = faults + 1

-----------------------------------------------------------------------------
(***************************************************************************)
(* The log of replica r records an event of tenant t.                      *)
(***************************************************************************)

\* A Map keeps the place of a key that is set again.
Inserted(r, t) ==
  IF t \in ToSet(tenants[r]) THEN tenants[r] ELSE Append(tenants[r], t)

Evicted(keys) == IF Len(keys) > MaxTenants THEN {Head(keys)} ELSE {}

Record(r, t, e) ==
  LET keys == Inserted(r, t)
      gone == Evicted(keys)
      list == <<e>> \o log[r][t]
  IN  /\ tenants' = [tenants EXCEPT ![r] = SelectSeq(keys, LAMBDA u : u \notin gone)]
      /\ log' = [log EXCEPT ![r] = [u \in Tenants |->
           IF u \in gone THEN <<>>
           ELSE IF u # t THEN log[r][u]
           ELSE IF Len(list) <= MaxEvents THEN list ELSE SubSeq(list, 1, MaxEvents)]]
      /\ heard' = [heard EXCEPT ![r] = Append(@, e)]

-----------------------------------------------------------------------------
(***************************************************************************)
(* A request: the proxy, then the publishes.                               *)
(***************************************************************************)

Request(q, caller) ==
  /\ \A p \in Requests : p < q => pc[p] # "none"
  /\ Goes(q, "none", "proxy")
  /\ on' = [on EXCEPT ![q] = caller]
  /\ UNCHANGED <<redis, answer, todo, sent, stream, logs, faults>>

\* No answer in 30 s, none at all, or not a success: the client is told 504 or
\* 502.
UpstreamFails(q) ==
  /\ Goes(q, "proxy", "failed")
  /\ UNCHANGED <<redis, on, answer, todo, sent, stream, logs, faults>>

\* A body that is not what the schema says is passed on, without an event.
AnswerInvalid(q) ==
  /\ Goes(q, "proxy", "answered")
  /\ UNCHANGED <<redis, on, answer, todo, sent, stream, logs, faults>>

Heaviest(weights) ==
  LET Before(j, k) == weights[j] > weights[k] \/ (weights[j] = weights[k] /\ j < k)
      Place(k) == Cardinality({j \in DOMAIN weights : Before(j, k)}) + 1
      kept == {k \in DOMAIN weights : Place(k) <= Top}
  IN  [n \in 1..Cardinality(kept) |-> weights[CHOOSE k \in kept : Place(k) = n]]

AnswerValid(q) ==
  \E weights \in Answers :
    /\ answer' = [answer EXCEPT ![q] = weights]
    /\ todo' = [todo EXCEPT ![q] = Heaviest(weights)]
    /\ Goes(q, "proxy", IF weights = <<>> THEN "answered" ELSE "publish")
    /\ UNCHANGED <<redis, on, sent, stream, logs, faults>>

Severity(weight) == IF weight > 70 THEN 3 ELSE IF weight > 40 THEN 2 ELSE 1

Event(q) == [of |-> q, number |-> Len(sent[q]) + 1, weight |-> Head(todo[q]),
             severity |-> Severity(Head(todo[q]))]

Publish(q) ==
  LET e == Event(q) IN
  /\ Goes(q, "publish", IF Len(todo[q]) = 1 THEN "answered" ELSE "publish")
  /\ todo' = [todo EXCEPT ![q] = Tail(@)]
  /\ sent' = [sent EXCEPT ![q] = Append(@, e)]
  /\ IF redis THEN stream' = [f \in DOMAIN stream \union {e} |->
                                IF f = e THEN 0 ELSE stream[f]] /\ UNCHANGED logs
     ELSE Record(on[q][1], on[q][2], e) /\ UNCHANGED stream
  /\ UNCHANGED <<redis, on, answer, faults>>

\* The publish rejects: the client is told 500, although the upstream service
\* did its work and events may be out.
PublishFails(q) ==
  /\ redis /\ Fault /\ Goes(q, "publish", "failed")
  /\ UNCHANGED <<redis, on, answer, todo, sent, stream, logs>>

-----------------------------------------------------------------------------
(***************************************************************************)
(* The bus delivers to one of the replicas; its handler records and        *)
(* returns.  A lost acknowledgement has the event delivered again.         *)
(***************************************************************************)

Deliver(r, e) ==
  /\ Record(r, on[e.of][2], e)
  /\ \/ /\ stream' = [f \in DOMAIN stream \ {e} |-> stream[f]]
        /\ UNCHANGED faults
     \/ /\ Fault /\ stream[e] + 1 < MaxDeliveries
        /\ stream' = [stream EXCEPT ![e] = @ + 1]
  /\ UNCHANGED <<redis, pc, on, answer, todo, sent>>

Next ==
  \/ \E q \in Requests :
       \/ \E caller \in Callers : Request(q, caller)
       \/ UpstreamFails(q) \/ AnswerInvalid(q) \/ AnswerValid(q)
       \/ Publish(q) \/ PublishFails(q)
  \/ \E r \in Replicas, e \in DOMAIN stream : Deliver(r, e)

Spec == Init /\ [][Next]_vars

-----------------------------------------------------------------------------
TypeOK ==
  /\ redis \in BOOLEAN /\ faults \in 0..MaxFaults
  /\ pc \in [Requests -> {"none", "proxy", "publish", "answered", "failed"}]
  /\ \A q \in Requests : on[q] = <<>> <=> pc[q] = "none"
  /\ \A e \in DOMAIN stream : e \in ToSet(sent[e.of]) /\ stream[e] \in 0..MaxDeliveries
  /\ \A r \in Replicas : ToSet(tenants[r]) \subseteq Tenants

Newest(r, t) ==
  LET all == SelectSeq(heard[r], LAMBDA e : on[e.of][2] = t) IN
  Reverse(IF Len(all) <= MaxEvents THEN all ELSE SubSeq(all, Len(all) - MaxEvents + 1, Len(all)))

\* A dashboard shows the newest events of its own tenant, the newest first, as
\* far as the tenant was not evicted; and a tenant is evicted only for others
\* that came after it (event-log.ts:65-78).
LogIsRecent ==
  \A r \in Replicas :
    /\ Len(tenants[r]) <= MaxTenants
    /\ heard[r] # <<>> => LET t == on[Last(heard[r]).of][2] IN
                           log[r][t] # <<>> /\ Head(log[r][t]) = Last(heard[r])
    /\ \A t \in Tenants :
         /\ IsPrefix(log[r][t], Newest(r, t))
         /\ log[r][t] = <<>> <=> t \notin ToSet(tenants[r])
         /\ \A e \in ToSet(log[r][t]) : on[e.of][2] = t
         /\ Cardinality({on[e.of][2] : e \in ToSet(heard[r])}) <= MaxTenants =>
              log[r][t] = Newest(r, t)

\* The replicas have between them every event that was published, unless it is
\* still on the bus, and have it twice only as often as an acknowledgement was
\* lost (event-log.ts:39-52).
HeardOnce ==
  LET Times(e) == MapThenSumSet(LAMBDA r :
                    Cardinality({n \in DOMAIN heard[r] : heard[r][n] = e}), Replicas)
      events == UNION {ToSet(sent[q]) : q \in Requests}
  IN  /\ \A e \in events : Times(e) = 0 => e \in DOMAIN stream
      /\ MapThenSumSet(LAMBDA e : IF Times(e) > 1 THEN Times(e) - 1 ELSE 0, events) <= faults
      /\ ~redis => \A e \in events : Times(e) = 1

\* Of an answer the heaviest are announced, heaviest first, all of them unless
\* a publish rejects; what is left out is no heavier than what was announced
\* (risk.ts:83-104).
HeaviestFirst ==
  \A q \in Requests :
    LET out == sent[q] IN
    /\ \A n \in DOMAIN out : n > 1 =>
         /\ out[n].weight <= out[n - 1].weight
         /\ out[n].severity <= out[n - 1].severity
    /\ \A w \in ToSet(answer[q]) :
         \/ w \in {out[n].weight : n \in DOMAIN out}
         \/ pc[q] = "answered" /\ Len(out) = Top /\ w <= Last(out).weight
         \/ pc[q] \in {"publish", "failed"} /\ \A n \in DOMAIN out : w <= out[n].weight

\* A client is told that a request failed after an event of it is out only when
\* a publish was rejected, and then the answer of the upstream service is lost
\* to it (proxy.ts:105-154, risk.ts:80-117).
FailedMeansUntold ==
  Cardinality({q \in Requests : pc[q] = "failed" /\ answer[q] # <<>>}) <= faults

ActivitySound == LogIsRecent /\ HeardOnce /\ HeaviestFirst /\ FailedMeansUntold
=============================================================================

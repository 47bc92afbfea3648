-------------------------- MODULE EvidencePipeline --------------------------
(***************************************************************************)
(* What one compliance-service process does with the events it subscribes  *)
(* to: scan.completed (evidence/scan-listener.ts) and the infrastructure   *)
(* findings of runtime-security and k8s-health                             *)
(* (evidence/infrastructure-listener.ts), both through EvidenceAttacher.   *)
(*                                                                         *)
(* A handler call works through an agenda: for each batch the mapping      *)
(* engine evaluates, first the POA&M items, then the violations, then the  *)
(* evidence rows.  It awaits a publish after each of them; a rejection     *)
(* leaves the handler, the event stays pending and the next delivery       *)
(* starts the agenda from the top.  The bus is the one of RedisStreamBus,  *)
(* reduced to what a handler sees of it: an event is delivered at most     *)
(* MaxDeliveries times, then dead-lettered.  POA&M items, blobs and,       *)
(* without a database, evidence live in the memory of the process.         *)
(***************************************************************************)
EXTENDS Integers, FiniteSets, SequencesExt

CONSTANTS
  Events,         \* events published for this service
  ScanEvents,     \* those that are scan.completed
  ScanData,       \* the fields their data carries
  Batch,          \* the findings an event carries, in order
  ControlsOf,     \* the controls the mapping rules fail for a finding
  Databases,      \* may DATABASE_URL be set, and unset
  MaxDeliveries,  \* maxDeliveries of the bus
  MaxFaults       \* bound on rejected publishes, lost acks and crashes

Findings == UNION {Range(Batch[e]) : e \in Events}
Controls == UNION {ControlsOf[f] : f \in Findings}
Artefacts == {"sbom", "report"}

ASSUME EventsAssumption ==
  /\ IsFiniteSet(Events) /\ \A e \in Events : Batch[e] \in Seq(Range(Batch[e]))
  /\ \A f \in Findings : IsFiniteSet(ControlsOf[f])
  /\ ScanEvents \subseteq Events /\ Artefacts \intersect Findings = {}
  /\ Databases \subseteq BOOLEAN
  /\ MaxDeliveries \in Nat \ {0} /\ MaxFaults \in Nat

VARIABLES
  database,    \* is evidence in PostgreSQL: fixed when the service is deployed
  state,       \* where an event is
  tries,       \* deliveries of an event so far
  agenda,      \* what the handler call for an event has still to do
  publishing,  \* is the publish of the agenda's first step under way
  open,        \* <<control, finding>> pairs with an unresolved POA&M item
  poams,       \* items the repository holds for a pair
  rows,        \* evidence rows of a control for an artefact or a finding
  sent,        \* history: steps whose event is on the bus
  faults       \* faults so far

vars == <<database, state, tries, agenda, publishing, open, poams, rows, sent, faults>>
bus    == <<state, tries>>
config == <<database, faults>>
stores == <<open, poams, rows>>

Pairs == Controls \X Findings
Refs  == Controls \X (Findings \union Artefacts)

Init ==
  /\ database \in Databases
  /\ state = [e \in Events |-> "unpublished"]
  /\ tries = [e \in Events |-> 0]
  /\ agenda = [e \in Events |-> <<>>]
  /\ publishing = [e \in Events |-> FALSE]
  /\ open = {} /\ sent = {} /\ faults = 0
  /\ poams = [p \in Pairs |-> 0]
  /\ rows  = [r \in Refs |-> 0]

-----------------------------------------------------------------------------
(***************************************************************************)
(* The agenda of a handler call.                                           *)
(***************************************************************************)

Step(kind, control, about) == [kind |-> kind, control |-> control, about |-> about]

\* Steps of one kind, control by control.
StepsFor(kind, controls, about) ==
  [k \in 1..Len(controls) |-> Step(kind, controls[k], about)]

ControlSeq(findings) == SetToSeq(UNION {ControlsOf[f] : f \in Range(findings)})

\* One call of evaluateBatch and what follows it: a POA&M item per (control,
\* finding) pair, a violation per control, evidence per control and artefact.
Pipeline(findings, subject, artefacts) ==
  LET controls == ControlSeq(findings)
      about(k) == StepsFor("attach", <<controls[k]>>, artefacts[1]) \o
                  IF Len(artefacts) = 1 THEN <<>>
                  ELSE StepsFor("attach", <<controls[k]>>, artefacts[2])
  IN  FlattenSeq([k \in 1..Len(findings) |->
                   StepsFor("track", ControlSeq(<<findings[k]>>), findings[k])])
      \o StepsFor("violate", controls, subject)
      \o FlattenSeq([k \in 1..Len(controls) |-> about(k)])

\* What the scan listener insists on before it calls attach().
Required == {"tenantId", "assetId", "scanId"}

\* attach(): the findings of a scan are one batch.
ScanAgenda(e) ==
  IF Required \subseteq ScanData
  THEN Pipeline(Batch[e], "scan", <<"sbom", "report">>)
  ELSE <<>>

\* The infrastructure listener: every finding is a batch of its own.
InfrastructureAgenda(e) ==
  FlattenSeq([k \in 1..Len(Batch[e]) |->
               Pipeline(<<Batch[e][k]>>, Batch[e][k], <<Batch[e][k]>>)])

Agenda(e) == IF e \in ScanEvents THEN ScanAgenda(e) ELSE InfrastructureAgenda(e)

\* Each topic has one read loop, which awaits one handler call at a time.
SameTopic(d, e) == d \in ScanEvents <=> e \in ScanEvents

-----------------------------------------------------------------------------
(***************************************************************************)
(* The bus.                                                                *)
(***************************************************************************)

Publish(e) ==
  /\ state[e] = "unpublished"
  /\ state' = [state EXCEPT ![e] = "pending"]
  /\ UNCHANGED <<tries, agenda, publishing, stores, sent, config>>

Deliver(e) ==
  /\ state[e] = "pending" /\ tries[e] < MaxDeliveries
  /\ \A d \in Events : SameTopic(d, e) => state[d] # "running"
  /\ state'  = [state EXCEPT ![e] = "running"]
  /\ tries'  = [tries EXCEPT ![e] = @ + 1]
  /\ agenda' = [agenda EXCEPT ![e] = Agenda(e)]
  /\ UNCHANGED <<publishing, stores, sent, config>>

\* Mutant: an event is dead-lettered one delivery past the last.
DeadLetterPastLimit(e) ==
  /\ state[e] = "pending" /\ tries[e] > MaxDeliveries
  /\ state' = [state EXCEPT ![e] = "dead"]
  /\ UNCHANGED <<tries, agenda, publishing, stores, sent, config>>

DeadLetter(e) ==
  /\ state[e] = "pending" /\ tries[e] = MaxDeliveries
  /\ state' = [state EXCEPT ![e] = "dead"]
  /\ UNCHANGED <<tries, agenda, publishing, stores, sent, config>>

Fault == faults < MaxFaults /\ faults' = faults + 1 /\ UNCHANGED database

\* The handler returns and the event is acknowledged, or the XACK is lost.
Ack(e) ==
  /\ state[e] = "running" /\ agenda[e] = <<>>
  /\ \/ state' = [state EXCEPT ![e] = "acked"] /\ UNCHANGED config
     \/ state' = [state EXCEPT ![e] = "pending"] /\ Fault
  /\ UNCHANGED <<tries, agenda, publishing, stores, sent>>

\* Mutant: the rejected call goes on while its event is redelivered.
ThrowWhileRunning(e) ==
  /\ state'  = [state EXCEPT ![e] = "pending"]
  /\ publishing' = [publishing EXCEPT ![e] = FALSE]
  /\ UNCHANGED agenda

\* The handler rejects: nothing of what it did is undone.
Throw(e) ==
  /\ state'  = [state EXCEPT ![e] = "pending"]
  /\ agenda' = [agenda EXCEPT ![e] = <<>>]
  /\ publishing' = [publishing EXCEPT ![e] = FALSE]

-----------------------------------------------------------------------------
(***************************************************************************)
(* The steps of the agenda.                                                *)
(***************************************************************************)

At(e, kind) ==
  /\ state[e] = "running" /\ agenda[e] # <<>> /\ ~publishing[e]
  /\ Head(agenda[e]).kind = kind

Subject(e) == <<Head(agenda[e]).control, Head(agenda[e]).about>>

Advance(e) == agenda' = [agenda EXCEPT ![e] = Tail(@)]

BeginPublish(e) == publishing' = [publishing EXCEPT ![e] = TRUE]

\* createFromTuple() finds the pair tracked.
AlreadyTracked(e) ==
  /\ At(e, "track") /\ Subject(e) \in open
  /\ Advance(e)
  /\ UNCHANGED <<bus, publishing, stores, sent, config>>

\* createFromTuple() creates the item and announces it.
Track(e) ==
  /\ At(e, "track") /\ Subject(e) \notin open
  /\ open'  = open \union {Subject(e)}
  /\ poams' = [poams EXCEPT ![Subject(e)] = @ + 1]
  /\ BeginPublish(e)
  /\ UNCHANGED <<bus, agenda, rows, sent, config>>

\* emitControlViolated(), on every delivery.
Violate(e) ==
  /\ At(e, "violate")
  /\ BeginPublish(e)
  /\ UNCHANGED <<bus, agenda, stores, sent, config>>

\* findByRef(): only the infrastructure path looks, and not at artefacts.
AlreadyAttached(e) ==
  /\ At(e, "attach") /\ e \notin ScanEvents /\ ~database
  /\ rows[Subject(e)] > 0
  /\ Advance(e)
  /\ UNCHANGED <<bus, publishing, stores, sent, config>>

\* Mutant: infrastructure evidence is as append-only as that of scans.
AttachAgain(e) ==
  /\ At(e, "attach") /\ ~database
  /\ rows' = [rows EXCEPT ![Subject(e)] = @ + 1]
  /\ BeginPublish(e)
  /\ UNCHANGED <<bus, agenda, open, poams, sent, config>>

\* Mutant: the row is stored and the event forgotten.
AttachQuietly(e) ==
  /\ At(e, "attach") /\ ~database
  /\ e \in ScanEvents \/ rows[Subject(e)] = 0
  /\ rows' = [rows EXCEPT ![Subject(e)] = @ + 1]
  /\ Advance(e)
  /\ UNCHANGED <<bus, publishing, open, poams, sent, config>>

\* evidenceRepo.create(), and the publish of compliance.evidence.attached.
Attach(e) ==
  /\ At(e, "attach") /\ ~database
  /\ e \in ScanEvents \/ rows[Subject(e)] = 0
  /\ rows' = [rows EXCEPT ![Subject(e)] = @ + 1]
  /\ BeginPublish(e)
  /\ UNCHANGED <<bus, agenda, open, poams, sent, config>>

\* evidence.control_id is a uuid column and no control of mapping-rules.json
\* is named by a uuid: lookup and insertion both reject.
AttachRejected(e) ==
  /\ At(e, "attach") /\ database
  /\ Throw(e)
  /\ UNCHANGED <<tries, stores, sent, config>>

Sent(e) ==
  /\ publishing[e]
  /\ sent' = sent \union {Head(agenda[e])}
  /\ publishing' = [publishing EXCEPT ![e] = FALSE]
  /\ Advance(e)
  /\ UNCHANGED <<bus, stores, config>>

\* The publish rejects, whether or not the event is on the bus: withAudit()
\* rethrows and nothing in the attacher catches it.
SendFails(e) ==
  /\ publishing[e] /\ Fault
  /\ sent' \in {sent, sent \union {Head(agenda[e])}}
  /\ Throw(e)
  /\ UNCHANGED <<tries, stores>>

-----------------------------------------------------------------------------

\* Somebody closes the item or accepts its risk.
Resolve(p) ==
  /\ p \in open
  /\ open' = open \ {p}
  /\ UNCHANGED <<bus, agenda, publishing, poams, rows, sent, config>>

\* Mutant: the process comes back believing its handler calls still run.
CrashKeepingAgendas ==
  /\ Fault
  /\ open' = {} /\ poams' = [p \in Pairs |-> 0] /\ rows' = [r \in Refs |-> 0]
  /\ UNCHANGED <<bus, agenda, publishing, sent>>

\* The process dies with its memory; what it was handling stays pending.
Crash ==
  /\ Fault
  /\ state' = [e \in Events |-> IF state[e] = "running" THEN "pending" ELSE state[e]]
  /\ agenda' = [e \in Events |-> <<>>]
  /\ publishing' = [e \in Events |-> FALSE]
  /\ open' = {} /\ poams' = [p \in Pairs |-> 0] /\ rows' = [r \in Refs |-> 0]
  /\ UNCHANGED <<tries, sent>>

Handle(e) ==
  \/ AlreadyTracked(e) \/ Track(e) \/ Violate(e)
  \/ AlreadyAttached(e) \/ Attach(e) \/ AttachRejected(e)
  \/ Sent(e) \/ SendFails(e) \/ Ack(e)

Next ==
  \/ \E e \in Events : Publish(e) \/ Deliver(e) \/ DeadLetter(e) \/ Handle(e)
  \/ \E p \in Pairs : Resolve(p)
  \/ Crash

Spec == Init /\ [][Next]_vars

\* The bus redelivers what is pending (RedisStreamBus!EventuallySettled), and
\* handler calls go on.  A topic's loop may serve another event first, hence
\* strong fairness.
Fairness == \A e \in Events :
  SF_vars(Deliver(e)) /\ WF_vars(DeadLetter(e)) /\ WF_vars(Handle(e))

FairSpec == Spec /\ Fairness

-----------------------------------------------------------------------------

Steps == {Step("track", p[1], p[2]) : p \in Pairs} \union
         {Step("violate", r[1], a) : r \in Refs, a \in Findings \union {"scan"}} \union
         {Step("attach", r[1], r[2]) : r \in Refs}

\* What is left of an agenda after its first n steps.
AgendaAfter(e, n) == SubSeq(Agenda(e), n + 1, Len(Agenda(e)))

TypeOK ==
  /\ database \in Databases
  /\ state \in [Events -> {"unpublished", "pending", "running", "acked", "dead"}]
  /\ tries \in [Events -> 0..MaxDeliveries]
  /\ agenda \in [Events -> Seq(Steps)] /\ publishing \in [Events -> BOOLEAN]
  /\ \A e \in Events : agenda[e] \in {AgendaAfter(e, n) : n \in 0..Len(Agenda(e))}
  /\ \A e \in Events : agenda[e] # <<>> => state[e] = "running"
  /\ \A e \in Events : publishing[e] => agenda[e] # <<>>
  /\ open \subseteq Pairs /\ poams \in [Pairs -> Nat] /\ rows \in [Refs -> Nat]
  /\ sent \subseteq Steps /\ faults \in 0..MaxFaults

\* Has a step of an agenda left its trace in this process, or on the bus?
Done(step) ==
  CASE step.kind = "track"   -> poams[<<step.control, step.about>>] > 0
    [] step.kind = "violate" -> step \in sent
    [] step.kind = "attach"  -> rows[<<step.control, step.about>>] > 0

\* How many steps of its agenda a handler call has behind it.
Behind(e) == Len(Agenda(e)) - Len(agenda[e])

\* The inductive invariant behind AckedMeansDone: what a call has behind it,
\* and what it is announcing, has left its trace.
TraceInv ==
  /\ \A p \in open : poams[p] > 0
  /\ \A e \in Events : state[e] = "running" => \A k \in 1..Behind(e) : Done(Agenda(e)[k])
  /\ \A e \in Events : publishing[e] /\ Head(agenda[e]).kind # "violate" => Done(Head(agenda[e]))

\* An event is acknowledged only once every control it implicates has its
\* POA&M item, its violation on the bus and its evidence, however many
\* deliveries, rejections and crashes it took.
AckedMeansDone ==
  [][\A e \in Events :
       state[e] = "running" /\ state'[e] = "acked" =>
         \A k \in 1..Len(Agenda(e)) : Done(Agenda(e)[k])]_vars

\* evidence-attacher.ts: a repeat delivery of the same finding "must not
\* insert a second evidence row".
OneRowPerFinding == \A r \in Refs : r[2] \in Findings => rows[r] <= 1

\* Evidence is announced with the violation it is evidence of: what no
\* subscriber hears of never outnumbers the rejected publishes.
Unannounced ==
  {r \in Refs : LET step == Step("attach", r[1], r[2]) IN
    /\ rows[r] > 0 /\ step \notin sent
    /\ ~\E e \in Events : publishing[e] /\ Head(agenda[e]) = step}

OneUnannouncedPerFault == Cardinality(Unannounced) <= faults

\* A handler that always rejects does not block its topic: every event is
\* acknowledged or dead-lettered in the end.
EventuallySettled ==
  \A e \in Events : state[e] = "pending" ~> state[e] \in {"acked", "dead"}

\* evidence-attacher.ts: "Attach evidence for a single infrastructure finding".
EvidenceAttached ==
  \A e \in Events : state[e] = "pending" ~>
    \A k \in 1..Len(Agenda(e)) : Agenda(e)[k].kind = "attach" => Done(Agenda(e)[k])
=============================================================================

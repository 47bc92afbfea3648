--------------------------- MODULE ControlEvidence ---------------------------
(***************************************************************************)
(* One control of compliance-service with its evidence: the routes that    *)
(* collect evidence, add a reference and set the status                    *)
(* (routes/evidence.ts, routes/controls.ts and their repositories).  Each  *)
(* awaits its statements one by one, without a transaction; any of them,   *)
(* and any publish, may be rejected, and a client may ask again.           *)
(***************************************************************************)
EXTENDS Naturals, FiniteSets, SequencesExt

CONSTANTS
  Requests,  \* names of the requests under way at once
  Refs,      \* references to evidence
  Statuses,  \* statuses a PATCH may set
  MaxSent,   \* bound on the requests sent
  MaxFaults  \* bound on the rejections

VARIABLES
  refs,     \* evidenceRefs of the control, in order
  status,   \* status of the control
  rows,     \* references of the evidence of the control
  pc,       \* what each request awaits
  body,     \* what each request was sent: a ref or a status
  told,     \* statuses of the compliance.control.updated that were published
  sent, faults,
  (* History. *)
  first,    \* the references the control was created with
  direct,   \* references that were added without evidence
  cut,      \* references of requests that failed after they stored evidence
  crossed   \* a status was set while another was still to be announced

vars == <<refs, status, rows, pc, body, told, sent, faults, first, direct, cut, crossed>>

\* POST /v1/controls takes the references as they are sent.
Init ==
  /\ first \in {<<>>} \union {<<r, r>> : r \in Refs}
  /\ refs = first /\ status = "manual_review" /\ rows = <<>>
  /\ pc = [q \in Requests |-> "idle"] /\ body = [q \in Requests |-> "none"]
  /\ told = <<"manual_review">> /\ sent = 0 /\ faults = 0
  /\ direct = {} /\ cut = {} /\ crossed = FALSE

-----------------------------------------------------------------------------
\* The request has an answer.
Over(q) == pc[q] \in {"idle", "answered", "failed"}

Begin(q, what, next) ==
  /\ Over(q) /\ sent < MaxSent /\ sent' = sent + 1
  /\ body' = [body EXCEPT ![q] = what] /\ pc' = [pc EXCEPT ![q] = next]

\* addEvidence(): once per reference; in SQL the CASE of one UPDATE.
AddRef(some, ref) == IF ref \in ToSet(some) THEN some ELSE Append(some, ref)

\* POST /v1/evidence: the control is looked up, and none is ever removed.
Collect(q, ref) ==
  /\ Begin(q, ref, "storing")
  /\ UNCHANGED <<refs, status, rows, told, faults, first, direct, cut, crossed>>

Stored(q) ==
  /\ pc[q] = "storing" /\ rows' = Append(rows, body[q])
  /\ pc' = [pc EXCEPT ![q] = "adding"]
  /\ UNCHANGED <<refs, status, body, told, sent, faults, first, direct, cut, crossed>>

Added(q) ==
  /\ pc[q] = "adding" /\ refs' = AddRef(refs, body[q])
  /\ pc' = [pc EXCEPT ![q] = "answered"]
  /\ UNCHANGED <<status, rows, body, told, sent, faults, first, direct, cut, crossed>>

\* POST /v1/controls/:id/evidence
AddDirectly(q, ref) ==
  /\ Begin(q, ref, "answered")
  /\ refs' = AddRef(refs, ref) /\ direct' = direct \union {ref}
  /\ UNCHANGED <<status, rows, told, faults, first, cut, crossed>>

\* PATCH /v1/controls/:id/status
SetStatus(q, value) ==
  /\ Begin(q, value, "publishing") /\ status' = value
  /\ crossed' = \/ crossed
                \/ \E other \in Requests \ {q} : pc[other] = "publishing"
  /\ UNCHANGED <<refs, rows, told, faults, first, direct, cut>>

Published(q) ==
  /\ pc[q] = "publishing" /\ told' = Append(told, body[q])
  /\ pc' = [pc EXCEPT ![q] = "answered"]
  /\ UNCHANGED <<refs, status, rows, body, sent, faults, first, direct, cut, crossed>>

Rejected(q) ==
  /\ pc[q] \in {"storing", "adding", "publishing"} /\ faults < MaxFaults
  /\ faults' = faults + 1 /\ pc' = [pc EXCEPT ![q] = "failed"]
  /\ cut' = cut \union (IF pc[q] = "adding" THEN {body[q]} ELSE {})
  /\ UNCHANGED <<refs, status, rows, body, told, sent, first, direct, crossed>>

Next ==
  \E q \in Requests :
    \/ \E ref \in Refs : Collect(q, ref) \/ AddDirectly(q, ref)
    \/ \E value \in Statuses : SetStatus(q, value)
    \/ Stored(q) \/ Added(q) \/ Published(q) \/ Rejected(q)

Spec == Init /\ [][Next]_vars

-----------------------------------------------------------------------------
TypeOK ==
  /\ ToSet(refs) \union ToSet(rows) \subseteq Refs /\ status \in Statuses \union {"manual_review"}
  /\ \A q \in Requests :
       /\ pc[q] \in {"idle", "storing", "adding", "publishing", "answered", "failed"}
       /\ body[q] \in Refs \union Statuses \union {"none"}
  /\ sent \in 0..MaxSent /\ faults \in 0..MaxFaults

Adding(ref) == \E q \in Requests : pc[q] = "adding" /\ body[q] = ref

\* A reference is on the control once, beyond those it was created with, and
\* it got there with evidence or by a request for it alone; evidence is
\* referred to, unless its request was cut short and nobody asked again
\* (routes/evidence.ts:36-59, control.repository.ts:76-87, 172-189).
RefsBacked ==
  /\ \A j, k \in DOMAIN refs : j < k /\ refs[j] = refs[k] => k <= Len(first)
  /\ ToSet(refs) \subseteq ToSet(first) \union direct \union ToSet(rows)
  /\ \A ref \in ToSet(rows) : ref \in ToSet(refs) \union cut \/ Adding(ref)

\* The last status that was told is the one the control has, once nothing is
\* under way, unless two were set across each other or a publish was rejected
\* (routes/controls.ts:73-93).
StatusTold ==
  (\A q \in Requests : Over(q)) /\ faults = 0 /\ ~crossed => Last(told) = status

ControlEvidenceSound == RefsBacked /\ StatusTold
=============================================================================

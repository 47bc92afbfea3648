--------------------------- MODULE IncidentRecords ---------------------------
(***************************************************************************)
(* Requests of incident-service about one incident (routes/incidents.ts,   *)
(* repositories/incident.repository.ts): a PATCH reads the row, merges     *)
(* what it was sent and writes every column back, then may publish         *)
(* incident.resolved; a POST stores an incident and publishes              *)
(* incident.created.  A rejected publish fails the request, which a client *)
(* may send again.                                                         *)
(***************************************************************************)
EXTENDS Naturals, FiniteSets, SequencesExt, TLC

CONSTANTS
  Requests,     \* names of the requests under way at once
  Patches,      \* bodies of a PATCH: records of some fields of Opened
  Opened,       \* the incident as it was created
  MaxPatches,   \* bound on the requests sent
  MaxRejections \* bound on the rejected publishes

VARIABLES
  postgres,   \* DATABASE_URL is set; otherwise the repository is a Map
  row,        \* the fields of the incident that a PATCH may name
  pc,         \* what each request awaits
  body,       \* what each request was sent
  held,       \* the row each request has read
  told,       \* the statuses of the incident.resolved that were published
  created,    \* incidents that POST stored and, of these, announced
  sent,       \* requests sent
  rejections, \* publishes rejected
  (* History. *)
  serial,     \* the row if every patch had been applied in one step
  since,      \* fields that were written since each request read the row
  raced,      \* fields last written by a request that had read them before a change
  reopened,   \* a patch has taken the incident out of Final
  crossed     \* a status was written while another was still to be announced

vars == <<postgres, row, pc, body, held, told, created, sent, rejections, serial, since,
          raced, reopened, crossed>>

Fields == DOMAIN Opened
Nothing == [f \in {} |-> 0]
Final == {"resolved", "closed"}

Init ==
  /\ postgres \in BOOLEAN /\ row = Opened /\ serial = Opened
  /\ pc = [r \in Requests |-> "idle"] /\ body = [r \in Requests |-> Nothing]
  /\ held = [r \in Requests |-> Nothing] /\ told = <<>> /\ created = [stored |-> 0, told |-> 0]
  /\ sent = 0 /\ rejections = 0
  /\ since = [r \in Requests |-> {}] /\ raced = {} /\ reopened = FALSE /\ crossed = FALSE

-----------------------------------------------------------------------------
\* The request has an answer.
Over(r) == pc[r] \in {"idle", "answered", "failed"}

\* Mutant: the fields that were sent give way to those of the row.
MergeUnder(existing, patch) == existing @@ patch

\* { ...existing, ...patch }
Merge(existing, patch) == patch @@ existing

Announces(patch) == "status" \in DOMAIN patch /\ patch.status \in Final

\* Every column of the row is replaced, though the fields in `missed` were
\* written since `existing` was read.
Store(r, patch, existing, missed) ==
  /\ row' = Merge(existing, patch) /\ serial' = patch @@ serial
  /\ raced' = (raced \union missed) \ DOMAIN patch
  /\ since' = [q \in Requests |-> IF q = r THEN {} ELSE since[q] \union missed \union DOMAIN patch]
  /\ reopened' = \/ reopened
                 \/ "status" \in DOMAIN patch /\ ~Announces(patch)
  /\ crossed' = \/ crossed
                \/ "status" \in DOMAIN patch /\ \E q \in Requests \ {r} : pc[q] = "publishing"
  /\ pc' = [pc EXCEPT ![r] = IF Announces(patch) THEN "publishing" ELSE "answered"]

\* PATCH: the Map is read and written in one turn, a database in two.
Patch(r, patch) ==
  /\ Over(r) /\ sent < MaxPatches
  /\ sent' = sent + 1 /\ body' = [body EXCEPT ![r] = patch]
  /\ \/ /\ postgres
        /\ pc' = [pc EXCEPT ![r] = "writing"] /\ held' = [held EXCEPT ![r] = row]
        /\ since' = [since EXCEPT ![r] = {}]
        /\ UNCHANGED <<row, serial, raced, reopened, crossed>>
     \/ ~postgres /\ Store(r, patch, row, {}) /\ UNCHANGED held
  /\ UNCHANGED <<postgres, told, created, rejections>>

Write(r) ==
  /\ pc[r] = "writing"
  /\ Store(r, body[r], held[r], since[r] \ DOMAIN body[r])
  /\ held' = [held EXCEPT ![r] = Nothing]
  /\ UNCHANGED <<postgres, body, told, created, sent, rejections>>

\* POST: another incident, which the list shows beside this one.
Create(r) ==
  /\ Over(r) /\ sent < MaxPatches
  /\ sent' = sent + 1 /\ pc' = [pc EXCEPT ![r] = "announcing"]
  /\ created' = [created EXCEPT !.stored = @ + 1]
  /\ UNCHANGED <<postgres, row, body, held, told, rejections, serial, since, raced, reopened,
                 crossed>>

Published(r) ==
  /\ \/ /\ pc[r] = "publishing" /\ told' = Append(told, body[r].status) /\ UNCHANGED created
     \/ /\ pc[r] = "announcing" /\ created' = [created EXCEPT !.told = @ + 1]
        /\ UNCHANGED told
  /\ pc' = [pc EXCEPT ![r] = "answered"]
  /\ UNCHANGED <<postgres, row, body, held, sent, rejections, serial, since, raced, reopened,
                 crossed>>

Rejected(r) ==
  /\ pc[r] \in {"publishing", "announcing"} /\ rejections < MaxRejections
  /\ rejections' = rejections + 1 /\ pc' = [pc EXCEPT ![r] = "failed"]
  /\ UNCHANGED <<postgres, row, body, held, told, created, sent, serial, since, raced, reopened,
                 crossed>>

Next ==
  \E r \in Requests :
    \/ \E patch \in Patches : Patch(r, patch)
    \/ Write(r) \/ Create(r) \/ Published(r) \/ Rejected(r)

Spec == Init /\ [][Next]_vars

-----------------------------------------------------------------------------
TypeOK ==
  /\ postgres \in BOOLEAN /\ DOMAIN row = Fields /\ raced \subseteq Fields
  /\ \A r \in Requests :
       /\ pc[r] \in {"idle", "writing", "publishing", "announcing", "answered", "failed"}
       /\ body[r] \in Patches \union {Nothing} /\ since[r] \subseteq Fields
  /\ ToSet(told) \subseteq Final /\ sent \in 0..MaxPatches
  /\ created.told <= created.stored /\ rejections \in 0..MaxRejections

\* A field has the value of the last patch that named it, unless another
\* request wrote the row that had read it before; in memory always
\* (incident.repository.ts:66-72, 160-182).
LostOnlyToRaces ==
  /\ \A f \in Fields : row[f] = serial[f] \/ f \in raced
  /\ ~postgres => raced = {}

Quiet == \A r \in Requests : Over(r)

\* Who hears of resolved incidents knows how one ended: the last that was told
\* is what is stored, unless statuses were written across each other, a
\* publish was rejected, or the incident was reopened, of which nobody is
\* told (routes/incidents.ts:71-88).
ResolutionTold ==
  Quiet /\ rejections = 0 /\ ~crossed /\ "status" \notin raced =>
    IF row.status \in Final THEN told # <<>> /\ Last(told) = row.status
    ELSE told = <<>> \/ reopened

\* An incident nobody was told of takes a rejected publish
\* (routes/incidents.ts:49-62).
CreationTold ==
  created.stored - created.told
    - Cardinality({r \in Requests : pc[r] = "announcing"}) <= rejections

IncidentRecordsSound == LostOnlyToRaces /\ ResolutionTold /\ CreationTold
=============================================================================

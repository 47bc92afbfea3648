-------------------------- MODULE WebhookDeliveries --------------------------
(***************************************************************************)
(* Webhooks that providers deliver to integration-service for one          *)
(* integration (routes/webhooks.ts, providers/registry.ts), while requests *)
(* enable, disable and remove it (routes/integrations.ts).  A provider     *)
(* delivers again what was not accepted, and may deliver again what was:   *)
(* nothing recognises a delivery.  The integration is looked up once,      *)
(* before the awaits of the rest; any statement and the publish may be     *)
(* rejected.                                                               *)
(***************************************************************************)
EXTENDS Integers, FiniteSets, Sequences

CONSTANTS
  Requests,      \* names of the deliveries under way at once
  MaxWebhooks,   \* bound on the deliveries
  MaxChanges,    \* bound on the changes of the integration
  MaxFaults      \* bound on the rejections

VARIABLES
  integration, \* "enabled", "disabled" or "removed"
  lastSync,    \* lastSyncAt, 0 for none
  syncs,       \* deliveries that have a sync record; of these, the finished ones
  told,        \* deliveries whose integration.sync.completed was published
  pc,          \* what each request awaits
  delivery,    \* the delivery each request carries, numbered as they arrive
  stamp,       \* the time each request is about to record
  log,         \* per delivery, its provider, when it arrived and was accepted
  clock, changes, faults,
  off          \* history: since when the integration is not enabled, 0 when it is

vars == <<integration, lastSync, syncs, told, pc, delivery, stamp, log, clock, changes, faults, off>>

Providers == {"github", "other"}

Init ==
  /\ integration = "enabled" /\ lastSync = 0 /\ told = {}
  /\ syncs = [started |-> {}, finished |-> {}]
  /\ pc = [r \in Requests |-> "idle"] /\ delivery = [r \in Requests |-> 0]
  /\ stamp = [r \in Requests |-> 0] /\ log = <<>>
  /\ clock = 0 /\ changes = 0 /\ faults = 0 /\ off = 0

-----------------------------------------------------------------------------
\* The request has an answer.
Over(r) == pc[r] \in {"idle", "accepted", "refused", "failed"}

At(r, here, next) == pc[r] = here /\ pc' = [pc EXCEPT ![r] = next]

\* handleEvent() of GitHub records and publishes; the others do nothing.
Awaited(provider) == IF provider = "github" THEN "creating" ELSE "recording"

Takes(state) == state = "enabled"

Deliver(r, provider) ==
  /\ Over(r) /\ Len(log) < MaxWebhooks
  /\ clock' = clock + 1
  /\ log' = Append(log, [provider |-> provider, arrived |-> clock', accepted |-> 0])
  /\ delivery' = [delivery EXCEPT ![r] = Len(log')]
  /\ pc' = [pc EXCEPT ![r] = IF Takes(integration) THEN Awaited(provider) ELSE "refused"]
  /\ stamp' = [stamp EXCEPT ![r] = IF pc'[r] = "recording" THEN clock' ELSE 0]
  /\ UNCHANGED <<integration, lastSync, syncs, told, changes, faults, off>>

Created(r) ==
  /\ At(r, "creating", "finishing")
  /\ syncs' = [syncs EXCEPT !.started = @ \union {delivery[r]}]
  /\ UNCHANGED <<integration, lastSync, told, delivery, stamp, log, clock, changes, faults, off>>

Finished(r) ==
  /\ At(r, "finishing", "publishing")
  /\ syncs' = [syncs EXCEPT !.finished = @ \union {delivery[r]}]
  /\ UNCHANGED <<integration, lastSync, told, delivery, stamp, log, clock, changes, faults, off>>

\* The time is read before the statement that stores it.
Published(r) ==
  /\ At(r, "publishing", "recording")
  /\ told' = told \union {delivery[r]}
  /\ clock' = clock + 1 /\ stamp' = [stamp EXCEPT ![r] = clock']
  /\ UNCHANGED <<integration, lastSync, syncs, delivery, log, changes, faults, off>>

\* recordSync(), of which the result is not looked at.
Recorded(r) ==
  /\ At(r, "recording", "accepted")
  /\ lastSync' = IF integration = "removed" THEN lastSync ELSE stamp[r]
  /\ clock' = clock + 1 /\ log' = [log EXCEPT ![delivery[r]].accepted = clock']
  /\ UNCHANGED <<integration, syncs, told, delivery, stamp, changes, faults, off>>

Rejected(r) ==
  /\ ~Over(r) /\ faults < MaxFaults /\ faults' = faults + 1
  /\ pc' = [pc EXCEPT ![r] = "failed"]
  /\ UNCHANGED <<integration, lastSync, syncs, told, delivery, stamp, log, clock, changes, off>>

\* PATCH /v1/integrations/:id/enabled and DELETE.
Change(state) ==
  /\ integration \notin {state, "removed"} /\ changes < MaxChanges
  /\ integration' = state /\ changes' = changes + 1
  /\ clock' = clock + 1
  /\ off' = IF state = "enabled" THEN 0 ELSE IF off = 0 THEN clock' ELSE off
  /\ UNCHANGED <<lastSync, syncs, told, pc, delivery, stamp, log, faults>>

Next ==
  \/ \E r \in Requests :
       \/ \E provider \in Providers : Deliver(r, provider)
       \/ Created(r) \/ Finished(r) \/ Published(r) \/ Recorded(r) \/ Rejected(r)
  \/ \E state \in {"enabled", "disabled", "removed"} : Change(state)

Spec == Init /\ [][Next]_vars

-----------------------------------------------------------------------------
TypeOK ==
  /\ integration \in {"enabled", "disabled", "removed"} /\ {lastSync, off} \subseteq 0..clock
  /\ syncs.finished \union told \subseteq syncs.started /\ syncs.started \subseteq DOMAIN log
  /\ \A r \in Requests :
       /\ pc[r] \in {"idle", "creating", "finishing", "publishing", "recording", "accepted",
                     "refused", "failed"}
       /\ delivery[r] \in 0..Len(log) /\ stamp[r] \in 0..clock
  /\ changes \in 0..MaxChanges /\ faults \in 0..MaxFaults

Accepted == {d \in DOMAIN log : log[d].accepted # 0}
UnderWay == {delivery[r] : r \in {q \in Requests : ~Over(q)}}

\* What GitHub was told is accepted is on record and announced; a record that
\* is neither accepted nor under way takes a rejection of its own
\* (registry.ts:56-75, routes/webhooks.ts:68-78).
AcceptedOnRecord ==
  /\ \A d \in Accepted : log[d].provider = "github" => d \in syncs.finished \intersect told
  /\ Cardinality(syncs.started \ (Accepted \union UnderWay)) <= faults

\* While an integration is disabled, or after it is removed, nothing that has
\* arrived since is on record (routes/webhooks.ts:59-67).
SilentWhenOff ==
  off # 0 => \A d \in syncs.started \union Accepted : log[d].arrived < off

\* lastSyncAt is not before the arrival of a delivery that was accepted,
\* unless another began before it and ended after it, or the integration was
\* removed (routes/webhooks.ts:77, integration.repository.ts:157-164).
SyncedForward ==
  integration # "removed" =>
    \A d \in Accepted :
      \/ lastSync >= log[d].arrived
      \/ \E w \in Accepted :
           log[w].arrived < log[d].arrived /\ log[w].accepted > log[d].accepted

DeliveriesSound == AcceptedOnRecord /\ SilentWhenOff /\ SyncedForward
=============================================================================

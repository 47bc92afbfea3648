-------------------------- MODULE RemediationTasks --------------------------
(***************************************************************************)
(* Applying one remediation proposal, from the page to GitHub and back:    *)
(*   the Apply tab (frontend lib/api.ts, routes/Remediation.tsx) submits a *)
(*     task and polls it, at most 20 times;                                *)
(*   agent-service (routes/agent.ts, agents/registry.ts, task-queue.ts,    *)
(*     clients/integration.client.ts) keeps the task in memory, runs it,   *)
(*     and gives its call up after 15 s;                                   *)
(*   integration-service (routes/integrations.ts) opens the issue or pull  *)
(*     request, giving GitHub up after 10 s, then writes a sync row and    *)
(*     announces it.                                                       *)
(* Nobody tells the next service that it has given up, so an answer can    *)
(* come late and an issue be opened that its task does not know of.  Tasks *)
(* are numbered in order of submission (bound MaxTasks).  Sync rows are in *)
(* PostgreSQL and survive; tasks do not.                                   *)
(***************************************************************************)
EXTENDS Integers, FiniteSets

CONSTANTS
  MaxTasks,   \* bound on submissions
  MaxFaults   \* bound on crashes, failed requests, writes and publishes

ASSUME RemediationBoundsAssumption == MaxTasks \in Nat /\ MaxFaults \in Nat

Tasks == 1..MaxTasks

\* What is submitted, by the place that decides it: no agent, the task's
\* schema, the agent's policy, the route's checks, a dry run, GitHub.
Kinds == {"unknown", "invalid", "refused", "rejected", "dry", "open"}

VARIABLES
  made,      \* tasks 1..made were submitted
  page,      \* what the Apply tab does with task made
  told,      \* tasks it showed as applied
  kind,      \* kind of each task
  status,    \* its status in the queue, "lost" when the process died
  applied,   \* does its result say that something was opened
  agent,     \* where dispatch() is
  route,     \* where the remediation route is with the task's request
  issues,    \* tasks for which GitHub opened an issue or pull request
  sync,      \* status of the sync row of a task's request
  synced,    \* tasks whose integration.sync.completed is on the bus
  heard,     \* outcomes that agent.task.completed announced for a task
  late,      \* history: time-outs that expired, with their task
  faults     \* faults so far

vars == <<made, page, told, kind, status, applied, agent, route, issues, sync,
          synced, heard, late, faults>>
queue  == <<kind, status, applied>>
audit  == <<issues, sync, synced>>
trouble == <<late, faults>>
tab    == <<made, page, told>>

Init ==
  /\ made = 0 /\ page = "idle" /\ faults = 0
  /\ told = {} /\ issues = {} /\ synced = {} /\ late = {}
  /\ kind    = [t \in Tasks |-> "none"]
  /\ status  = [t \in Tasks |-> "none"]
  /\ applied = [t \in Tasks |-> FALSE]
  /\ agent   = [t \in Tasks |-> "none"]
  /\ route   = [t \in Tasks |-> "none"]
  /\ sync    = [t \in Tasks |-> "none"]
  /\ heard   = [t \in Tasks |-> {}]

Fault == faults < MaxFaults /\ faults' = faults + 1 /\ UNCHANGED late

Late(what, t) == late' = late \union {<<what, t>>} /\ UNCHANGED faults

-----------------------------------------------------------------------------
(***************************************************************************)
(* The Apply tab.                                                          *)
(***************************************************************************)

\* Mutant: the button stays enabled while the task is polled.
SubmitAgain ==
  /\ page # "posting" /\ made < MaxTasks
  /\ made' = made + 1 /\ page' = "posting"
  /\ \E k \in Kinds : kind' = [kind EXCEPT ![made'] = k]
  /\ status' = [status EXCEPT ![made'] = "pending"]
  /\ agent'  = [agent EXCEPT ![made'] = "scheduled"]
  /\ UNCHANGED <<told, applied, route, audit, heard, trouble>>

\* POST /v1/agents/tasks: enqueue(), the dispatch is scheduled, and the
\* publish of agent.task.requested begins.
Submit ==
  /\ page = "idle" /\ made < MaxTasks
  /\ made' = made + 1 /\ page' = "posting"
  /\ \E k \in Kinds : kind' = [kind EXCEPT ![made'] = k]
  /\ status' = [status EXCEPT ![made'] = "pending"]
  /\ agent'  = [agent EXCEPT ![made'] = "scheduled"]
  /\ UNCHANGED <<told, applied, route, audit, heard, trouble>>

Turn(from, to) ==
  /\ page = from /\ page' = to
  /\ UNCHANGED <<made, queue, agent, route, audit, heard>>

\* 202: the page begins to poll.
Accepted == Turn("posting", "polling") /\ UNCHANGED <<told, trouble>>

\* The publish rejects and the answer is 500, or the request itself fails.
\* The dispatch is scheduled all the same.
SubmitFails == Turn("posting", "idle") /\ Fault /\ UNCHANGED told

\* A poll finds the task settled, or gone.
PollSettled ==
  /\ Turn("polling", "idle") /\ status[made] # "pending"
  /\ told' = told \union {t \in {made} : status[t] = "completed" /\ applied[t]}
  /\ UNCHANGED trouble

PollFails == Turn("polling", "idle") /\ Fault /\ UNCHANGED told

\* The last of the 20 polls still finds it pending.
PollsRunOut ==
  /\ Turn("polling", "idle") /\ status[made] = "pending"
  /\ Late("polls", made)
  /\ UNCHANGED told

-----------------------------------------------------------------------------
(***************************************************************************)
(* agent-service: dispatch().                                              *)
(***************************************************************************)

\* complete() or fail(); the publish of agent.task.completed begins.
Settle(t, outcome, opened) ==
  /\ status'  = [status EXCEPT ![t] = outcome]
  /\ applied' = [applied EXCEPT ![t] = opened]
  /\ agent'   = [agent EXCEPT ![t] = outcome]
  /\ UNCHANGED <<tab, kind, audit, heard>>

\* fail() leaves the result in place.
Fail(t) == Settle(t, "failed", applied[t])

\* Mutant: a task without an agent fails silently.
RunQuietly(t) ==
  /\ agent[t] = "scheduled"
  /\ \/ /\ kind[t] = "unknown"
        /\ status' = [status EXCEPT ![t] = "failed"]
        /\ agent'  = [agent EXCEPT ![t] = "over"]
        /\ UNCHANGED <<tab, kind, applied, audit, heard>>
     \/ kind[t] = "invalid" /\ Fail(t)
     \/ kind[t] = "refused" /\ Settle(t, "completed", FALSE)
  /\ UNCHANGED <<route, trouble>>

\* Decided without a call.  (Pending tasks are run by the request that made
\* them: nothing calls dequeue().)
RunLocally(t) ==
  /\ agent[t] = "scheduled" /\ kind[t] \in {"unknown", "invalid", "refused"}
  /\ IF kind[t] = "refused" THEN Settle(t, "completed", FALSE) ELSE Fail(t)
  /\ UNCHANGED <<route, trouble>>

\* applyRemediation() calls the integration service.
Call(t) ==
  /\ agent[t] = "scheduled" /\ kind[t] \in {"rejected", "dry", "open"}
  /\ agent' = [agent EXCEPT ![t] = "calling"]
  /\ route' = [route EXCEPT ![t] = "check"]
  /\ UNCHANGED <<tab, queue, audit, heard, trouble>>

\* The answer arrives: 2xx completes the task, anything else fails it, as
\* does the death of the other service.
Answered(t) ==
  /\ agent[t] = "calling" /\ route[t] \in {"ok", "error", "dead"}
  /\ IF route[t] = "ok" THEN Settle(t, "completed", kind[t] = "open") ELSE Fail(t)
  /\ UNCHANGED <<route, trouble>>

\* Mutant: the time-out only ends a call that was answered.
AbortWhenAnswered(t) ==
  /\ agent[t] = "calling" /\ route[t] \in {"ok", "error", "dead"}
  /\ Late("call", t)
  /\ Fail(t)
  /\ UNCHANGED route

\* Mutant: an aborted call cancels the task.
AbortCancels(t) ==
  /\ agent[t] = "calling"
  /\ Late("call", t)
  /\ Settle(t, "cancelled", applied[t])
  /\ UNCHANGED route

\* AbortSignal.timeout, or a broken connection: the route goes on.
CallTimesOut(t) ==
  /\ agent[t] = "calling"
  /\ Late("call", t)
  /\ Fail(t)
  /\ UNCHANGED route

\* The publish resolves.
Announced(t) ==
  /\ agent[t] \in {"completed", "failed"}
  /\ heard' = [heard EXCEPT ![t] = @ \union {agent[t]}]
  /\ agent' = [agent EXCEPT ![t] = "over"]
  /\ UNCHANGED <<tab, queue, route, audit, trouble>>

\* The publish rejects, its event on the bus or not.  That of a completion is
\* inside the try: the catch fails the completed task and announces that.
NotAnnounced(t) ==
  /\ agent[t] \in {"completed", "failed"} /\ Fault
  /\ heard' \in {heard, [heard EXCEPT ![t] = @ \union {agent[t]}]}
  /\ IF agent[t] = "completed"
     THEN /\ status' = [status EXCEPT ![t] = "failed"]
          /\ agent'  = [agent EXCEPT ![t] = "failed"]
     ELSE UNCHANGED status /\ agent' = [agent EXCEPT ![t] = "over"]
  /\ UNCHANGED <<tab, kind, applied, route, audit>>

\* The tasks are gone and so are the calls; the routes go on.
AgentCrash ==
  /\ Fault
  /\ status'  = [t \in Tasks |-> IF t <= made THEN "lost" ELSE "none"]
  /\ applied' = [t \in Tasks |-> FALSE]
  /\ agent'   = [t \in Tasks |-> IF t <= made THEN "over" ELSE "none"]
  /\ page'    = IF page = "posting" THEN "idle" ELSE page
  /\ UNCHANGED <<made, told, kind, route, audit, heard>>

-----------------------------------------------------------------------------
(***************************************************************************)
(* integration-service: POST /v1/integrations/:id/remediation.             *)
(***************************************************************************)

Reach(t, from, to) ==
  /\ route[t] = from /\ route' = [route EXCEPT ![t] = to]
  /\ UNCHANGED <<tab, queue, agent, heard>>

\* The checks of the route, and the dry run that ends it.
Check(t) ==
  /\ Reach(t, "check", CASE kind[t] = "rejected" -> "error"
                         [] kind[t] = "dry"      -> "ok"
                         [] OTHER                -> "github")
  /\ UNCHANGED <<audit, trouble>>

\* Mutant: the caller is answered before the row is written.
OpenAndAnswer(t) ==
  /\ Reach(t, "github", "ok")
  /\ issues' = issues \union {t}
  /\ UNCHANGED <<sync, synced, trouble>>

\* GitHub opens the issue and answers.
Open(t) ==
  /\ Reach(t, "github", "succeeded")
  /\ issues' = issues \union {t}
  /\ UNCHANGED <<sync, synced, trouble>>

\* GitHub refuses, or cannot be reached.
OpenFails(t) ==
  /\ Reach(t, "github", "failed")
  /\ UNCHANGED <<audit, trouble>>

\* No answer in 10 s, or one that cannot be read: GitHub may have opened it.
OpenUnanswered(t) ==
  /\ Reach(t, "github", "failed")
  /\ issues' \in {issues, issues \union {t}}
  /\ Late("github", t)
  /\ UNCHANGED <<sync, synced>>

Recorded(t) == [sync EXCEPT ![t] = route[t]]

\* syncs.create() with the outcome; syncs.finish() writes the same again.
InsertSync(t) ==
  /\ route[t] \in {"succeeded", "failed"}
  /\ sync' = Recorded(t)
  /\ Reach(t, route[t], "publish")
  /\ UNCHANGED <<issues, synced, trouble>>

\* Mutant: the publish is not awaited.
AnswerUnsynced(t) ==
  /\ Reach(t, "publish", IF sync[t] = "succeeded" THEN "ok" ELSE "error")
  /\ UNCHANGED <<audit, trouble>>

\* integration.sync.completed is on the bus; a failure is answered 502.
PublishSync(t) ==
  /\ Reach(t, "publish", IF sync[t] = "succeeded" THEN "ok" ELSE "error")
  /\ synced' = synced \union {t}
  /\ UNCHANGED <<issues, sync, trouble>>

\* A write or the publish rejects, its effect done or not: 500.
SyncFails(t) ==
  /\ route[t] \in {"succeeded", "failed", "publish"} /\ Fault
  /\ Reach(t, route[t], "error")
  /\ IF route[t] = "publish"
     THEN synced' \in {synced, synced \union {t}} /\ UNCHANGED sync
     ELSE sync' \in {sync, Recorded(t)} /\ UNCHANGED synced
  /\ UNCHANGED issues

IntegrationCrash ==
  /\ Fault
  /\ route' = [t \in Tasks |-> IF route[t] \in {"none", "ok", "error"} THEN route[t] ELSE "dead"]
  /\ UNCHANGED <<tab, queue, agent, audit, heard>>

-----------------------------------------------------------------------------

Page == Submit \/ Accepted \/ SubmitFails \/ PollSettled \/ PollFails \/ PollsRunOut

Dispatch(t) ==
  \/ RunLocally(t) \/ Call(t) \/ Answered(t) \/ CallTimesOut(t)
  \/ Announced(t) \/ NotAnnounced(t)

Route(t) ==
  \/ Check(t) \/ Open(t) \/ OpenFails(t) \/ OpenUnanswered(t)
  \/ InsertSync(t) \/ PublishSync(t) \/ SyncFails(t)

Next ==
  \/ Page
  \/ \E t \in Tasks : Dispatch(t) \/ Route(t)
  \/ AgentCrash \/ IntegrationCrash

Spec == Init /\ [][Next]_vars

\* The agent service runs what it scheduled and its timer fires.  Nothing is
\* asked of the integration service, of GitHub or of the user.
Fairness == \A t \in Tasks : WF_vars(Dispatch(t))

FairSpec == Spec /\ Fairness

-----------------------------------------------------------------------------

TypeOK ==
  /\ made \in 0..MaxTasks /\ faults \in 0..MaxFaults
  /\ page \in {"idle", "posting", "polling"} /\ (page # "idle" => made > 0)
  /\ kind \in [Tasks -> Kinds \union {"none"}]
  /\ status \in [Tasks -> {"none", "pending", "completed", "failed", "lost"}]
  /\ applied \in [Tasks -> BOOLEAN]
  /\ agent \in [Tasks -> {"none", "scheduled", "calling", "completed", "failed", "over"}]
  /\ route \in [Tasks -> {"none", "check", "github", "succeeded", "failed",
                         "publish", "ok", "error", "dead"}]
  /\ sync \in [Tasks -> {"none", "succeeded", "failed"}]
  /\ heard \in [Tasks -> SUBSET {"completed", "failed"}]
  /\ told \subseteq 1..made /\ issues \subseteq 1..made /\ synced \subseteq 1..made
  /\ late \subseteq {"polls", "call", "github"} \X (1..made)

Troubles == faults + Cardinality(late)

Over == {"ok", "error", "dead"}

\* A task whose result, or whose page, says that something was opened did open
\* it, with a sync row that says succeeded and integration.sync.completed on
\* the bus, whatever failed, timed out or was restarted in between.
ReportedMeansDone ==
  \A t \in told \union {u \in Tasks : applied[u]} :
    t \in issues /\ sync[t] = "succeeded" /\ t \in synced

\* An issue that is open on GitHub and that the audit does not know of, no row
\* or a failed one or no announcement, has a fault or a time-out of its own.
AuditGaps ==
  Cardinality({t \in issues : route[t] \in Over /\ ~(sync[t] = "succeeded" /\ t \in synced)})
    <= Troubles

\* The page lets its user ask again only when it has told him what became of
\* the last submission: an issue he was not told of, the one an impatient
\* second submission doubles, has a fault or a time-out of its own.
UntoldNeedsTrouble ==
  Cardinality({t \in issues : t \notin told /\ ~(t = made /\ page # "idle")}) <= Troubles

\* When dispatch() is over, the bus has heard of a task exactly what the queue
\* says of it, except for one task per fault.
OutcomeAnnounced ==
  Cardinality({t \in Tasks : /\ status[t] \in {"completed", "failed"}
                            /\ agent[t] = "over"
                            /\ heard[t] # {status[t]}}) <= faults

(***************************************************************************)
(* The inductive invariant behind the four.                                *)
(***************************************************************************)

Done(t)    == t \in issues /\ sync[t] = "succeeded" /\ t \in synced
Current(t) == t = made /\ page # "idle"

Unopened  == {"none", "check", "github"}
Undecided == {"scheduled", "calling"}

\* How far the page, the queue, the route and the audit can be apart.
Consistent(t) ==
  /\ t > made => kind[t] = "none" /\ status[t] = "none" /\ agent[t] = "none"
  /\ t <= made => status[t] # "none" /\ agent[t] # "none"
  /\ agent[t] \in {"none", "scheduled"} => route[t] = "none"
  /\ agent[t] \in Undecided => status[t] = "pending"
  /\ agent[t] \in Undecided \union {"none"} => heard[t] = {}
  /\ agent[t] \in {"completed", "failed"} => status[t] = agent[t]
  /\ route[t] \in {"check", "ok"} => kind[t] \in {"rejected", "dry", "open"}
  /\ route[t] \in {"github", "succeeded", "failed", "publish"} => kind[t] = "open"
  /\ t \in issues => kind[t] = "open" /\ route[t] \notin Unopened
  /\ route[t] = "succeeded" \/ sync[t] = "succeeded" => t \in issues
  /\ t \in synced => route[t] \in Over
  /\ applied[t] \/ t \in told \/ (route[t] = "ok" /\ kind[t] = "open") => Done(t)
  /\ status[t] = "completed" /\ kind[t] = "open" => applied[t]

TaskInv == \A t \in Tasks : Consistent(t)

\* A time-out expires at most once for a task.
ExpiredOnce(t) ==
  /\ <<"polls", t>> \in late => ~Current(t)
  /\ <<"call", t>> \in late => agent[t] \notin Undecided
  /\ <<"github", t>> \in late => route[t] \notin Unopened

LateInv == \A t \in Tasks : ExpiredOnce(t)

\* Something went wrong for a task that its page still waits for.
Doomed(t) ==
  \/ status[t] \in {"failed", "lost"}
  \/ route[t] \in {"failed", "error", "dead"}
  \/ route[t] = "publish" /\ sync[t] # "succeeded"

\* The tasks that must have a fault or a time-out of their own: those that
\* opened an issue or still may, and that the page gave up or is bound to.
Charged ==
  {t \in 1..made : /\ kind[t] = "open" /\ (t \in issues \/ route[t] \in Unopened)
                   /\ t \notin told /\ (Current(t) => Doomed(t))}

ChargeInv == Cardinality(Charged) <= Troubles

\* The tasks of which the bus has heard, or is bound to hear, something else
\* than what the queue says.
Misheard ==
  {t \in Tasks : \/ agent[t] \in {"completed", "failed"} /\ heard[t] # {}
                 \/ /\ agent[t] = "over" /\ status[t] \in {"completed", "failed"}
                    /\ heard[t] # {status[t]}}

MisheardInv == Cardinality(Misheard) <= faults

IInv == TypeOK /\ TaskInv /\ LateInv /\ ChargeInv /\ MisheardInv

\* No task stays pending for ever, however long GitHub or the integration
\* service hang.
EventuallyDecided == \A t \in Tasks : status[t] = "pending" ~> status[t] # "pending"

\* Every attempt that is answered has a sync row, whether it succeeded or not.
EveryAttemptRecorded ==
  \A t \in Tasks :
    kind[t] = "open" /\ route[t] \in {"ok", "error"} => sync[t] # "none"

=============================================================================

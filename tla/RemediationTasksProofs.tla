----------------------- MODULE RemediationTasksProofs -----------------------
(***************************************************************************)
(* Theorems about RemediationTasks for any number of submissions and       *)
(* faults.                                                                 *)
(***************************************************************************)
EXTENDS RemediationTasks, DataLemmas

(***************************************************************************)
(* Type correctness.                                                       *)
(***************************************************************************)

\* The initial state is well typed.
LEMMA TypeInit == Init => TypeOK
  BY RemediationBoundsAssumption DEF Init, TypeOK, Tasks

\* Only a submitted task has a request on its way.
LEMMA Submitted ==
  ASSUME TypeOK, TaskInv, NEW t \in Tasks, route[t] # "none" \/ agent[t] # "none"
  PROVE  t \in 1..made
  BY RemediationBoundsAssumption DEF TypeOK, TaskInv, Consistent, Tasks

\* Every step of the Apply tab keeps the types.
LEMMA PageTypeStep == ASSUME TypeOK, Page PROVE TypeOK'
<1> USE RemediationBoundsAssumption DEF TypeOK
<1>1. CASE Submit
  <2>1. made' = made + 1 /\ made' \in Tasks /\ made' \in 0..MaxTasks /\ made' > 0
    BY <1>1 DEF Submit, Tasks
  <2>2. PICK k \in Kinds : kind' = [kind EXCEPT ![made'] = k]
    BY <1>1 DEF Submit
  <2>3. told' \subseteq 1..made' /\ issues' \subseteq 1..made' /\ synced' \subseteq 1..made'
        /\ late' \subseteq {"polls", "call", "github"} \X (1..made')
    <3>1. 1..made \subseteq 1..made'
      BY <2>1
    <3> QED  BY <1>1, <3>1 DEF Submit, audit, trouble
  <2> QED  BY <1>1, <2>1, <2>2, <2>3 DEF Submit, audit, trouble
<1>2. CASE Accepted \/ SubmitFails \/ PollFails
  <2>1. /\ page' \in {"idle", "polling"} /\ page # "idle" /\ faults' \in 0..MaxFaults
        /\ UNCHANGED <<made, told, queue, agent, route, audit, heard, late>>
    BY <1>2 DEF Accepted, SubmitFails, PollFails, Turn, Fault, trouble
  <2> QED  BY <2>1 DEF queue, audit
<1>3. CASE PollSettled
  <2>1. {t \in {made} : status[t] = "completed" /\ applied[t]} \subseteq 1..made
    BY <1>3 DEF PollSettled, Turn
  <2>2. told' \subseteq 1..made
    BY <1>3, <2>1 DEF PollSettled
  <2> QED  BY <1>3, <2>2 DEF PollSettled, Turn, queue, audit, trouble
<1>4. CASE PollsRunOut
  <2>1. made \in 1..made
    BY <1>4 DEF PollsRunOut, Turn
  <2> QED  BY <1>4, <2>1 DEF PollsRunOut, Turn, Late, queue, audit
<1> QED  BY <1>1, <1>2, <1>3, <1>4 DEF Page

\* Every step of dispatch() keeps the types.
LEMMA DispatchTypeStep ==
  ASSUME TypeOK, TaskInv, NEW t \in Tasks, Dispatch(t) PROVE TypeOK'
<1> USE RemediationBoundsAssumption DEF TypeOK
<1>1. t \in 1..made
  BY Submitted DEF Dispatch, RunLocally, Call, Answered, CallTimesOut, Announced, NotAnnounced
<1>2. ASSUME NEW outcome \in {"completed", "failed"}, NEW opened \in BOOLEAN,
             Settle(t, outcome, opened), UNCHANGED route, UNCHANGED trouble \/ Late("call", t)
      PROVE  TypeOK'
  BY <1>1, <1>2 DEF Settle, Late, tab, audit, trouble
<1>3. CASE RunLocally(t) \/ Answered(t) \/ CallTimesOut(t)
  <2>1. applied[t] \in BOOLEAN /\ (kind[t] = "open") \in BOOLEAN
    OBVIOUS
  <2> QED  BY <1>2, <1>3, <2>1 DEF RunLocally, Answered, CallTimesOut, Fail
<1>4. CASE Call(t)
  BY <1>4 DEF Call, tab, queue, audit, trouble
<1>5. CASE Announced(t)
  BY <1>5 DEF Announced, tab, queue, audit, trouble
<1>6. CASE NotAnnounced(t)
  <2>1. heard' \in [Tasks -> SUBSET {"completed", "failed"}]
    BY <1>6 DEF NotAnnounced
  <2> QED  BY <1>6, <2>1 DEF NotAnnounced, Fault, tab, audit
<1> QED  BY <1>3, <1>4, <1>5, <1>6 DEF Dispatch

\* Every step of the remediation route keeps the types.
LEMMA RouteTypeStep ==
  ASSUME TypeOK, TaskInv, NEW t \in Tasks, Route(t) PROVE TypeOK'
<1> USE RemediationBoundsAssumption DEF TypeOK
<1>1. t \in 1..made
  BY Submitted DEF Route, Check, Open, OpenFails, OpenUnanswered, InsertSync, PublishSync,
     SyncFails, Reach
<1>2. CASE Check(t)
  BY <1>2 DEF Check, Reach, tab, queue, audit, trouble
<1>3. CASE Open(t) \/ OpenFails(t)
  BY <1>1, <1>3 DEF Open, OpenFails, Reach, tab, queue, audit, trouble
<1>4. CASE OpenUnanswered(t)
  BY <1>1, <1>4 DEF OpenUnanswered, Reach, Late, tab, queue
<1>5. CASE InsertSync(t)
  BY <1>5 DEF InsertSync, Recorded, Reach, tab, queue, trouble
<1>6. CASE PublishSync(t)
  BY <1>1, <1>6 DEF PublishSync, Reach, tab, queue, trouble
<1>7. CASE SyncFails(t)
  <2>1. /\ route' = [route EXCEPT ![t] = "error"] /\ faults' \in 0..MaxFaults
        /\ UNCHANGED <<tab, queue, agent, heard, issues, late>>
    BY <1>7 DEF SyncFails, Reach, Fault
  <2>2. sync' \in [Tasks -> {"none", "succeeded", "failed"}] /\ synced' \subseteq 1..made
    BY <1>1, <1>7 DEF SyncFails, Recorded
  <2> QED  BY <2>1, <2>2 DEF tab, queue
<1> QED  BY <1>2, <1>3, <1>4, <1>5, <1>6, <1>7 DEF Route

\* Every step keeps the types.
LEMMA TypeStep == TypeOK /\ TaskInv /\ [Next]_vars => TypeOK'
<1> SUFFICES ASSUME TypeOK, TaskInv, [Next]_vars PROVE TypeOK'
  OBVIOUS
<1>1. CASE AgentCrash
  BY <1>1, RemediationBoundsAssumption DEF AgentCrash, Fault, TypeOK, audit
<1>2. CASE IntegrationCrash
  BY <1>2, RemediationBoundsAssumption
     DEF IntegrationCrash, Fault, TypeOK, tab, queue, audit
<1>3. CASE UNCHANGED vars
  BY <1>3 DEF vars, TypeOK
<1> QED
  BY <1>1, <1>2, <1>3, PageTypeStep, DispatchTypeStep, RouteTypeStep DEF Next

(***************************************************************************)
(* TaskInv.                                                                *)
(***************************************************************************)

\* What Consistent says of a task whose own state does not change.
Untouched(t) ==
  /\ kind'[t] = kind[t] /\ status'[t] = status[t] /\ applied'[t] = applied[t]
  /\ agent'[t] = agent[t] /\ route'[t] = route[t] /\ heard'[t] = heard[t]
  /\ sync'[t] = sync[t] /\ (t \in issues' <=> t \in issues)
  /\ (t \in synced' <=> t \in synced) /\ (t \in told' <=> t \in told)
  /\ (t > made' <=> t > made)

\* A task nobody touches stays consistent.
LEMMA UntouchedStep ==
  ASSUME TypeOK, NEW t \in Tasks, Consistent(t), Untouched(t), made' \in Nat
  PROVE  Consistent(t)'
<1>1. t \in Nat /\ made \in Nat
  BY DEF TypeOK, Tasks
<1>2. t <= made' <=> t <= made
  BY <1>1 DEF Untouched
<1> QED  BY <1>1, <1>2 DEF Untouched, Consistent, Done

\* The initial state has no tasks.
LEMMA TaskInit == Init => TaskInv /\ LateInv
<1> SUFFICES ASSUME Init, NEW t \in Tasks PROVE Consistent(t) /\ ExpiredOnce(t)
  BY DEF TaskInv, LateInv
<1>1. Consistent(t)
  BY DEF Init, Consistent, Unopened, Undecided, Over, Tasks, Done
<1>2. ExpiredOnce(t)
  BY DEF Init, ExpiredOnce
<1> QED  BY <1>1, <1>2

\* Every step of the Apply tab keeps page, queue, route and audit together.
LEMMA PageTaskStep ==
  ASSUME TypeOK, TaskInv, Page, NEW t \in Tasks PROVE Consistent(t)'
<1>0. /\ TypeOK' /\ Consistent(t) /\ made' \in Nat /\ t \in Nat /\ made \in Nat
  BY PageTypeStep, RemediationBoundsAssumption DEF TaskInv, TypeOK, Tasks
<1>1. CASE Submit
  <2>1. made' = made + 1 /\ made' \in Tasks
    BY <1>1, <1>0, RemediationBoundsAssumption DEF Submit, Tasks
  <2>2. PICK k \in Kinds : kind' = [kind EXCEPT ![made'] = k]
    BY <1>1 DEF Submit
  <2>3. CASE t = made'
    <3>1. t > made
      BY <1>0, <2>1, <2>3
    <3>2. /\ kind'[t] = k /\ status'[t] = "pending" /\ agent'[t] = "scheduled"
          /\ UNCHANGED <<told, applied, route, issues, sync, synced, heard>>
      BY <1>1, <2>1, <2>2, <2>3 DEF Submit, audit, TypeOK
    <3>3. agent[t] = "none" /\ route[t] = "none" /\ heard[t] = {} /\ kind[t] = "none"
      BY <1>0, <3>1 DEF Consistent
    <3> QED
      BY <1>0, <2>1, <2>3, <3>1, <3>2, <3>3 DEF Consistent, Done, Undecided, Unopened, Over
  <2>4. CASE t # made'
    <3>1. Untouched(t)
      BY <1>0, <1>1, <2>1, <2>2, <2>4 DEF Submit, Untouched, audit, TypeOK
    <3> QED  BY <1>0, <3>1, UntouchedStep
  <2> QED  BY <2>3, <2>4
<1>2. CASE Accepted \/ SubmitFails \/ PollFails \/ PollsRunOut
  <2>1. Untouched(t)
    BY <1>2 DEF Accepted, SubmitFails, PollFails, PollsRunOut, Turn, queue, audit, Untouched
  <2> QED  BY <1>0, <2>1, UntouchedStep
<1>3. CASE PollSettled
  BY <1>0, <1>3 DEF PollSettled, Turn, queue, audit, Consistent, Done
<1> QED  BY <1>1, <1>2, <1>3 DEF Page

\* So does every step of dispatch().
LEMMA DispatchTaskStep ==
  ASSUME TypeOK, TaskInv, NEW u \in Tasks, Dispatch(u), NEW t \in Tasks PROVE Consistent(t)'
<1>0. /\ Consistent(t) /\ t \in Nat /\ made \in Nat
  BY DEF TaskInv, TypeOK, Tasks
<1>1. UNCHANGED <<made, told, kind, issues, sync, synced>>
  BY DEF Dispatch, RunLocally, Call, Answered, CallTimesOut, Announced, NotAnnounced, Settle,
     Fail, tab, queue, audit
<1>2. CASE t # u
  <2>1. Untouched(t)
    BY <1>1, <1>2 DEF Dispatch, RunLocally, Call, Answered, CallTimesOut, Announced,
       NotAnnounced, Settle, Fail, queue, TypeOK, Untouched
  <2> QED  BY <1>0, <1>1, <2>1, UntouchedStep
<1>3. CASE t = u
  <2> USE <1>0, <1>1, <1>3 DEF TypeOK, Consistent, Done
  <2>1. CASE RunLocally(u)
    BY <2>1 DEF RunLocally, Fail, Settle, Undecided
  <2>2. CASE Call(u)
    BY <2>2 DEF Call, queue, Undecided, Unopened, Over
  <2>3. CASE Answered(u)
    <3>1. CASE route[u] = "ok"
      <4>1. /\ status' = [status EXCEPT ![u] = "completed"]
            /\ agent' = [agent EXCEPT ![u] = "completed"]
            /\ UNCHANGED <<route, heard>>
        BY <2>3, <3>1 DEF Answered, Settle
      <4>2. applied'[u] <=> kind[u] = "open"
        BY <2>3, <3>1 DEF Answered, Settle
      <4> QED  BY <3>1, <4>1, <4>2 DEF Undecided
    <3>2. CASE route[u] # "ok"
      BY <2>3, <3>2 DEF Answered, Fail, Settle, Undecided
    <3> QED  BY <3>1, <3>2
  <2>4. CASE CallTimesOut(u)
    BY <2>4 DEF CallTimesOut, Fail, Settle, Undecided
  <2>5. CASE Announced(u)
    BY <2>5 DEF Announced, queue, Undecided
  <2>6. CASE NotAnnounced(u)
    BY <2>6 DEF NotAnnounced, Undecided
  <2> QED  BY <2>1, <2>2, <2>3, <2>4, <2>5, <2>6 DEF Dispatch
<1> QED  BY <1>2, <1>3

\* So does every step of the remediation route.
LEMMA RouteTaskStep ==
  ASSUME TypeOK, TaskInv, NEW u \in Tasks, Route(u), NEW t \in Tasks PROVE Consistent(t)'
<1>0. /\ Consistent(t) /\ t \in Nat /\ made \in Nat
  BY DEF TaskInv, TypeOK, Tasks
<1>1. UNCHANGED <<made, told, kind, status, applied, agent, heard>>
  BY DEF Route, Check, Open, OpenFails, OpenUnanswered, InsertSync, PublishSync, SyncFails,
     Reach, tab, queue
<1>2. CASE t # u
  <2>1. Untouched(t)
    BY <1>1, <1>2 DEF Route, Check, Open, OpenFails, OpenUnanswered, InsertSync, PublishSync,
       SyncFails, Reach, Recorded, audit, TypeOK, Untouched
  <2> QED  BY <1>0, <1>1, <2>1, UntouchedStep
<1>3. CASE t = u
  <2> USE <1>0, <1>1, <1>3 DEF TypeOK, Consistent, Done, Reach, Unopened, Over
  <2>1. CASE Check(u)
    BY <2>1 DEF Check, audit, Undecided
  <2>2. CASE Open(u)
    BY <2>2 DEF Open, Undecided
  <2>3. CASE OpenFails(u) \/ OpenUnanswered(u)
    BY <2>3 DEF OpenFails, OpenUnanswered, audit, Undecided
  <2>4. CASE InsertSync(u)
    BY <2>4 DEF InsertSync, Recorded, Undecided
  <2>5. CASE PublishSync(u)
    BY <2>5 DEF PublishSync, Undecided
  <2>6. CASE SyncFails(u)
    BY <2>6 DEF SyncFails, Recorded, Undecided
  <2> QED  BY <2>1, <2>2, <2>3, <2>4, <2>5, <2>6 DEF Route
<1> QED  BY <1>2, <1>3

\* And so do the crashes.
LEMMA TaskStep == TypeOK /\ TaskInv /\ [Next]_vars => TaskInv'
<1> SUFFICES ASSUME TypeOK, TaskInv, [Next]_vars, NEW t \in Tasks PROVE Consistent(t)'
  BY DEF TaskInv
<1>0. /\ Consistent(t) /\ t \in Nat /\ made \in Nat
  BY DEF TaskInv, TypeOK, Tasks
<1>1. CASE AgentCrash
  BY <1>0, <1>1 DEF AgentCrash, audit, TypeOK, Consistent, Done, Undecided
<1>2. CASE IntegrationCrash
  BY <1>0, <1>2 DEF IntegrationCrash, tab, queue, audit, TypeOK, Consistent, Done, Unopened, Over
<1>3. CASE UNCHANGED vars
  BY <1>0, <1>3, UntouchedStep DEF vars, Untouched
<1> QED
  BY <1>1, <1>2, <1>3, PageTaskStep, DispatchTaskStep, RouteTaskStep DEF Next

(***************************************************************************)
(* LateInv.                                                                *)
(***************************************************************************)

\* A time-out is recorded for a task that was submitted.
LEMMA LateStep == TypeOK /\ TaskInv /\ LateInv /\ [Next]_vars => LateInv'
<1> SUFFICES ASSUME TypeOK, TaskInv, LateInv, [Next]_vars, NEW t \in Tasks
             PROVE  ExpiredOnce(t)'
  BY DEF LateInv
<1>0. ExpiredOnce(t) /\ Consistent(t) /\ t \in Nat /\ made \in Nat
  BY DEF LateInv, TaskInv, TypeOK, Tasks
<1> USE <1>0 DEF ExpiredOnce, Current, Unopened, Undecided
<1>1. CASE Submit
  <2>1. made' = made + 1 /\ UNCHANGED <<late, route>>
    BY <1>1 DEF Submit, trouble
  <2>2. t = made' => \A x : <<x, t>> \notin late
    BY <2>1 DEF TypeOK
  <2>3. t # made' => agent'[t] = agent[t]
    BY <1>1 DEF Submit, TypeOK
  <2>4. t # made' /\ t = made => page = "idle"
    BY <1>1 DEF Submit
  <2> QED  BY <2>1, <2>2, <2>3, <1>1
<1>2. CASE Accepted \/ SubmitFails \/ PollSettled \/ PollFails
  BY <1>2 DEF Accepted, SubmitFails, PollSettled, PollFails, Turn, Fault, trouble
<1>3. CASE PollsRunOut
  BY <1>3 DEF PollsRunOut, Turn, Late
<1>4. ASSUME NEW u \in Tasks, Dispatch(u) PROVE ExpiredOnce(t)'
  BY <1>4 DEF Dispatch, RunLocally, Call, Answered, CallTimesOut, Announced, NotAnnounced, Settle,
     Fail, Late, Fault, tab, queue, trouble, TypeOK, Consistent
<1>5. ASSUME NEW u \in Tasks, Route(u) PROVE ExpiredOnce(t)'
  BY <1>5 DEF Route, Check, Open, OpenFails, OpenUnanswered, InsertSync, PublishSync, SyncFails,
     Reach, Late, Fault, tab, queue, trouble, TypeOK
<1>6. CASE AgentCrash \/ IntegrationCrash
  BY <1>6 DEF AgentCrash, IntegrationCrash, Fault, tab
<1>7. CASE UNCHANGED vars
  BY <1>7 DEF vars
<1> QED  BY <1>1, <1>2, <1>3, <1>4, <1>5, <1>6, <1>7 DEF Next, Page

(***************************************************************************)
(* ChargeInv: an issue the page or the audit does not know of has its own  *)
(* trouble.                                                                *)
(***************************************************************************)

\* A fault, or a time-out that had not expired before.
Trouble == \/ faults' = faults + 1 /\ late' = late
           \/ faults' = faults /\ \E x : x \notin late /\ late' = late \union {x}

\* There are finitely many charged and misheard tasks.
LEMMA FiniteParts == TypeOK => IsFiniteSet(Charged) /\ IsFiniteSet(Misheard)
<1> SUFFICES ASSUME TypeOK PROVE IsFiniteSet(Charged) /\ IsFiniteSet(Misheard)
  OBVIOUS
<1>1. IsFiniteSet(1..made) /\ IsFiniteSet(Tasks)
  <2>1. made \in Int /\ MaxTasks \in Int /\ 0 \in Int /\ 1 \in Int
    BY RemediationBoundsAssumption DEF TypeOK
  <2> QED  BY <2>1, FS_Interval DEF Tasks
<1>2. Charged \subseteq 1..made /\ Misheard \subseteq Tasks
  BY DEF Charged, Misheard
<1> QED  BY <1>1, <1>2, FS_Subset

\* Troubles are counted.
LEMMA TroublesCount ==
  ASSUME TypeOK
  PROVE  /\ Troubles \in Nat
         /\ UNCHANGED trouble => Troubles' = Troubles
         /\ Trouble => Troubles' = Troubles + 1
<1>1. IsFiniteSet(late)
  <2>1. IsFiniteSet({"polls", "call", "github"}) /\ IsFiniteSet(1..made)
    <3>1. IsFiniteSet({"polls"} \union {"call"} \union {"github"})
      BY FS_Singleton, FS_Union
    <3>2. {"polls", "call", "github"} = {"polls"} \union {"call"} \union {"github"}
      OBVIOUS
    <3>3. made \in Int /\ 1 \in Int
      BY RemediationBoundsAssumption DEF TypeOK
    <3> QED  BY <3>1, <3>2, <3>3, FS_Interval
  <2>2. IsFiniteSet({"polls", "call", "github"} \X (1..made))
    BY <2>1, FS_Product
  <2> QED  BY <2>2, FS_Subset DEF TypeOK
<1>2. Cardinality(late) \in Nat /\ faults \in Nat
  BY <1>1, FS_CardinalityType DEF TypeOK
<1>3. ASSUME NEW x, x \notin late, late' = late \union {x}
      PROVE  Cardinality(late') = Cardinality(late) + 1
  BY <1>1, <1>3, FS_AddElement
<1> QED  BY <1>2, <1>3 DEF Troubles, Trouble, trouble

\* A step charges nobody, or one task, and then it is a trouble.
LEMMA ChargeCases ==
  ASSUME TypeOK, TaskInv, LateInv, [Next]_vars
  PROVE  \/ Charged' \subseteq Charged /\ (UNCHANGED trouble \/ Trouble)
         \/ Trouble /\ \E u \in Tasks : Charged' \subseteq Charged \union {u}
<1> DEFINE Goal == \/ Charged' \subseteq Charged /\ (UNCHANGED trouble \/ Trouble)
                   \/ Trouble /\ \E u \in Tasks : Charged' \subseteq Charged \union {u}
<1> SUFFICES Goal
  OBVIOUS
<1>0. /\ made \in Nat /\ made' \in Nat /\ MaxTasks \in Nat
      /\ 1..made \subseteq Tasks /\ 1..made' \subseteq Tasks
  BY TypeStep, RemediationBoundsAssumption DEF TypeOK, Tasks
<1>00. \A t \in Tasks : Consistent(t) /\ ExpiredOnce(t)
  BY DEF TaskInv, LateInv
<1>1. CASE Submit
  <2>1. made' = made + 1 /\ page = "idle" /\ page' = "posting" /\ made' \in Tasks
        /\ UNCHANGED <<told, route, issues, sync, trouble>>
    BY <1>0, <1>1, RemediationBoundsAssumption DEF Submit, audit, Tasks
  <2>2. ASSUME NEW t \in Charged' PROVE t \in Charged
    <3>1. t \in Tasks /\ t \in 1..made'
      BY <1>0 DEF Charged
    <3>2. CASE t = made'
      <4>1. status'[t] = "pending" /\ agent[t] = "none" /\ route[t] = "none"
        <5>1. t > made
          BY <1>0, <2>1, <3>2
        <5> QED  BY <1>00, <1>1, <2>1, <3>1, <3>2, <5>1 DEF Submit, Consistent, TypeOK
      <4>2. FALSE
        BY <2>1, <3>2, <4>1 DEF Charged, Current, Doomed
      <4> QED  BY <4>2
    <3>3. CASE t # made'
      <4>1. kind'[t] = kind[t] /\ t \in 1..made
        BY <1>0, <1>1, <3>1, <3>3, <2>1 DEF Submit, TypeOK
      <4> QED  BY <2>1, <4>1 DEF Charged, Current
    <3> QED  BY <3>2, <3>3
  <2> QED  BY <2>1, <2>2
<1>2. CASE Accepted
  BY <1>2 DEF Accepted, Turn, queue, audit, Charged, Current, Doomed
<1>3. CASE SubmitFails \/ PollFails \/ PollsRunOut
  <2>1. made \in Tasks /\ page # "idle"
    BY <1>0, <1>3 DEF SubmitFails, PollFails, PollsRunOut, Turn, TypeOK, Tasks
  <2>2. Trouble
    <3>1. <<"polls", made>> \notin late
      BY <1>00, <2>1 DEF ExpiredOnce, Current
    <3> QED  BY <1>3, <3>1 DEF SubmitFails, PollFails, PollsRunOut, Fault, Late, Trouble
  <2>3. Charged' \subseteq Charged \union {made}
    BY <1>3 DEF SubmitFails, PollFails, PollsRunOut, Turn, queue, audit, Charged, Current, Doomed
  <2> QED  BY <2>1, <2>2, <2>3
<1>4. CASE PollSettled
  <2>1. made \in Tasks /\ page = "polling" /\ page' = "idle" /\ status[made] # "pending"
        /\ UNCHANGED <<made, kind, status, issues, route, sync, trouble>>
    BY <1>0, <1>4 DEF PollSettled, Turn, TypeOK, Tasks, queue, audit
  <2>2. told' = told \union {t \in {made} : status[t] = "completed" /\ applied[t]}
    BY <1>4 DEF PollSettled
  <2>3. ASSUME NEW t \in Charged' PROVE t \in Charged
    <3>1. t \in Tasks
      BY <1>0 DEF Charged
    <3>2. CASE t = made
      <4>1. status[t] \in {"completed", "failed", "lost"}
        BY <1>0, <1>00, <2>1, <3>2 DEF Consistent, TypeOK
      <4>2. status[t] # "completed"
        BY <1>00, <2>1, <2>2, <3>1, <3>2 DEF Consistent, Charged
      <4> QED  BY <2>1, <2>2, <4>1, <4>2 DEF Charged, Doomed
    <3>3. CASE t # made
      BY <2>1, <2>2, <3>3 DEF Charged, Current
    <3> QED  BY <3>2, <3>3
  <2> QED  BY <2>1, <2>3
<1>5. ASSUME NEW u \in Tasks, Dispatch(u) PROVE Goal
  <2>1. UNCHANGED <<made, page, told, kind, issues, sync>>
    BY <1>5 DEF Dispatch, RunLocally, Call, Answered, CallTimesOut, Announced, NotAnnounced,
       Settle, Fail, tab, queue, audit
  <2>2. \A t \in Tasks \ {u} : status'[t] = status[t] /\ route'[t] = route[t]
    BY <1>5 DEF Dispatch, RunLocally, Call, Answered, CallTimesOut, Announced, NotAnnounced,
       Settle, Fail, queue, TypeOK
  <2>3. Charged' \subseteq Charged \union {u}
    <3> SUFFICES ASSUME NEW t \in Charged', t # u PROVE t \in Charged
      OBVIOUS
    <3>1. t \in 1..made /\ t \in Tasks \ {u}
      BY <1>0, <2>1 DEF Charged
    <3> QED  BY <2>1, <2>2, <3>1 DEF Charged, Current, Doomed
  <2>4. CASE CallTimesOut(u) \/ NotAnnounced(u)
    <3>1. CallTimesOut(u) => <<"call", u>> \notin late
      BY <1>00 DEF CallTimesOut, ExpiredOnce, Undecided
    <3>2. Trouble
      BY <2>4, <3>1 DEF CallTimesOut, NotAnnounced, Late, Fault, Trouble
    <3> QED  BY <2>3, <3>2
  <2>5. CASE RunLocally(u) \/ Call(u) \/ Answered(u) \/ Announced(u)
    <3>1. UNCHANGED trouble
      BY <2>5 DEF RunLocally, Call, Answered, Announced
    <3>2. u \in Charged' => u \in Charged
      <4> SUFFICES ASSUME u \in Charged' PROVE u \in Charged
        OBVIOUS
      <4>1. kind[u] = "open"
        BY <2>1 DEF Charged
      <4>2. CASE RunLocally(u)
        BY <4>1, <4>2 DEF RunLocally
      <4>3. CASE Call(u)
        BY <1>00, <2>1, <4>3 DEF Call, Charged, Current, Doomed, Consistent, Unopened, TypeOK, queue
      <4>4. CASE Answered(u)
        <5>1. route'[u] = route[u] /\ route[u] \in {"ok", "error", "dead"}
              /\ (status'[u] = "completed" \/ route[u] \in {"error", "dead"})
          BY <4>4 DEF Answered, Settle, Fail, TypeOK
        <5> QED  BY <2>1, <5>1 DEF Charged, Current, Doomed
      <4>5. CASE Announced(u)
        BY <2>1, <4>5 DEF Announced, Charged, Current, Doomed, queue
      <4> QED  BY <2>5, <4>2, <4>3, <4>4, <4>5
    <3> QED  BY <2>3, <3>1, <3>2
  <2> QED  BY <1>5, <2>4, <2>5 DEF Dispatch
<1>6. ASSUME NEW u \in Tasks, Route(u) PROVE Goal
  <2>1. UNCHANGED <<made, page, told, kind, status>>
    BY <1>6 DEF Route, Check, Open, OpenFails, OpenUnanswered, InsertSync, PublishSync, SyncFails,
       Reach, tab, queue
  <2>2. ASSUME NEW t \in Tasks, t # u
        PROVE  route'[t] = route[t] /\ sync'[t] = sync[t] /\ (t \in issues' => t \in issues)
    BY <1>6, <2>2 DEF Route, Check, Open, OpenFails, OpenUnanswered, InsertSync, PublishSync,
       SyncFails, Reach, Recorded, audit, TypeOK
  <2>3. Charged' \subseteq Charged \union {u}
    <3> SUFFICES ASSUME NEW t \in Charged', t # u PROVE t \in Charged
      OBVIOUS
    <3>1. t \in 1..made /\ t \in Tasks
      BY <1>0, <2>1 DEF Charged
    <3>2. route'[t] = route[t] /\ sync'[t] = sync[t] /\ (t \in issues' => t \in issues)
      BY <2>2, <3>1
    <3> QED  BY <2>1, <3>1, <3>2 DEF Charged, Current, Doomed
  <2>4. CASE OpenUnanswered(u) \/ SyncFails(u)
    <3>1. OpenUnanswered(u) => <<"github", u>> \notin late
      BY <1>00 DEF OpenUnanswered, Reach, ExpiredOnce, Unopened
    <3>2. Trouble
      BY <2>4, <3>1 DEF OpenUnanswered, SyncFails, Late, Fault, Trouble
    <3> QED  BY <2>3, <3>2
  <2>5. CASE Check(u) \/ Open(u) \/ OpenFails(u) \/ InsertSync(u) \/ PublishSync(u)
    <3>1. UNCHANGED trouble
      BY <2>5 DEF Check, Open, OpenFails, InsertSync, PublishSync
    <3>2. u \in Charged' => u \in Charged
      <4> SUFFICES ASSUME u \in Charged' PROVE u \in Charged
        OBVIOUS
      <4> USE <2>1 DEF Charged, Current, Doomed, Reach
      <4>1. CASE Check(u)
        BY <4>1 DEF Check, audit, Unopened, TypeOK
      <4>2. CASE Open(u)
        BY <4>2 DEF Open, Unopened, TypeOK
      <4>3. CASE OpenFails(u)
        BY <1>00, <4>3 DEF OpenFails, audit, Consistent, Unopened, TypeOK
      <4>4. CASE InsertSync(u)
        BY <4>4 DEF InsertSync, Recorded, Unopened, TypeOK
      <4>5. CASE PublishSync(u)
        BY <4>5 DEF PublishSync, Unopened, TypeOK
      <4> QED  BY <2>5, <4>1, <4>2, <4>3, <4>4, <4>5
    <3> QED  BY <2>3, <3>1, <3>2
  <2> QED  BY <1>6, <2>4, <2>5 DEF Route
<1>7. CASE AgentCrash \/ IntegrationCrash
  <2>1. Trouble
    BY <1>7 DEF AgentCrash, IntegrationCrash, Fault, Trouble
  <2>2. ASSUME NEW t \in Charged', t # made PROVE t \in Charged
    <3>1. t \in Tasks /\ UNCHANGED <<made, told, kind, issues>>
      BY <1>0, <1>7 DEF Charged, AgentCrash, IntegrationCrash, tab, queue, audit
    <3>2. t \in issues \/ route[t] \in Unopened
      <4>1. route'[t] \in {route[t], "dead"}
        BY <1>7, <3>1 DEF AgentCrash, IntegrationCrash, TypeOK
      <4> QED  BY <3>1, <4>1 DEF Charged, Unopened
    <3> QED  BY <2>2, <3>1, <3>2 DEF Charged, Current
  <2>3. CASE made \in Tasks
    BY <2>1, <2>2, <2>3
  <2>4. CASE made \notin Tasks
    <3>1. made = 0 /\ made' = made
      BY <1>0, <1>7, <2>4 DEF TypeOK, Tasks, AgentCrash, IntegrationCrash, tab
    <3>2. Charged' = {}
      BY <3>1 DEF Charged
    <3> QED  BY <2>1, <3>2
  <2> QED  BY <2>3, <2>4
<1>8. CASE UNCHANGED vars
  BY <1>8 DEF vars, Charged, Current, Doomed, trouble
<1> QED  BY <1>1, <1>2, <1>3, <1>4, <1>5, <1>6, <1>7, <1>8 DEF Next, Page

\* Every step keeps the charged tasks within the troubles.
LEMMA ChargeStep ==
  TypeOK /\ TaskInv /\ LateInv /\ ChargeInv /\ [Next]_vars => ChargeInv'
<1> SUFFICES ASSUME TypeOK, TaskInv, LateInv, ChargeInv, [Next]_vars PROVE ChargeInv'
  OBVIOUS
<1>1. IsFiniteSet(Charged) /\ Cardinality(Charged) \in Nat
  BY FiniteParts, OneMore
<1>2. Cardinality(Charged) <= Troubles /\ Troubles \in Nat
  BY TroublesCount DEF ChargeInv
<1>3. CASE Charged' \subseteq Charged /\ (UNCHANGED trouble \/ Trouble)
  <2>1. Cardinality(Charged') \in Nat /\ Cardinality(Charged') <= Cardinality(Charged)
    BY <1>1, <1>3, OneMore
  <2>2. Troubles' = Troubles \/ Troubles' = Troubles + 1
    BY <1>3, TroublesCount
  <2> QED  BY <1>1, <1>2, <2>1, <2>2 DEF ChargeInv
<1>4. ASSUME Trouble, NEW u \in Tasks, Charged' \subseteq Charged \union {u} PROVE ChargeInv'
  <2>2. Cardinality(Charged') \in Nat /\ Cardinality(Charged') <= Cardinality(Charged) + 1
    BY <1>1, <1>4, OneMore
  <2>3. Troubles' = Troubles + 1
    BY <1>4, TroublesCount
  <2> QED  BY <1>1, <1>2, <2>2, <2>3 DEF ChargeInv
<1> QED  BY <1>3, <1>4, ChargeCases

(***************************************************************************)
(* MisheardInv: what the bus was told of a task.                           *)
(***************************************************************************)

\* A step makes nobody misheard, or one task, and then it is a fault.
LEMMA MisheardCases ==
  ASSUME TypeOK, TaskInv, [Next]_vars
  PROVE  \/ Misheard' \subseteq Misheard /\ faults <= faults'
         \/ faults' = faults + 1 /\ \E u \in Tasks : Misheard' \subseteq Misheard \union {u}
<1> DEFINE Goal == \/ Misheard' \subseteq Misheard /\ faults <= faults'
                   \/ faults' = faults + 1 /\ \E u \in Tasks : Misheard' \subseteq Misheard \union {u}
<1> SUFFICES Goal
  OBVIOUS
<1>0. faults \in Nat /\ made \in Nat /\ \A t \in Tasks : Consistent(t)
  BY RemediationBoundsAssumption DEF TypeOK, TaskInv
<1>1. CASE UNCHANGED <<status, agent, heard>> /\ faults <= faults'
  BY <1>1 DEF Misheard
<1>2. CASE Submit
  <2>1. faults' = faults /\ heard' = heard /\ made' = made + 1
    BY <1>2 DEF Submit, trouble
  <2>2. ASSUME NEW t \in Misheard' PROVE t \in Misheard
    <3>1. t \in Tasks
      BY DEF Misheard
    <3>2. CASE t = made'
      BY <1>2, <3>1, <3>2 DEF Submit, TypeOK, Misheard
    <3>3. CASE t # made'
      BY <1>2, <2>1, <3>1, <3>3 DEF Submit, TypeOK, Misheard
    <3> QED  BY <3>2, <3>3
  <2> QED  BY <1>0, <2>1, <2>2
<1>3. ASSUME NEW u \in Tasks, Dispatch(u) PROVE Goal
  <2>1. \A t \in Tasks \ {u} : status'[t] = status[t] /\ agent'[t] = agent[t] /\ heard'[t] = heard[t]
    BY <1>3 DEF Dispatch, RunLocally, Call, Answered, CallTimesOut, Announced, NotAnnounced,
       Settle, Fail, queue, TypeOK
  <2>2. Misheard' \subseteq Misheard \union {u}
    BY <2>1 DEF Misheard
  <2>3. CASE NotAnnounced(u)
    BY <2>2, <2>3 DEF NotAnnounced, Fault
  <2>4. CASE ~NotAnnounced(u)
    <3>1. faults' = faults
      BY <1>3, <2>4 DEF Dispatch, RunLocally, Call, Answered, CallTimesOut, Announced, Late, trouble
    <3>2. u \in Misheard' => u \in Misheard
      <4> USE <1>0 DEF Misheard, TypeOK, Consistent, Undecided
      <4>1. CASE RunLocally(u) \/ Answered(u) \/ CallTimesOut(u)
        <5>1. heard'[u] = {} /\ agent'[u] \in {"completed", "failed"}
          BY <4>1 DEF RunLocally, Answered, CallTimesOut, Settle, Fail
        <5> QED  BY <5>1
      <4>2. CASE Call(u)
        BY <4>2 DEF Call, queue
      <4>3. CASE Announced(u)
        BY <4>3 DEF Announced, queue
      <4> QED  BY <1>3, <2>4, <4>1, <4>2, <4>3 DEF Dispatch
    <3> QED  BY <1>0, <2>2, <3>1, <3>2
  <2> QED  BY <2>3, <2>4
<1>4. CASE AgentCrash
  <2>1. Misheard' = {} /\ faults' = faults + 1
    BY <1>4 DEF AgentCrash, Fault, Misheard
  <2> QED  BY <1>0, <2>1
<1>5. ASSUME NEW u \in Tasks, Route(u) PROVE Goal
  <2>1. UNCHANGED <<status, agent, heard>> /\ faults <= faults'
    BY <1>0, <1>5 DEF Route, Check, Open, OpenFails, OpenUnanswered, InsertSync, PublishSync,
       SyncFails, Reach, Late, Fault, queue, trouble
  <2> QED  BY <1>1, <2>1
<1>6. CASE Accepted \/ SubmitFails \/ PollSettled \/ PollFails \/ PollsRunOut
  <2>1. UNCHANGED <<status, agent, heard>> /\ faults <= faults'
    BY <1>0, <1>6 DEF Accepted, SubmitFails, PollSettled, PollFails, PollsRunOut, Turn, Late,
       Fault, queue, trouble
  <2> QED  BY <1>1, <2>1
<1>7. CASE IntegrationCrash \/ UNCHANGED vars
  <2>1. UNCHANGED <<status, agent, heard>> /\ faults <= faults'
    BY <1>0, <1>7 DEF IntegrationCrash, Fault, queue, vars
  <2> QED  BY <1>1, <2>1
<1> HIDE DEF Goal
<1> QED  BY <1>2, <1>3, <1>4, <1>5, <1>6, <1>7 DEF Next, Page

\* Every step keeps the misheard tasks within the faults.
LEMMA MisheardStep ==
  TypeOK /\ TaskInv /\ MisheardInv /\ [Next]_vars => MisheardInv'
<1> SUFFICES ASSUME TypeOK, TaskInv, MisheardInv, [Next]_vars PROVE MisheardInv'
  OBVIOUS
<1>1. IsFiniteSet(Misheard) /\ Cardinality(Misheard) \in Nat
  BY FiniteParts, OneMore
<1>2. Cardinality(Misheard) <= faults /\ faults \in Nat /\ faults' \in Nat
  BY TypeStep, RemediationBoundsAssumption DEF MisheardInv, TypeOK
<1>3. CASE Misheard' \subseteq Misheard /\ faults <= faults'
  <2>1. Cardinality(Misheard') \in Nat /\ Cardinality(Misheard') <= Cardinality(Misheard)
    BY <1>1, <1>3, OneMore
  <2> QED  BY <1>1, <1>2, <1>3, <2>1 DEF MisheardInv
<1>4. ASSUME faults' = faults + 1, NEW u \in Tasks, Misheard' \subseteq Misheard \union {u}
      PROVE  MisheardInv'
  <2>2. Cardinality(Misheard') \in Nat /\ Cardinality(Misheard') <= Cardinality(Misheard) + 1
    BY <1>1, <1>4, OneMore
  <2> QED  BY <1>1, <1>2, <1>4, <2>2 DEF MisheardInv
<1> QED  BY <1>3, <1>4, MisheardCases

(***************************************************************************)
(* The theorems.                                                           *)
(***************************************************************************)

\* Initially nobody is charged or misheard.
LEMMA IInvInit == Init => IInv
<1> SUFFICES ASSUME Init PROVE IInv
  OBVIOUS
<1>1. TypeOK /\ TaskInv /\ LateInv
  BY TypeInit, TaskInit
<1>2. Charged = {} /\ Misheard = {}
  BY DEF Init, Charged, Misheard
<1>3. Cardinality({}) = 0
  BY FS_EmptySet
<1>4. Troubles \in Nat /\ faults \in Nat
  BY <1>1, TroublesCount, RemediationBoundsAssumption DEF TypeOK
<1> QED  BY <1>1, <1>2, <1>3, <1>4 DEF IInv, ChargeInv, MisheardInv

\* The inductive invariant holds in every reachable state.
THEOREM Inductive == Spec => []IInv
<1>1. IInv /\ [Next]_vars => IInv'
  BY TypeStep, TaskStep, LateStep, ChargeStep, MisheardStep DEF IInv
<1> QED  BY <1>1, IInvInit, PTL DEF Spec

\* Every variable keeps its type.
THEOREM TypeCorrect == Spec => []TypeOK
<1>1. IInv => TypeOK
  BY DEF IInv
<1> QED  BY <1>1, Inductive, PTL

\* What the task's result or the page reports as opened was opened, recorded
\* as succeeded and announced.
THEOREM ReportedCorrect == Spec => []ReportedMeansDone
<1>1. IInv => ReportedMeansDone
  <2> SUFFICES ASSUME IInv, NEW t \in told \union {u \in Tasks : applied[u]} PROVE Done(t)
    BY DEF ReportedMeansDone, Done
  <2>1. t \in Tasks
    BY RemediationBoundsAssumption DEF IInv, TypeOK, Tasks
  <2> QED  BY <2>1 DEF IInv, TaskInv, Consistent
<1> QED  BY <1>1, Inductive, PTL

\* Issues the audit does not know of are charged, so there are no more of them
\* than faults and time-outs.
THEOREM AuditGapsCorrect == Spec => []AuditGaps
<1> DEFINE Gaps == {t \in issues : route[t] \in Over /\ ~(sync[t] = "succeeded" /\ t \in synced)}
<1>1. IInv => AuditGaps
  <2> SUFFICES ASSUME IInv PROVE Cardinality(Gaps) <= Troubles
    BY DEF AuditGaps
  <2>1. Gaps \subseteq Charged
    <3> SUFFICES ASSUME NEW t \in Gaps PROVE t \in Charged
      OBVIOUS
    <3>1. t \in Tasks /\ t \in 1..made
      BY RemediationBoundsAssumption DEF IInv, TypeOK, Tasks
    <3>2. Consistent(t)
      BY <3>1 DEF IInv, TaskInv
    <3> QED  BY <3>1, <3>2 DEF Charged, Consistent, Done, Doomed, Over
  <2> HIDE DEF Gaps
  <2>2. IsFiniteSet(Charged)
    BY FiniteParts DEF IInv
  <2>3. /\ Cardinality(Gaps) \in Nat /\ Cardinality(Charged) \in Nat
        /\ Cardinality(Gaps) <= Cardinality(Charged)
    BY <2>1, <2>2, OneMore
  <2> QED  BY <2>3, TroublesCount DEF IInv, ChargeInv
<1> QED  BY <1>1, Inductive, PTL

\* So are the issues the user of the page was not told of.
THEOREM UntoldCorrect == Spec => []UntoldNeedsTrouble
<1> DEFINE Untold == {t \in issues : t \notin told /\ ~(t = made /\ page # "idle")}
<1>1. IInv => UntoldNeedsTrouble
  <2> SUFFICES ASSUME IInv PROVE Cardinality(Untold) <= Troubles
    BY DEF UntoldNeedsTrouble
  <2>1. Untold \subseteq Charged
    <3> SUFFICES ASSUME NEW t \in Untold PROVE t \in Charged
      OBVIOUS
    <3>1. t \in Tasks /\ t \in 1..made
      BY RemediationBoundsAssumption DEF IInv, TypeOK, Tasks
    <3>2. Consistent(t)
      BY <3>1 DEF IInv, TaskInv
    <3> QED  BY <3>1, <3>2 DEF Charged, Consistent, Current
  <2> HIDE DEF Untold
  <2>2. IsFiniteSet(Charged)
    BY FiniteParts DEF IInv
  <2>3. /\ Cardinality(Untold) \in Nat /\ Cardinality(Charged) \in Nat
        /\ Cardinality(Untold) <= Cardinality(Charged)
    BY <2>1, <2>2, OneMore
  <2> QED  BY <2>3, TroublesCount DEF IInv, ChargeInv
<1> QED  BY <1>1, Inductive, PTL

\* When dispatch() is over the bus has heard what the queue says, but for one
\* task per fault.
THEOREM OutcomeAnnouncedCorrect == Spec => []OutcomeAnnounced
<1> DEFINE Wrong == {t \in Tasks : /\ status[t] \in {"completed", "failed"}
                                  /\ agent[t] = "over"
                                  /\ heard[t] # {status[t]}}
<1>1. IInv => OutcomeAnnounced
  <2> SUFFICES ASSUME IInv PROVE Cardinality(Wrong) <= faults
    BY DEF OutcomeAnnounced
  <2>1. Wrong \subseteq Misheard
    BY DEF Misheard
  <2> HIDE DEF Wrong
  <2>2. IsFiniteSet(Misheard)
    BY FiniteParts DEF IInv
  <2>3. /\ Cardinality(Wrong) \in Nat /\ Cardinality(Misheard) \in Nat
        /\ Cardinality(Wrong) <= Cardinality(Misheard)
    BY <2>1, <2>2, OneMore
  <2> QED  BY <2>3, RemediationBoundsAssumption DEF IInv, MisheardInv, TypeOK
<1> QED  BY <1>1, Inductive, PTL

=============================================================================

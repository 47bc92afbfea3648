------------------------ MODULE PoamLifecycleProofs ------------------------
(***************************************************************************)
(* Theorems about PoamLifecycle for any number of items, tuples, scans and *)
(* rejected publishes.                                                     *)
(***************************************************************************)
EXTENDS PoamLifecycle, FiniteSetTheorems, TLAPS

(***************************************************************************)
(* Types.                                                                  *)
(***************************************************************************)

\* The kinds of announced changes, paired with an item, are changes.
LEMMA ChangeType ==
  ASSUME NEW i \in Items
  PROVE  /\ <<"created", i>> \in Changes
         /\ <<"closed", i>> \in Changes
         /\ <<"overdue", i>> \in Changes
  BY DEF Changes

\* Create adds the item after the last one and nothing else.
LEMMA CreateType ==
  ASSUME TypeOK, NEW t \in Tuples \union {NoTuple}, Create(t),
         auto' \in {auto, auto \union {size + 1}}
  PROVE  TypeOK'
<1> DEFINE i == size + 1
<1>1. /\ size \in Nat /\ i \in Items /\ size' = i /\ size' \in 0..MaxItems
      /\ \A k \in Items : k <= i <=> k <= size \/ k = i
  BY PoamBoundsAssumption DEF TypeOK, Create, Items
<1>2. Created' = Created \union {i}
  BY <1>1 DEF Created
<1>3. status' \in [Items -> Statuses \union {"none"}] /\ status' = [status EXCEPT ![i] = "open"]
  BY <1>1 DEF TypeOK, Create, Statuses
<1>4. \A k \in Items : status'[k] = "none" <=> k > i
  <2> SUFFICES ASSUME NEW k \in Items PROVE status'[k] = "none" <=> k > i
    OBVIOUS
  <2>1. CASE k = i
    <3>1. status'[k] = "open"
      BY <2>1, <1>3 DEF TypeOK
    <3> QED  BY <2>1, <3>1, <1>1
  <2>2. CASE k # i
    <3>1. status'[k] = status[k]
      BY <2>2, <1>3 DEF TypeOK
    <3> QED  BY <2>2, <3>1, <1>1 DEF TypeOK, Items
  <2> QED  BY <2>1, <2>2
<1>5. tuple' \in [Items -> Tuples \union {NoTuple}]
  BY DEF TypeOK, Create
<1>6. auto' \subseteq Created'
  BY <1>2 DEF TypeOK
<1>7. awaiting' \subseteq Changes /\ silent' \subseteq Changes
  BY <1>1, ChangeType DEF TypeOK, Create
<1>8. UNCHANGED <<due, marking, todo, faults, revived>>
  BY DEF Create, scans
<1> QED  BY <1>1, <1>2, <1>3, <1>4, <1>5, <1>6, <1>7, <1>8 DEF TypeOK

\* An existing item gets another status, and nothing is created.
LEMMA StatusType ==
  ASSUME TypeOK, NEW i \in Created, NEW to \in Statuses,
         status' = [status EXCEPT ![i] = to], UNCHANGED size
  PROVE  /\ status' \in [Items -> Statuses \union {"none"}]
         /\ \A k \in Items : status'[k] = "none" <=> k > size
         /\ Created' = Created
<1>1. Created' = Created /\ i \in Items /\ to # "none" /\ ~(i > size)
  BY PoamBoundsAssumption DEF Created, Statuses, TypeOK, Items
<1>2. status' \in [Items -> Statuses \union {"none"}]
  BY <1>1 DEF TypeOK
<1>3. \A k \in Items : status'[k] = IF k = i THEN to ELSE status[k]
  BY DEF TypeOK
<1> QED  BY <1>1, <1>2, <1>3 DEF TypeOK

\* A requested transition keeps the types of what it may change.
LEMMA TransitionType ==
  ASSUME TypeOK, NEW i, NEW to \in Statuses, Transition(i, to),
         awaiting' \subseteq Changes, silent' \subseteq Changes
  PROVE  TypeOK'
<1>1. i \in Created /\ status' = [status EXCEPT ![i] = to]
      /\ UNCHANGED <<size, tuple, auto, due, marking, todo, faults, revived>>
  BY DEF Transition, scans
<1>2. /\ status' \in [Items -> Statuses \union {"none"}]
      /\ \A k \in Items : status'[k] = "none" <=> k > size
      /\ Created' = Created
  BY <1>1, StatusType
<1> QED  BY <1>1, <1>2 DEF TypeOK

\* So does a mark.
LEMMA MarkType ==
  ASSUME TypeOK, NEW s \in Scans, NEW list \in SUBSET Created, Mark(s, list)
  PROVE  TypeOK'
<1>1. PICK i \in list :
        /\ status'  = [status EXCEPT ![i] = "overdue"]
        /\ silent'  = (silent \ {<<"overdue", marking[s]>>}) \union {<<"overdue", i>>}
        /\ marking' = [marking EXCEPT ![s] = i]
        /\ todo'    = [todo EXCEPT ![s] = list \ {i}]
        /\ revived' = IF status[i] \in Resolved THEN revived \union {i} ELSE revived
        /\ UNCHANGED <<size, tuple, auto, due, awaiting, faults>>
  BY DEF Mark
<1>2. /\ status' \in [Items -> Statuses \union {"none"}]
      /\ \A k \in Items : status'[k] = "none" <=> k > size
      /\ Created' = Created
  BY <1>1, StatusType DEF Statuses
<1>3. i \in Items /\ i \in 0..MaxItems
  BY <1>1, PoamBoundsAssumption DEF Created, Items
<1>4. silent' \subseteq Changes
  BY <1>1, <1>3, ChangeType DEF TypeOK
<1>5. marking' \in [Scans -> 0..MaxItems] /\ todo' \in [Scans -> SUBSET Created]
  BY <1>1, <1>3 DEF TypeOK
<1>6. revived' \subseteq Created
  BY <1>1 DEF TypeOK
<1> QED  BY <1>1, <1>2, <1>4, <1>5, <1>6 DEF TypeOK

\* What a scan lists exists.
LEMMA ListedCreated == ASSUME TypeOK PROVE Listed \subseteq Created
  BY DEF TypeOK, Listed

\* Every step keeps the types.
LEMMA TypeStep == ASSUME TypeOK, [Next]_vars PROVE TypeOK'
<1>1. CASE \E t \in Tuples : CreateFromTuple(t)
  BY <1>1, CreateType DEF CreateFromTuple
<1>2. CASE \E t \in Tuples \union {NoTuple} : CreateManual(t)
  BY <1>2, CreateType DEF CreateManual
<1>3. ASSUME NEW i \in Items, StartProgress(i) \/ MarkAwaitingEvidence(i) \/ AcceptRisk(i)
      PROVE  TypeOK'
  <2>1. awaiting' \subseteq Changes /\ silent' \subseteq Changes
    BY <1>3 DEF StartProgress, MarkAwaitingEvidence, AcceptRisk, TypeOK
  <2> QED  BY <1>3, <2>1, TransitionType
           DEF StartProgress, MarkAwaitingEvidence, AcceptRisk, Statuses
<1>4. ASSUME NEW i \in Items, Close(i) PROVE TypeOK'
  <2>1. awaiting' \subseteq Changes /\ silent' \subseteq Changes
    BY <1>4, ChangeType DEF Close, TypeOK
  <2> QED  BY <1>4, <2>1, TransitionType DEF Close, Statuses
<1>5. CASE \E i \in Items : PassDue(i)
  <2>1. Created' = Created
    BY <1>5 DEF PassDue, Created
  <2> QED  BY <1>5, <2>1 DEF PassDue, TypeOK, scans
<1>6. ASSUME NEW s \in Scans, ScanTick(s) PROVE TypeOK'
  BY <1>6, MarkType, ListedCreated DEF ScanTick
<1>7. ASSUME NEW s \in Scans, ScanNext(s) PROVE TypeOK'
  <2>1. todo[s] \subseteq Created
    BY DEF TypeOK
  <2> QED  BY <1>7, <2>1, MarkType DEF ScanNext
<1>8. ASSUME NEW s \in Scans, ScanEnds(s) \/ ScanFails(s) PROVE TypeOK'
  <2>1. Created' = Created
    BY <1>8 DEF ScanEnds, ScanFails, Created
  <2>2. faults' \in 0..MaxFaults /\ silent' \subseteq Changes
    BY <1>8, PoamBoundsAssumption DEF ScanEnds, ScanFails, Reject, TypeOK
  <2>3. marking' \in [Scans -> 0..MaxItems] /\ todo' \in [Scans -> SUBSET Created]
    <3>1. 0 \in 0..MaxItems
      BY PoamBoundsAssumption
    <3> QED  BY <1>8, <3>1 DEF ScanEnds, ScanFails, TypeOK
  <2> QED  BY <1>8, <2>1, <2>2, <2>3 DEF ScanEnds, ScanFails, TypeOK
<1>9. ASSUME NEW change \in Changes, Announced(change) \/ NotAnnounced(change)
      PROVE  TypeOK'
  <2>1. Created' = Created
    BY <1>9 DEF Announced, NotAnnounced, Created
  <2>2. faults' \in 0..MaxFaults /\ silent' \subseteq Changes /\ awaiting' \subseteq Changes
    BY <1>9, PoamBoundsAssumption DEF Announced, NotAnnounced, Reject, TypeOK
  <2> QED  BY <1>9, <2>1, <2>2 DEF Announced, NotAnnounced, TypeOK, scans
<1>10. CASE UNCHANGED vars
  BY <1>10 DEF vars, TypeOK, Created
<1> QED  BY <1>1, <1>2, <1>3, <1>4, <1>5, <1>6, <1>7, <1>8, <1>9, <1>10
         DEF Next, Request, Scan

\* Every variable keeps its type, whatever the interleaving of requests, scans
\* and rejected publishes.
THEOREM TypeCorrect == Spec => []TypeOK
<1>1. Init => TypeOK
  BY PoamBoundsAssumption DEF Init, TypeOK, Created, Items, Statuses
<1>2. TypeOK /\ [Next]_vars => TypeOK'
  BY TypeStep
<1> QED  BY <1>1, <1>2, PTL DEF Spec

(***************************************************************************)
(* Resolved items and duplicates.                                          *)
(***************************************************************************)

\* What a step may do to the status of an existing item: a resolved item is
\* closed, or overwritten by a scan that remembers it, or left alone.
StatusStep(i) ==
  \/ UNCHANGED status[i]
  \/ status[i] \notin Resolved
  \/ status'[i] = "closed"
  \/ /\ status'[i] = "overdue" /\ i \in revived'
     /\ \E s \in Scans : i \in todo[s]

\* A requested transition resolves, or finds the item unresolved.
LEMMA TransitionStep ==
  ASSUME TypeOK, NEW j, NEW i \in Created, Transition(j, "closed")
                 \/ Transition(j, "in_progress")
                 \/ Transition(j, "awaiting_evidence")
                 \/ Transition(j, "risk_accepted")
  PROVE  StatusStep(i)
<1>1. i \in Items
  BY DEF Created
<1>2. CASE i # j
  BY <1>1, <1>2 DEF Transition, TypeOK, StatusStep
<1>3. CASE i = j
  BY <1>1, <1>3 DEF Transition, ValidTransition, TypeOK, StatusStep, Resolved
<1> QED  BY <1>2, <1>3

\* A mark from a list of unresolved items, or from the rest of an older list.
LEMMA MarkStep ==
  ASSUME TypeOK, NEW s \in Scans, NEW list, Mark(s, list),
         list = Listed \/ list = todo[s], NEW i \in Created
  PROVE  StatusStep(i)
<1>1. PICK j \in list :
        /\ status'  = [status EXCEPT ![j] = "overdue"]
        /\ revived' = IF status[j] \in Resolved THEN revived \union {j} ELSE revived
  BY DEF Mark
<1>2. i \in Items
  BY DEF Created
<1>3. CASE i # j
  BY <1>1, <1>2, <1>3 DEF TypeOK, StatusStep
<1>4. CASE i = j /\ list = Listed
  BY <1>1, <1>4 DEF Listed, StatusStep
<1>5. CASE i = j /\ list = todo[s]
  BY <1>1, <1>2, <1>5 DEF TypeOK, StatusStep
<1> QED  BY <1>3, <1>4, <1>5

\* Every step changes the status of an existing item in one of these ways.
LEMMA EveryStatusStep ==
  ASSUME TypeOK, [Next]_vars, NEW i \in Created
  PROVE  StatusStep(i)
<1>1. i \in Items /\ i # size + 1
  BY PoamBoundsAssumption DEF Created, Items, TypeOK
<1>2. CASE \E t \in Tuples \union {NoTuple} : Create(t)
  BY <1>1, <1>2 DEF Create, TypeOK, StatusStep
<1>3. CASE \E j \in Items : \/ StartProgress(j) \/ MarkAwaitingEvidence(j)
                            \/ Close(j) \/ AcceptRisk(j)
  BY <1>3, TransitionStep DEF StartProgress, MarkAwaitingEvidence, Close, AcceptRisk
<1>4. CASE \E s \in Scans : ScanTick(s) \/ ScanNext(s)
  BY <1>4, MarkStep DEF ScanTick, ScanNext
<1>5. CASE UNCHANGED status
  BY <1>5 DEF StatusStep
<1> QED  BY <1>2, <1>3, <1>4, <1>5
         DEF Next, Request, Scan, CreateFromTuple, CreateManual, PassDue,
             ScanEnds, ScanFails, Announced, NotAnnounced, vars

\* A closed or risk-accepted item is touched again only to close it or by a
\* scan that had listed it while it was unresolved.
THEOREM ReopenedCorrect == Spec => ReopenedOnlyByStaleScan
<1> DEFINE Kept == \A i \in Created :
       status[i] \in Resolved /\ status'[i] # status[i] =>
         \/ status'[i] = "closed"
         \/ status'[i] = "overdue" /\ \E s \in Scans : i \in todo[s]
<1>1. TypeOK /\ [Next]_vars => [Kept]_vars
  BY EveryStatusStep DEF StatusStep
<1>2. TypeOK /\ [Next]_vars => TypeOK'
  BY TypeStep
<1> HIDE DEF Kept
<1>3. Spec => [][Kept]_vars
  BY <1>1, <1>2, TypeCorrect, PTL DEF Spec
<1> QED  BY <1>3 DEF ReopenedOnlyByStaleScan, Kept

\* What an item is about never changes, and only a creation makes it automatic.
LEMMA OriginStep ==
  ASSUME TypeOK, [Next]_vars, ~\E t \in Tuples : CreateFromTuple(t)
  PROVE  /\ auto' = auto
         /\ \A i \in Created : tuple'[i] = tuple[i]
         /\ revived \subseteq revived'
<1>1. CASE \E t \in Tuples \union {NoTuple} : CreateManual(t)
  <2>1. \A i \in Created : i \in Items /\ i # size + 1
    BY PoamBoundsAssumption DEF Created, Items, TypeOK
  <2> QED  BY <1>1, <2>1 DEF CreateManual, Create, TypeOK
<1>2. CASE UNCHANGED <<auto, tuple, revived>>
  BY <1>2
<1>3. CASE \E s \in Scans : ScanTick(s) \/ ScanNext(s)
  BY <1>3 DEF ScanTick, ScanNext, Mark
<1> QED  BY <1>1, <1>2, <1>3
         DEF Next, Request, Scan, StartProgress, MarkAwaitingEvidence, Close,
             AcceptRisk, Transition, PassDue, ScanEnds, ScanFails, Announced,
             NotAnnounced, vars

\* Items that appear in a step were created in it, last.
LEMMA NewItem ==
  ASSUME TypeOK, [Next]_vars, NEW i \in Created', i \notin Created
  PROVE  i = size + 1
<1>1. size \in Int /\ i \in Items /\ i \in Int /\ i <= size' /\ ~(i <= size)
  BY PoamBoundsAssumption DEF Created, Items, TypeOK
<1>2. CASE size' = size + 1
  BY <1>1, <1>2
<1>3. CASE size' = size
  BY <1>1, <1>3
<1> QED  BY <1>2, <1>3
         DEF Next, Request, CreateFromTuple, CreateManual, Create, Scan, ScanTick,
             ScanNext, Mark, StartProgress, MarkAwaitingEvidence, Close,
             AcceptRisk, Transition, PassDue, ScanEnds, ScanFails, Announced,
             NotAnnounced, vars

\* Nothing but a stale scan can put two unresolved items of one tuple side by
\* side once the pipeline has created the younger one.
THEOREM OneOpenPerTupleCorrect == Spec => []OneOpenPerTuple
<1>1. Init => OneOpenPerTuple
  BY DEF Init, OneOpenPerTuple
<1>2. TypeOK /\ OneOpenPerTuple /\ [Next]_vars => OneOpenPerTuple'
  <2> SUFFICES ASSUME TypeOK, OneOpenPerTuple, [Next]_vars,
                      NEW i \in Unresolved', NEW j \in auto',
                      i < j, tuple'[i] = tuple'[j]
               PROVE  i \in revived'
    BY DEF OneOpenPerTuple
  <2>1. /\ i \in Created' /\ i \in Items /\ i \in Int /\ size \in Int
        /\ status'[i] \notin Resolved
        /\ auto \subseteq Created
        /\ \A k \in Created : k \in Items /\ k \in Int /\ k <= size
    BY PoamBoundsAssumption DEF Unresolved, Created, Items, TypeOK
  <2>2. CASE \E t \in Tuples : CreateFromTuple(t)
    <3>1. PICK t \in Tuples : CreateFromTuple(t)
      BY <2>2
    <3>2. /\ ~Tracked(t) /\ auto' = auto \union {size + 1}
          /\ size + 1 \in Items
          /\ status' = [status EXCEPT ![size + 1] = "open"]
          /\ tuple' = [tuple EXCEPT ![size + 1] = t]
          /\ revived' = revived
      BY <3>1, PoamBoundsAssumption DEF CreateFromTuple, Create, TypeOK, Items
    <3>3. j <= size + 1 /\ i # size + 1 /\ i \in Created
      BY <2>1, <3>2, NewItem
    <3>4. status[i] = status'[i] /\ tuple'[i] = tuple[i]
      BY <2>1, <3>2, <3>3 DEF TypeOK
    <3>5. i \in Unresolved
      BY <2>1, <3>3, <3>4 DEF Unresolved
    <3>6. CASE j = size + 1
      <4>1. tuple'[j] = t
        BY <3>2, <3>6 DEF TypeOK
      <4> QED  BY <3>2, <3>4, <3>5, <4>1 DEF Tracked
    <3>7. CASE j # size + 1
      <4>1. j \in auto /\ tuple'[j] = tuple[j]
        BY <2>1, <3>2, <3>7 DEF TypeOK
      <4> QED  BY <3>2, <3>4, <3>5, <4>1 DEF OneOpenPerTuple
    <3> QED  BY <3>6, <3>7
  <2>3. CASE ~\E t \in Tuples : CreateFromTuple(t)
    <3>1. /\ j \in auto /\ j \in Created /\ revived \subseteq revived'
          /\ \A k \in Created : tuple'[k] = tuple[k]
      BY <2>1, <2>3, OriginStep
    <3>2. i \in Created
      BY <2>1, <3>1, NewItem
    <3>3. CASE status[i] \notin Resolved
      <4>1. i \in Unresolved
        BY <3>2, <3>3 DEF Unresolved
      <4> QED  BY <3>1, <3>2, <4>1 DEF OneOpenPerTuple
    <3>4. CASE status[i] \in Resolved
      BY <2>1, <3>2, <3>4, EveryStatusStep DEF StatusStep, Resolved
    <3> QED  BY <3>3, <3>4
  <2> QED  BY <2>2, <2>3
<1> QED  BY <1>1, <1>2, TypeStep, TypeCorrect, PTL DEF Spec

(***************************************************************************)
(* Events and rejected publishes.                                          *)
(***************************************************************************)

\* The changes that are off the bus although no publish is under way.
Silenced == silent \ InFlight

\* There are finitely many changes.
LEMMA ChangesFinite == ASSUME NEW S \in SUBSET Changes PROVE IsFiniteSet(S)
<1>1. IsFiniteSet(Items)
  BY FS_Interval, PoamBoundsAssumption DEF Items
<1>2. IsFiniteSet({"created", "closed", "overdue"})
  <2>1. IsFiniteSet({})
    BY FS_EmptySet
  <2>2. IsFiniteSet({} \union {"created"})
    BY <2>1, FS_AddElement
  <2>3. IsFiniteSet(({} \union {"created"}) \union {"closed"})
    BY <2>2, FS_AddElement
  <2>4. IsFiniteSet((({} \union {"created"}) \union {"closed"}) \union {"overdue"})
    BY <2>3, FS_AddElement
  <2>5. (({} \union {"created"}) \union {"closed"}) \union {"overdue"} = {"created", "closed", "overdue"}
    OBVIOUS
  <2> QED  BY <2>4, <2>5
<1>3. IsFiniteSet(Changes)
  BY <1>1, <1>2, FS_Product DEF Changes
<1> QED  BY <1>3, FS_Subset

\* A change that begins its publish is under way.
LEMMA RequestSilences ==
  ASSUME TypeOK, NEW change \in Changes, silent' = silent \union {change},
         awaiting' = awaiting \union {change}, UNCHANGED marking
  PROVE  Silenced' \subseteq Silenced
  BY DEF Silenced, InFlight

\* A mark ends the publish of the previous item, successfully, and begins one.
LEMMA MarkSilences ==
  ASSUME TypeOK, NEW s \in Scans, NEW list \in SUBSET Created, Mark(s, list)
  PROVE  Silenced' \subseteq Silenced /\ UNCHANGED faults
<1>1. PICK i \in list :
        /\ silent'  = (silent \ {<<"overdue", marking[s]>>}) \union {<<"overdue", i>>}
        /\ marking' = [marking EXCEPT ![s] = i]
        /\ UNCHANGED <<awaiting, faults>>
  BY DEF Mark
<1> DEFINE new == <<"overdue", i>>
           old == <<"overdue", marking[s]>>
<1>2. new \in Changes /\ marking'[s] = i /\ \A r \in Scans : r # s => marking'[r] = marking[r]
  BY <1>1, ChangeType DEF Created, TypeOK
<1>3. new \in InFlight'
  BY <1>2 DEF InFlight
<1>4. \A x \in InFlight : x # old => x \in InFlight'
  BY <1>1, <1>2 DEF InFlight
<1> QED  BY <1>1, <1>3, <1>4 DEF Silenced

\* A publish that ends without a rejection silences nothing.
LEMMA EndSilences ==
  ASSUME TypeOK, NEW x, silent' = silent \ {x}, \A y \in InFlight : y # x => y \in InFlight'
  PROVE  Silenced' \subseteq Silenced
  BY DEF Silenced

\* One that rejects silences its own change at most.
LEMMA RejectSilences ==
  ASSUME TypeOK, NEW x, Reject(x), \A y \in InFlight : y # x => y \in InFlight'
  PROVE  Silenced' \subseteq Silenced \union {x} /\ faults' = faults + 1
  BY DEF Silenced, Reject

\* Every step silences nothing, or one change and counts a failure.
LEMMA SilenceStep ==
  ASSUME TypeOK, [Next]_vars
  PROVE  \/ Silenced' \subseteq Silenced /\ UNCHANGED faults
         \/ \E x : Silenced' \subseteq Silenced \union {x} /\ faults' = faults + 1
<1>1. CASE \E t \in Tuples \union {NoTuple} : Create(t)
  <2>1. size + 1 \in Items
    BY <1>1, PoamBoundsAssumption DEF Create, TypeOK, Items
  <2> QED  BY <1>1, <2>1, ChangeType, RequestSilences DEF Create, scans
<1>2. CASE \E i \in Items : Close(i)
  BY <1>2, ChangeType, RequestSilences DEF Close, Transition, scans
<1>3. CASE UNCHANGED <<awaiting, silent, marking, faults>>
  BY <1>3 DEF Silenced, InFlight
<1>4. CASE \E s \in Scans : ScanTick(s) \/ ScanNext(s)
  <2>1. \A s \in Scans : todo[s] \subseteq Created
    BY DEF TypeOK
  <2> QED  BY <1>4, <2>1, ListedCreated, MarkSilences DEF ScanTick, ScanNext
<1>5. ASSUME NEW s \in Scans, ScanEnds(s) \/ ScanFails(s)
      PROVE  \A y \in InFlight : y # <<"overdue", marking[s]>> => y \in InFlight'
  <2>1. UNCHANGED awaiting /\ \A r \in Scans : r # s => marking'[r] = marking[r]
    BY <1>5 DEF ScanEnds, ScanFails, TypeOK
  <2> QED  BY <2>1 DEF InFlight
<1>6. CASE \E s \in Scans : ScanEnds(s)
  BY <1>5, <1>6, EndSilences DEF ScanEnds
<1>7. CASE \E s \in Scans : ScanFails(s)
  BY <1>5, <1>7, RejectSilences DEF ScanFails
<1>8. ASSUME NEW change \in Changes, Announced(change) \/ NotAnnounced(change)
      PROVE  \A y \in InFlight : y # change => y \in InFlight'
  BY <1>8 DEF Announced, NotAnnounced, InFlight, scans
<1>9. CASE \E change \in Changes : Announced(change)
  BY <1>8, <1>9, EndSilences DEF Announced
<1>10. CASE \E change \in Changes : NotAnnounced(change)
  BY <1>8, <1>10, RejectSilences DEF NotAnnounced
<1> QED  BY <1>1, <1>2, <1>3, <1>4, <1>6, <1>7, <1>9, <1>10
         DEF Next, Request, Scan, CreateFromTuple, CreateManual, PassDue,
             StartProgress, MarkAwaitingEvidence, AcceptRisk, Transition, scans, vars

\* A rejected publish keeps at most one change off the bus: every change of
\* the repository is announced, on its way, or one of the rejected ones.
THEOREM OneSilencedCorrect == Spec => []OneSilencedPerFailure
<1> DEFINE Bounded == Cardinality(Silenced) <= faults
<1>1. Init => Bounded
  <2> SUFFICES ASSUME Init PROVE Bounded
    OBVIOUS
  <2>1. Silenced = {} /\ faults = 0
    BY DEF Init, Silenced
  <2> QED  BY <2>1, FS_EmptySet
<1>2. TypeOK /\ TypeOK' /\ Bounded /\ [Next]_vars => Bounded'
  <2> SUFFICES ASSUME TypeOK, TypeOK', Bounded, [Next]_vars PROVE Bounded'
    OBVIOUS
  <2>1. /\ IsFiniteSet(Silenced) /\ Cardinality(Silenced) \in Nat
        /\ IsFiniteSet(Silenced') /\ Cardinality(Silenced') \in Nat
        /\ faults \in Nat
    <3>1. IsFiniteSet(Silenced) /\ IsFiniteSet(Silenced')
      <4>1. Silenced \subseteq Changes /\ Silenced' \subseteq Changes
        BY DEF Silenced, TypeOK
      <4> QED  BY <4>1, ChangesFinite
    <3>2. faults \in Nat
      BY PoamBoundsAssumption DEF TypeOK
    <3> QED  BY <3>1, <3>2, FS_CardinalityType
  <2>2. CASE Silenced' \subseteq Silenced /\ UNCHANGED faults
    <3>1. Cardinality(Silenced') <= Cardinality(Silenced)
      BY <2>1, <2>2, FS_Subset
    <3> QED  BY <2>1, <2>2, <3>1
  <2>3. CASE \E x : Silenced' \subseteq Silenced \union {x} /\ faults' = faults + 1
    <3>1. PICK x : Silenced' \subseteq Silenced \union {x} /\ faults' = faults + 1
      BY <2>3
    <3>2. /\ IsFiniteSet(Silenced \union {x})
          /\ Cardinality(Silenced \union {x}) <= Cardinality(Silenced) + 1
          /\ Cardinality(Silenced \union {x}) \in Nat
      <4>1. /\ IsFiniteSet(Silenced \union {x})
            /\ \/ Cardinality(Silenced \union {x}) = Cardinality(Silenced)
               \/ Cardinality(Silenced \union {x}) = Cardinality(Silenced) + 1
        BY <2>1, FS_AddElement
      <4> QED  BY <2>1, <4>1
    <3>3. Cardinality(Silenced') <= Cardinality(Silenced \union {x})
      BY <3>1, <3>2, FS_Subset
    <3> QED  BY <2>1, <3>1, <3>2, <3>3
  <2> QED  BY <2>2, <2>3, SilenceStep
<1>3. Bounded => OneSilencedPerFailure
  BY DEF OneSilencedPerFailure, Silenced
<1> HIDE DEF Bounded
<1> QED  BY <1>1, <1>2, <1>3, TypeStep, TypeCorrect, PTL DEF Spec
=============================================================================

------------------------ MODULE RedisStreamBusProofs ------------------------
(***************************************************************************)
(* Theorems about RedisStreamBus for any number of replicas, events,       *)
(* deliveries and faults and any page size.                                *)
(***************************************************************************)
EXTENDS RedisStreamBus, FiniteSetTheorems, TLAPS

(***************************************************************************)
(* Pages.                                                                  *)
(***************************************************************************)

\* A page is part of the set it is taken from.
LEMMA PageSubset == ASSUME NEW S PROVE Page(S) \subseteq S
  BY DEF Page

\* A page has no holes: whatever is below one of its entries is in it.
LEMMA PageIsPrefix ==
  ASSUME NEW S \in SUBSET Ids, NEW j \in Page(S), NEW i \in S, i <= j
  PROVE  i \in Page(S)
<1> DEFINE Below(k) == {x \in S : x < k}
<1>0. j \in S /\ i \in Int /\ j \in Int /\ \A x \in S : x \in Int
  <2>1. j \in S
    BY PageSubset
  <2>2. \A x \in S : x \in Int
    BY BoundsAssumption DEF Ids
  <2> QED  BY <2>1, <2>2
<1>1. Below(i) \subseteq Below(j)
  <2> SUFFICES ASSUME NEW x \in S, x < i PROVE x < j
    OBVIOUS
  <2> QED  BY <1>0
<1>2. IsFiniteSet(Below(j))
  <2>1. IsFiniteSet(Ids)
    BY FS_Interval, BoundsAssumption DEF Ids
  <2> QED  BY <2>1, FS_Subset
<1>3. Cardinality(Below(i)) <= Cardinality(Below(j))
  BY <1>1, <1>2, FS_Subset
<1>4. Cardinality(Below(i)) \in Nat /\ Cardinality(Below(j)) \in Nat
  BY <1>1, <1>2, FS_Subset, FS_CardinalityType
<1> QED  BY <1>3, <1>4, BoundsAssumption DEF Page

\* What an XREADGROUP page holds: entries after the cursor that are still in
\* the stream; and up to the new cursor it holds all of them.
LEMMA DeliverNewPage ==
  ASSUME TypeOK, NEW page, DeliverNew(page)
  PROVE  /\ page \subseteq Ids
         /\ \A i \in page : i > cursor /\ i > trimmed /\ i <= last
         /\ cursor' \in page /\ \A i \in page : i <= cursor'
         /\ \A i \in Ids : i > cursor /\ i > trimmed /\ i <= cursor' => i \in page
<1> DEFINE S == {i \in Ids : i > cursor /\ i > trimmed /\ i <= last}
<1>1. page = Page(S) /\ cursor' \in page /\ \A i \in page : i <= cursor'
  BY DEF DeliverNew, IsLast
<1>2. page \subseteq S
  BY <1>1, PageSubset
<1>3. ASSUME NEW i \in Ids, i > cursor, i > trimmed, i <= cursor' PROVE i \in page
  <2>1. cursor' \in S
    BY <1>1, <1>2
  <2>2. i \in S
    <3>1. i <= last
      BY <1>3, <2>1, BoundsAssumption DEF TypeOK, RedisTypeOK, Ids
    <3> QED  BY <1>3, <3>1
  <2>3. S \in SUBSET Ids
    OBVIOUS
  <2> QED  BY <1>1, <1>3, <2>2, <2>3, PageIsPrefix
<1> QED  BY <1>1, <1>2, <1>3

\* What an XAUTOCLAIM page touches: pending entries only.
LEMMA ClaimedPage ==
  ASSUME NEW from
  PROVE  /\ ScanPage(from) \subseteq pel
         /\ Claimable(from) \subseteq ScanPage(from)
         /\ \A i \in ScanPage(from) \ Claimable(from) : ~(i > trimmed)
  BY PageSubset DEF ScanPage, Claimable

(***************************************************************************)
(* Type correctness.  Each lemma takes the actions that touch its          *)
(* variables one by one and the others together.                           *)
(***************************************************************************)

\* The initial state is well typed.
LEMMA TypeInit == Init => TypeOK
<1> SUFFICES ASSUME Init PROVE TypeOK
  OBVIOUS
<1> USE BoundsAssumption DEF Init, Ids
<1>1. RedisTypeOK
  <2>1. count \in [Ids -> Nat] /\ dlq \in [Ids -> Nat]
    OBVIOUS
  <2>2. last \in 0..MaxEvents /\ trimmed \in 0..last /\ start \in 0..last /\ cursor \in start..last
    OBVIOUS
  <2> QED  BY <2>1, <2>2 DEF RedisTypeOK
<1>2. LoopTypeOK
  <2>1. cur \in [Consumers -> 0..MaxEvents] /\ scan \in [Consumers -> 0..MaxEvents]
    OBVIOUS
  <2>2. pc \in [Consumers -> Running \union {"down", "stopped"}]
    BY DEF Running
  <2>3. seen \in [Consumers -> [Ids -> Nat]]
    OBVIOUS
  <2> QED  BY <2>1, <2>2, <2>3 DEF LoopTypeOK, Processing
<1>3. HistoryTypeOK
  BY DEF HistoryTypeOK
<1> QED  BY <1>1, <1>2, <1>3 DEF TypeOK

\* A step of a replica does to the server one of the things a command can do.
LEMMA ServerStep ==
  ASSUME TypeOK, [Next]_vars
  PROVE  \/ Publish \/ GoStale
         \/ \E c \in Consumers : Subscribe(c)
         \/ \E page : DeliverNew(page)
         \/ \E c \in Consumers : pc[c] = "scan" /\ Claim(scan[c])
         \/ \E c \in Consumers :
              /\ pc[c] \in {"ack", "dlqAck"} /\ Acknowledge(cur[c])
              /\ UNCHANGED <<last, trimmed, group, start, cursor, count, dlq, evicted>>
         \/ \E c \in Consumers : pc[c] = "dlq" /\ CopyToDlq(cur[c]) /\ UNCHANGED evicted
         \/ UNCHANGED <<redis, evicted>>
  BY DEF Next, Progress, Failure, vars, Close, BeginRead, ReadNothing, ReadNew, BeginReclaim,
     ClaimPage, LookUpCount, Learn, RunHandler, GiveUp, TakeEntry, HandlerReturns,
     HandlerThrows, Finish, Ack, DeadLetter, AckDeadLetter, EndPage, Stop, Crash, ReadFails,
     ClaimFails, LookUpFails, AckFails, DeadLetterFails, AckDeadLetterFails, redis, history

\* Every step keeps what Redis stores well typed.
LEMMA RedisTypeStep == TypeOK /\ [Next]_vars => RedisTypeOK'
<1> SUFFICES ASSUME TypeOK, [Next]_vars PROVE RedisTypeOK'
  OBVIOUS
<1> USE BoundsAssumption DEF TypeOK, RedisTypeOK, Ids
<1>1. CASE Publish
  BY <1>1 DEF Publish
<1>2. CASE GoStale
  BY <1>2 DEF GoStale
<1>3. ASSUME NEW c \in Consumers, Subscribe(c) PROVE RedisTypeOK'
  BY <1>3 DEF Subscribe
<1>4. ASSUME NEW page, DeliverNew(page) PROVE RedisTypeOK'
  <2>1. page \subseteq Ids /\ cursor' \in page /\ \A i \in page : i > cursor /\ i <= last
    BY <1>4, DeliverNewPage
  <2>2. cursor' \in start..last
    BY <2>1
  <2>3. pel' \subseteq Ids /\ stale' \subseteq pel'
    BY <1>4, <2>1 DEF DeliverNew
  <2>4. count' \in [Ids -> Nat]
    BY <1>4 DEF DeliverNew
  <2> QED  BY <1>4, <2>2, <2>3, <2>4 DEF DeliverNew
<1>5. ASSUME NEW c \in Consumers, Claim(scan[c]) PROVE RedisTypeOK'
  <2> DEFINE P == ScanPage(scan[c])
             Q == Claimable(scan[c])
  <2>1. P \subseteq pel /\ Q \subseteq P
    BY ClaimedPage
  <2>2. /\ pel' = pel \ (P \ Q) /\ stale' = stale \ P
        /\ count' = [i \in Ids |-> IF i \in Q THEN count[i] + 1 ELSE count[i]]
        /\ UNCHANGED <<last, trimmed, group, start, cursor, dlq>>
    BY <1>5 DEF Claim
  <2> HIDE DEF P, Q
  <2>3. pel' \subseteq Ids /\ stale' \subseteq pel'
    BY <2>1, <2>2
  <2>4. count' \in [Ids -> Nat]
    BY <2>2
  <2> QED  BY <2>2, <2>3, <2>4
<1>6. ASSUME NEW c \in Consumers, Acknowledge(cur[c]),
             UNCHANGED <<last, trimmed, group, start, cursor, count, dlq>>
      PROVE  RedisTypeOK'
  BY <1>6 DEF Acknowledge
<1>7. ASSUME NEW c \in Consumers, pc[c] = "dlq", CopyToDlq(cur[c]) PROVE RedisTypeOK'
  <2>1. dlq' \in [Ids -> Nat]
    <3>1. cur[c] \in Ids
      BY <1>7 DEF LoopTypeOK, Processing
    <3> QED  BY <1>7, <3>1 DEF CopyToDlq
  <2> QED  BY <1>7, <2>1 DEF CopyToDlq
<1>8. CASE UNCHANGED redis
  BY <1>8 DEF redis
<1> QED
  BY <1>1, <1>2, <1>3, <1>4, <1>5, <1>6, <1>7, <1>8, ServerStep

\* Every step keeps what the loops hold well typed.
LEMMA LoopTypeStep == TypeOK /\ [Next]_vars => LoopTypeOK'
<1> SUFFICES ASSUME TypeOK, [Next]_vars PROVE LoopTypeOK'
  OBVIOUS
<1> USE BoundsAssumption DEF Ids, Running, Processing
<1>1. ASSUME NEW c \in Consumers, Subscribe(c) PROVE LoopTypeOK'
  BY <1>1 DEF Subscribe, Goto, TypeOK, LoopTypeOK
<1>2. ASSUME NEW c \in Consumers, Close(c) PROVE LoopTypeOK'
  BY <1>2 DEF Close, TypeOK, LoopTypeOK
<1>3. ASSUME NEW c \in Consumers, BeginRead(c) PROVE LoopTypeOK'
  BY <1>3 DEF BeginRead, Goto, TypeOK, LoopTypeOK
<1>4. ASSUME NEW c \in Consumers, ReadNothing(c) PROVE LoopTypeOK'
  BY <1>4 DEF ReadNothing, Goto, TypeOK, LoopTypeOK
<1>5. ASSUME NEW c \in Consumers, ReadNew(c) PROVE LoopTypeOK'
  <2>1. PICK page \in SUBSET Ids :
           /\ work' = [work EXCEPT ![c] = page]
           /\ seen' = [seen EXCEPT ![c] = [i \in Ids |-> IF i \in page THEN 1 ELSE @[i]]]
    BY <1>5 DEF ReadNew
  <2>2. work' \in [Consumers -> SUBSET Ids]
    BY <2>1 DEF TypeOK, LoopTypeOK
  <2>3. seen' \in [Consumers -> [Ids -> Nat]]
    BY <2>1 DEF TypeOK, LoopTypeOK
  <2> QED  BY <1>5, <2>2, <2>3 DEF ReadNew, Goto, TypeOK, LoopTypeOK
<1>6. ASSUME NEW c \in Consumers, BeginReclaim(c) PROVE LoopTypeOK'
  BY <1>6 DEF BeginReclaim, Goto, TypeOK, LoopTypeOK
<1>7. ASSUME NEW c \in Consumers, ClaimPage(c) PROVE LoopTypeOK'
  <2>1. Claimable(scan[c]) \subseteq Ids
    BY ClaimedPage DEF TypeOK, RedisTypeOK
  <2>2. PICK next \in 0..MaxEvents :
           scan' = [scan EXCEPT ![c] =
                      IF Cardinality(Claimable(scan[c])) < BatchSize THEN 0 ELSE next]
    BY <1>7 DEF ClaimPage
  <2>3. scan' \in [Consumers -> 0..MaxEvents]
    BY <2>2 DEF TypeOK, LoopTypeOK
  <2>4. work' \in [Consumers -> SUBSET Ids] /\ todo' \in [Consumers -> SUBSET Ids]
    BY <1>7, <2>1 DEF ClaimPage, TypeOK, LoopTypeOK
  <2> QED  BY <1>7, <2>3, <2>4 DEF ClaimPage, Goto, TypeOK, LoopTypeOK
<1>8. ASSUME NEW c \in Consumers, LookUpCount(c) PROVE LoopTypeOK'
  <2>1. PICK i \in todo[c], n \in Nat : Learn(c, i, n)
    BY <1>8 DEF LookUpCount, TypeOK, RedisTypeOK, LoopTypeOK
  <2>2. seen' \in [Consumers -> [Ids -> Nat]]
    BY <2>1 DEF Learn, TypeOK, LoopTypeOK
  <2> QED  BY <2>1, <2>2 DEF Learn, Goto, TypeOK, LoopTypeOK
<1>9. ASSUME NEW c \in Consumers, RunHandler(c) PROVE LoopTypeOK'
  BY <1>9 DEF RunHandler, TakeEntry, Goto, TypeOK, LoopTypeOK
<1>10. ASSUME NEW c \in Consumers, GiveUp(c) PROVE LoopTypeOK'
  BY <1>10 DEF GiveUp, TakeEntry, Goto, TypeOK, LoopTypeOK
<1>11. ASSUME NEW c \in Consumers, HandlerReturns(c) PROVE LoopTypeOK'
  BY <1>11 DEF HandlerReturns, Goto, TypeOK, LoopTypeOK
<1>12. ASSUME NEW c \in Consumers, HandlerThrows(c) PROVE LoopTypeOK'
  BY <1>12 DEF HandlerThrows, Finish, Goto, TypeOK, LoopTypeOK
<1>13. ASSUME NEW c \in Consumers, Ack(c) PROVE LoopTypeOK'
  BY <1>13 DEF Ack, Finish, Goto, TypeOK, LoopTypeOK
<1>14. ASSUME NEW c \in Consumers, DeadLetter(c) PROVE LoopTypeOK'
  BY <1>14 DEF DeadLetter, Goto, TypeOK, LoopTypeOK
<1>15. ASSUME NEW c \in Consumers, AckDeadLetter(c) PROVE LoopTypeOK'
  BY <1>15 DEF AckDeadLetter, Finish, Goto, TypeOK, LoopTypeOK
<1>16. ASSUME NEW c \in Consumers, EndPage(c) PROVE LoopTypeOK'
  BY <1>16 DEF EndPage, Goto, TypeOK, LoopTypeOK
<1>17. ASSUME NEW c \in Consumers, Stop(c) PROVE LoopTypeOK'
  BY <1>17 DEF Stop, Goto, TypeOK, LoopTypeOK
<1>18. ASSUME NEW c \in Consumers, Crash(c) PROVE LoopTypeOK'
  BY <1>18 DEF Crash, Die, Goto, TypeOK, LoopTypeOK
<1>19. ASSUME NEW c \in Consumers, ReadFails(c) PROVE LoopTypeOK'
  BY <1>19 DEF ReadFails, Goto, TypeOK, LoopTypeOK
<1>20. ASSUME NEW c \in Consumers, ClaimFails(c) PROVE LoopTypeOK'
  BY <1>20 DEF ClaimFails, Goto, TypeOK, LoopTypeOK
<1>21. ASSUME NEW c \in Consumers, LookUpFails(c) PROVE LoopTypeOK'
  <2>1. PICK i \in todo[c] : Learn(c, i, 1)
    BY <1>21 DEF LookUpFails
  <2>2. seen' \in [Consumers -> [Ids -> Nat]]
    BY <2>1 DEF Learn, TypeOK, LoopTypeOK
  <2> QED  BY <2>1, <2>2 DEF Learn, Goto, TypeOK, LoopTypeOK
<1>22. ASSUME NEW c \in Consumers, AckFails(c) PROVE LoopTypeOK'
  BY <1>22 DEF AckFails, Finish, Goto, TypeOK, LoopTypeOK
<1>23. ASSUME NEW c \in Consumers, DeadLetterFails(c) PROVE LoopTypeOK'
  BY <1>23 DEF DeadLetterFails, Finish, Goto, TypeOK, LoopTypeOK
<1>24. ASSUME NEW c \in Consumers, AckDeadLetterFails(c) PROVE LoopTypeOK'
  BY <1>24 DEF AckDeadLetterFails, Die, Goto, TypeOK, LoopTypeOK
<1>25. CASE Publish \/ GoStale
  BY <1>25 DEF Publish, GoStale, loop, history, TypeOK, LoopTypeOK
<1>26. CASE UNCHANGED vars
  BY <1>26 DEF vars, loop, history, TypeOK, LoopTypeOK
<1> QED
  BY <1>1, <1>2, <1>3, <1>4, <1>5, <1>6, <1>7, <1>8, <1>9, <1>10, <1>11, <1>12,
     <1>13, <1>14, <1>15, <1>16, <1>17, <1>18, <1>19, <1>20, <1>21, <1>22, <1>23,
     <1>24, <1>25, <1>26 DEF Next, Progress, Failure

\* Every step keeps the history variables well typed.
LEMMA HistoryTypeStep == TypeOK /\ [Next]_vars => HistoryTypeOK'
<1> SUFFICES ASSUME TypeOK, [Next]_vars PROVE HistoryTypeOK'
  OBVIOUS
<1> USE BoundsAssumption DEF Ids
<1>1. ASSUME NEW c \in Consumers, ReadNew(c) PROVE HistoryTypeOK'
    BY <1>1, DeliverNewPage DEF ReadNew, DeliverNew, Goto, TypeOK, HistoryTypeOK,
       RedisTypeOK, LoopTypeOK, Processing
<1>2. ASSUME NEW c \in Consumers, ClaimPage(c) PROVE HistoryTypeOK'
    BY <1>2, ClaimedPage DEF ClaimPage, Claim, Goto, TypeOK, HistoryTypeOK,
       RedisTypeOK, LoopTypeOK, Processing
<1>3. ASSUME NEW c \in Consumers, LookUpCount(c) PROVE HistoryTypeOK'
  <2>1. PICK i \in todo[c] :
           /\ misses' = [misses EXCEPT ![i] = IF i \in pel THEN @ ELSE @ + 1]
           /\ UNCHANGED <<handled, evicted, runs>>
    BY <1>3 DEF LookUpCount, Learn
  <2>2. i \in Ids
    <3>1. todo[c] \in SUBSET Ids
      BY DEF TypeOK, LoopTypeOK
    <3> QED  BY <3>1
  <2>3. runs \in [Ids -> Nat] /\ misses \in [Ids -> Nat]
    BY DEF TypeOK, HistoryTypeOK
  <2> HIDE DEF Ids
  <2>4. runs' \in [Ids -> Nat] /\ misses' \in [Ids -> Nat]
    BY <2>1, <2>2, <2>3
  <2> QED  BY <2>1, <2>4 DEF TypeOK, HistoryTypeOK
<1>4. ASSUME NEW c \in Consumers, RunHandler(c) PROVE HistoryTypeOK'
  <2>1. PICK i \in work[c] :
           runs' = [runs EXCEPT ![i] = @ + 1] /\ UNCHANGED <<handled, evicted, misses>>
    BY <1>4 DEF RunHandler, TakeEntry
  <2>2. i \in Ids
    <3>1. work[c] \in SUBSET Ids
      BY DEF TypeOK, LoopTypeOK
    <3> QED  BY <3>1
  <2>3. runs \in [Ids -> Nat] /\ misses \in [Ids -> Nat]
    BY DEF TypeOK, HistoryTypeOK
  <2> HIDE DEF Ids
  <2>4. runs' \in [Ids -> Nat] /\ misses' \in [Ids -> Nat]
    BY <2>1, <2>2, <2>3
  <2> QED  BY <2>1, <2>4 DEF TypeOK, HistoryTypeOK
<1>5. ASSUME NEW c \in Consumers, HandlerReturns(c) PROVE HistoryTypeOK'
    BY <1>5 DEF HandlerReturns, Goto, TypeOK, HistoryTypeOK, RedisTypeOK,
       LoopTypeOK, Processing
<1>6. ASSUME NEW c \in Consumers, ReadFails(c) PROVE HistoryTypeOK'
    BY <1>6, DeliverNewPage DEF ReadFails, DeliverNew, Fault, Goto, redis, TypeOK,
       HistoryTypeOK, RedisTypeOK, LoopTypeOK, Processing
<1>7. ASSUME NEW c \in Consumers, ClaimFails(c) PROVE HistoryTypeOK'
    BY <1>7, ClaimedPage DEF ClaimFails, Claim, Fault, Goto, redis, TypeOK,
       HistoryTypeOK, RedisTypeOK, LoopTypeOK, Processing
<1>8. ASSUME NEW c \in Consumers, LookUpFails(c) PROVE HistoryTypeOK'
  <2>1. PICK i \in todo[c] :
           misses' = [misses EXCEPT ![i] = @ + 1] /\ UNCHANGED <<handled, evicted, runs>>
    BY <1>8 DEF LookUpFails, Learn
  <2>2. i \in Ids
    <3>1. todo[c] \in SUBSET Ids
      BY DEF TypeOK, LoopTypeOK
    <3> QED  BY <3>1
  <2>3. runs \in [Ids -> Nat] /\ misses \in [Ids -> Nat]
    BY DEF TypeOK, HistoryTypeOK
  <2> HIDE DEF Ids
  <2>4. runs' \in [Ids -> Nat] /\ misses' \in [Ids -> Nat]
    BY <2>1, <2>2, <2>3
  <2> QED  BY <2>1, <2>4 DEF TypeOK, HistoryTypeOK
<1>9. CASE \/ Publish
          \/ GoStale
          \/ (\E c \in Consumers : Subscribe(c))
          \/ (\E c \in Consumers : Close(c))
          \/ (\E c \in Consumers : BeginRead(c))
          \/ (\E c \in Consumers : ReadNothing(c))
          \/ (\E c \in Consumers : BeginReclaim(c))
          \/ (\E c \in Consumers : GiveUp(c))
          \/ (\E c \in Consumers : HandlerThrows(c))
          \/ (\E c \in Consumers : Ack(c))
          \/ (\E c \in Consumers : DeadLetter(c))
          \/ (\E c \in Consumers : AckDeadLetter(c))
          \/ (\E c \in Consumers : EndPage(c))
          \/ (\E c \in Consumers : Stop(c))
          \/ (\E c \in Consumers : Crash(c))
          \/ (\E c \in Consumers : AckFails(c))
          \/ (\E c \in Consumers : DeadLetterFails(c))
          \/ (\E c \in Consumers : AckDeadLetterFails(c))
    BY <1>9 DEF Publish, GoStale, Subscribe, Close, BeginRead, ReadNothing,
       BeginReclaim, GiveUp, HandlerThrows, Ack, DeadLetter, AckDeadLetter,
       EndPage, Stop, Crash, AckFails, DeadLetterFails, AckDeadLetterFails, Goto,
       TakeEntry, IsFirst, Finish, Acknowledge, CopyToDlq, Die, Fault, redis,
       redis, loop, history, TypeOK, HistoryTypeOK, RedisTypeOK, LoopTypeOK,
       Processing
<1>10. CASE UNCHANGED vars
  BY <1>10 DEF vars, history, TypeOK, HistoryTypeOK
<1> QED
  BY <1>1, <1>2, <1>3, <1>4, <1>5, <1>6, <1>7, <1>8, <1>9, <1>10 DEF Next, Progress, Failure

\* No step exceeds the bound on faults.
LEMMA FaultsStep == TypeOK /\ [Next]_vars => faults' \in 0..MaxFaults
<1> SUFFICES ASSUME TypeOK, [Next]_vars PROVE faults' \in 0..MaxFaults
  OBVIOUS
<1>1. faults' = faults \/ Fault
  BY DEF Next, Progress, Failure, vars, Publish, GoStale, Subscribe, Close, BeginRead,
     ReadNothing, ReadNew, BeginReclaim, ClaimPage, LookUpCount, RunHandler, GiveUp,
     TakeEntry, HandlerReturns, HandlerThrows, Ack, DeadLetter, AckDeadLetter, EndPage,
     Stop, Crash, ReadFails, ClaimFails, LookUpFails, AckFails, DeadLetterFails,
     AckDeadLetterFails
<1> QED  BY <1>1, BoundsAssumption DEF Fault, TypeOK

\* Type correctness is inductive.
LEMMA TypeStep == TypeOK /\ [Next]_vars => TypeOK'
  BY RedisTypeStep, LoopTypeStep, HistoryTypeStep, FaultsStep DEF TypeOK

\* Type correctness: whatever the interleaving of replicas, faults and time,
\* every variable keeps its type, and a loop that processes an entry has one.
THEOREM TypeCorrect == Spec => []TypeOK
  BY TypeInit, TypeStep, PTL DEF Spec

(***************************************************************************)
(* The inductive invariant.                                                *)
(***************************************************************************)

\* The inductive invariant holds initially.
LEMMA IInvInit == Init => IInv
<1> SUFFICES ASSUME Init PROVE IInv
  OBVIOUS
<1> USE BoundsAssumption
<1>1. TypeOK
  BY TypeInit
<1>2. DeliveredInv
  BY DEF Init, DeliveredInv, Delivered, Processing
<1>3. OutcomeInv
  BY DEF Init, OutcomeInv
<1>4. AtLeastOnce /\ DeadLetterJustified
  BY DEF Init, AtLeastOnce, DeadLetterJustified
<1> QED  BY <1>1, <1>2, <1>3, <1>4 DEF IInv

\* Only an action of the bus moves the history of handled entries, and it only
\* adds to it.
LEMMA HandledGrows == ASSUME [Next]_vars PROVE handled \subseteq handled'
  BY DEF Next, Progress, Failure, vars, Publish, GoStale, Subscribe, Close, BeginRead,
     ReadNothing, ReadNew, BeginReclaim, ClaimPage, LookUpCount, Learn, RunHandler, GiveUp,
     TakeEntry, HandlerReturns, HandlerThrows, Finish, Ack, DeadLetter, AckDeadLetter,
     EndPage, Stop, Crash, ReadFails, ClaimFails, LookUpFails, AckFails, DeadLetterFails,
     AckDeadLetterFails, redis, loop, history

\* The stream, the cursor and the counts only grow, and the group keeps the
\* position it was created at.
LEMMA ServerGrows ==
  ASSUME IInv, [Next]_vars
  PROVE  /\ last <= last' /\ trimmed <= trimmed' /\ cursor <= cursor'
         /\ group => group' /\ start' = start
         /\ evicted \subseteq evicted'
         /\ \A i \in Ids : count[i] <= count'[i] /\ dlq[i] <= dlq'[i]
<1> DEFINE Grown ==
      /\ last <= last' /\ trimmed <= trimmed' /\ cursor <= cursor'
      /\ group => group' /\ start' = start
      /\ evicted \subseteq evicted'
      /\ \A i \in Ids : count[i] <= count'[i] /\ dlq[i] <= dlq'[i]
<1> USE BoundsAssumption DEF IInv, TypeOK, RedisTypeOK
<1>1. CASE Publish
  BY <1>1 DEF Publish, history, Ids
<1>2. CASE GoStale
  BY <1>2 DEF GoStale, history
<1>3. ASSUME NEW c \in Consumers, Subscribe(c) PROVE Grown
  BY <1>3 DEF Subscribe, history, DeliveredInv
<1>4. ASSUME NEW page, DeliverNew(page) PROVE Grown
  <2>1. page \subseteq Ids /\ cursor' \in page /\ \A i \in page : i > cursor /\ i <= last
    BY <1>4, DeliverNewPage
  <2>2. cursor <= cursor'
    BY <2>1 DEF Ids
  <2>3. \A i \in Ids : count[i] <= count'[i]
    BY <1>4, <2>1 DEF DeliverNew, OutcomeInv
  <2> QED  BY <1>4, <2>2, <2>3 DEF DeliverNew
<1>5. ASSUME NEW c \in Consumers, Claim(scan[c]) PROVE Grown
  BY <1>5 DEF Claim
<1>6. ASSUME NEW c \in Consumers, Acknowledge(cur[c]),
             UNCHANGED <<last, trimmed, group, start, cursor, count, dlq, evicted>>
      PROVE  Grown
  BY <1>6
<1>7. ASSUME NEW c \in Consumers, pc[c] = "dlq", CopyToDlq(cur[c]), UNCHANGED evicted
      PROVE  Grown
  <2>1. cur[c] \in Ids
    BY <1>7 DEF LoopTypeOK, Processing
  <2> QED  BY <1>7, <2>1 DEF CopyToDlq
<1>8. CASE UNCHANGED <<redis, evicted>>
  BY <1>8 DEF redis
<1> QED
  BY <1>1, <1>2, <1>3, <1>4, <1>5, <1>6, <1>7, <1>8, ServerStep

\* Before the group exists no replica runs and nothing is delivered.
LEMMA NothingBeforeGroup ==
  ASSUME IInv, [Next]_vars, ~group'
  PROVE  start' = 0 /\ cursor' = 0 /\ \A c \in Consumers : pc'[c] = "down"
<1>1. ~group
  BY ServerGrows DEF IInv, TypeOK, RedisTypeOK
<1>2. \A c \in Consumers : pc[c] = "down"
  BY <1>1 DEF IInv, DeliveredInv
<1>3. \A c \in Consumers : ~Subscribe(c) /\ ~Close(c) /\ ~Progress(c) /\ ~Failure(c)
  BY <1>2 DEF Subscribe, Close, Running, Progress, Failure, BeginRead, ReadNothing, ReadNew,
     BeginReclaim, ClaimPage, LookUpCount, RunHandler, GiveUp, TakeEntry, HandlerReturns,
     HandlerThrows, Ack, DeadLetter, AckDeadLetter, EndPage, Stop, Crash, ReadFails,
     ClaimFails, LookUpFails, AckFails, DeadLetterFails, AckDeadLetterFails
<1>4. Publish \/ GoStale \/ UNCHANGED vars
  BY <1>3 DEF Next
<1>5. UNCHANGED <<start, cursor, pc>>
  BY <1>4 DEF Publish, GoStale, vars, redis, loop
<1> QED  BY <1>1, <1>2, <1>5 DEF IInv, DeliveredInv

\* What is pending has been delivered, and at least once; what has not been
\* delivered has no count.
LEMMA PendingStep ==
  ASSUME IInv, [Next]_vars
  PROVE  /\ pel' \subseteq Delivered'
         /\ \A i \in pel' : count'[i] > 0
         /\ \A i \in Ids : i > cursor' => count'[i] = 0
<1> DEFINE Goal == /\ \A i \in pel' : i > start' /\ i <= cursor' /\ count'[i] > 0
                   /\ \A i \in Ids : i > cursor' => count'[i] = 0
<1> USE BoundsAssumption
<1>0. /\ pel \subseteq Ids /\ count \in [Ids -> Nat] /\ start \in Nat /\ cursor \in Nat
      /\ last \in Nat /\ group \in BOOLEAN /\ trimmed \in Nat
      /\ \A i \in pel : i > start /\ i <= cursor /\ count[i] > 0
      /\ \A i \in Ids : i > cursor => count[i] = 0
  <2>1. /\ pel \subseteq Ids /\ count \in [Ids -> Nat] /\ start \in Nat /\ cursor \in Nat
        /\ last \in Nat /\ group \in BOOLEAN /\ trimmed \in Nat
    BY DEF IInv, TypeOK, RedisTypeOK
  <2>2. pel \subseteq Delivered
    BY DEF IInv, DeliveredInv
  <2>3. \A i \in pel : i > start /\ i <= cursor
    BY <2>1, <2>2 DEF Delivered
  <2> QED  BY <2>1, <2>3 DEF IInv, OutcomeInv
<1> SUFFICES Goal
  <2>1. pel' \subseteq Ids
    BY TypeStep DEF IInv, TypeOK, RedisTypeOK
  <2>2. start' \in Int
    BY TypeStep DEF IInv, TypeOK, RedisTypeOK
  <2> QED  BY <2>1, <2>2 DEF Delivered, Ids
<1>1. CASE Publish
  BY <1>0, <1>1 DEF Publish
<1>2. CASE GoStale
  BY <1>0, <1>2 DEF GoStale
<1>3. ASSUME NEW c \in Consumers, Subscribe(c) PROVE Goal
  <2>1. CASE group
    BY <1>0, <1>3, <2>1 DEF Subscribe
  <2>2. CASE ~group
    <3>1. cursor = 0
      BY <2>2 DEF IInv, DeliveredInv
    <3>2. pel = {} /\ \A i \in Ids : count[i] = 0
      BY <1>0, <3>1 DEF Ids
    <3> QED  BY <1>3, <3>2 DEF Subscribe
  <2> QED  BY <1>0, <2>1, <2>2
<1>4. ASSUME NEW page, DeliverNew(page) PROVE Goal
  <2>1. page \subseteq Ids /\ cursor' \in page /\ \A i \in page : i > cursor /\ i <= cursor'
    BY <1>4, DeliverNewPage DEF IInv
  <2>2. start <= cursor
    BY DEF IInv, TypeOK, RedisTypeOK
  <2>3. start' = start /\ pel' = pel \union page
        /\ count' = [i \in Ids |-> IF i \in page THEN 1 ELSE count[i]]
    BY <1>4 DEF DeliverNew
  <2>4. \A i \in pel' : i \in Ids /\ i > start /\ i <= cursor'
    BY <1>0, <2>1, <2>2, <2>3 DEF Ids
  <2>5. \A i \in pel' : count'[i] > 0
    BY <1>0, <2>1, <2>3
  <2>6. \A i \in Ids : i > cursor' => count'[i] = 0
    BY <1>0, <2>1, <2>3 DEF Ids
  <2> QED  BY <1>0, <2>1, <2>3, <2>4, <2>5, <2>6 
<1>5. ASSUME NEW c \in Consumers, Claim(scan[c]) PROVE Goal
  <2> DEFINE Q == Claimable(scan[c])
  <2>1. /\ pel' \subseteq pel /\ start' = start /\ cursor' = cursor
        /\ count' = [i \in Ids |-> IF i \in Q THEN count[i] + 1 ELSE count[i]]
    BY <1>5 DEF Claim
  <2>2. Q \subseteq pel
    BY ClaimedPage
  <2> HIDE DEF Q
  <2>3. \A i \in pel' : count'[i] > 0
    BY <1>0, <2>1
  <2>4. \A i \in Ids : i > cursor' => count'[i] = 0
    BY <1>0, <2>1, <2>2
  <2> QED  BY <1>0, <2>1, <2>3, <2>4
<1>6. ASSUME NEW c \in Consumers, Acknowledge(cur[c]),
             UNCHANGED <<last, trimmed, group, start, cursor, count, dlq, evicted>>
      PROVE  Goal
  BY <1>0, <1>6 DEF Acknowledge
<1>7. ASSUME NEW c \in Consumers, CopyToDlq(cur[c]) PROVE Goal
  BY <1>0, <1>7 DEF CopyToDlq
<1>8. CASE UNCHANGED <<pel, start, cursor, count>>
  BY <1>0, <1>8
<1> HIDE DEF Goal
<1> QED
  BY <1>1, <1>2, <1>3, <1>4, <1>5, <1>6, <1>7, <1>8, ServerStep DEF IInv, redis

\* Trimming spares the newest MaxLen entries and is the only way to evict.
LEMMA TrimStep ==
  ASSUME IInv, [Next]_vars
  PROVE  (trimmed' = 0 \/ trimmed' <= last' - MaxLen) /\ evicted' \subseteq 1..trimmed'
<1> DEFINE Goal == /\ trimmed' \in Nat /\ evicted' \subseteq Ids
                   /\ trimmed' = 0 \/ trimmed' <= last' - MaxLen
                   /\ \A i \in evicted' : i <= trimmed'
<1> USE BoundsAssumption
<1>0. /\ last \in Nat /\ trimmed \in Nat /\ pel \subseteq Ids
      /\ trimmed = 0 \/ trimmed <= last - MaxLen
      /\ evicted \subseteq Ids /\ \A i \in evicted : i <= trimmed
  <2>1. last \in Nat /\ trimmed \in Nat /\ pel \subseteq Ids /\ evicted \subseteq Ids
    BY DEF IInv, TypeOK, RedisTypeOK, HistoryTypeOK
  <2>2. (trimmed = 0 \/ trimmed <= last - MaxLen) /\ evicted \subseteq 1..trimmed
    BY DEF IInv, DeliveredInv
  <2> QED  BY <2>1, <2>2
<1> SUFFICES Goal
  BY DEF Ids
<1>1. CASE Publish
  <2>0. last' = last + 1 /\ evicted' = evicted
    BY <1>1 DEF Publish, history
  <2>1. PICK t \in trimmed..last' : (t = trimmed \/ t <= last' - MaxLen) /\ trimmed' = t
    BY <1>1 DEF Publish
  <2>2. t \in Nat /\ t >= trimmed
    BY <1>0, <2>0
  <2>3. ASSUME NEW i \in evicted PROVE i <= t
    <3>1. i \in Int /\ i <= trimmed /\ trimmed \in Int
      BY <1>0 DEF Ids
    <3> QED  BY <2>2, <3>1
  <2> QED  BY <1>0, <2>0, <2>1, <2>2, <2>3
<1>2. CASE GoStale
  BY <1>0, <1>2 DEF GoStale, history
<1>3. ASSUME NEW c \in Consumers, Subscribe(c) PROVE Goal
  BY <1>0, <1>3 DEF Subscribe, history
<1>4. ASSUME NEW page, DeliverNew(page) PROVE Goal
  <2>1. UNCHANGED <<last, trimmed>>
        /\ evicted' = evicted \union {i \in Ids : i > cursor /\ i <= trimmed}
    BY <1>4 DEF DeliverNew
  <2> QED  BY <1>0, <2>1 DEF Ids
<1>5. ASSUME NEW c \in Consumers, Claim(scan[c]) PROVE Goal
  <2>1. /\ ScanPage(scan[c]) \subseteq pel
        /\ \A i \in ScanPage(scan[c]) \ Claimable(scan[c]) : ~(i > trimmed)
    BY ClaimedPage
  <2>2. /\ UNCHANGED <<last, trimmed>>
        /\ evicted' = evicted \union (ScanPage(scan[c]) \ Claimable(scan[c]))
    BY <1>5 DEF Claim
  <2> DEFINE Gone == ScanPage(scan[c]) \ Claimable(scan[c])
  <2>3. ASSUME NEW i \in Gone PROVE i \in Ids /\ i <= trimmed
    <3>1. i \in Ids /\ trimmed \in Int /\ ~(i > trimmed)
      BY <1>0, <2>1
    <3> QED  BY <3>1 DEF Ids
  <2> QED  BY <1>0, <2>2, <2>3
<1>6. CASE UNCHANGED <<last, trimmed, evicted>>
  BY <1>0, <1>6
<1> HIDE DEF Goal
<1> QED
  BY <1>1, <1>2, <1>3, <1>4, <1>5, <1>6, ServerStep DEF IInv, Acknowledge, CopyToDlq, redis

\* What a step does to one loop d: the steps that take or learn about entries
\* by name, the others by what they change.
Same(d)    == work'[d] = work[d] /\ todo'[d] = todo[d] /\ seen'[d] = seen[d]
Unmoved(d) == Same(d) /\ pc'[d] = pc[d] /\ cur'[d] = cur[d]
Moved(d)   == Same(d) /\ pc[d] # "count" /\ pc'[d] \notin Processing \union {"count"}
Died(d)    == /\ work'[d] = {} /\ todo'[d] = {} /\ pc'[d] = "down"
              /\ seen'[d] = [i \in Ids |-> 0]
Named(d)   == \/ ReadNew(d) \/ ClaimPage(d) \/ LookUpCount(d) \/ LookUpFails(d)
              \/ RunHandler(d) \/ GiveUp(d) \/ HandlerReturns(d) \/ DeadLetter(d)

\* Every step does one of these to the loop d.
LEMMA LoopStep ==
  ASSUME TypeOK, [Next]_vars, NEW d \in Consumers
  PROVE  Named(d) \/ Unmoved(d) \/ Moved(d) \/ Died(d)
<1> DEFINE Goal == Named(d) \/ Unmoved(d) \/ Moved(d) \/ Died(d)
<1> SUFFICES Goal
  OBVIOUS
<1> USE DEF TypeOK, LoopTypeOK, Goto
<1>1. ASSUME NEW c \in Consumers, ReadNew(c) PROVE Goal
  <2>1. CASE c = d
    BY <1>1, <2>1 DEF Named
  <2>2. CASE c # d
    BY <1>1, <2>2 DEF ReadNew, Unmoved, Same
  <2> QED  BY <2>1, <2>2
<1>2. ASSUME NEW c \in Consumers, ClaimPage(c) PROVE Goal
  <2>1. CASE c = d
    BY <1>2, <2>1 DEF Named
  <2>2. CASE c # d
    BY <1>2, <2>2 DEF ClaimPage, Unmoved, Same
  <2> QED  BY <2>1, <2>2
<1>3. ASSUME NEW c \in Consumers, LookUpCount(c) PROVE Goal
  <2>1. CASE c = d
    BY <1>3, <2>1 DEF Named
  <2>2. CASE c # d
    BY <1>3, <2>2 DEF LookUpCount, Learn, Unmoved, Same
  <2> QED  BY <2>1, <2>2
<1>4. ASSUME NEW c \in Consumers, LookUpFails(c) PROVE Goal
  <2>1. CASE c = d
    BY <1>4, <2>1 DEF Named
  <2>2. CASE c # d
    BY <1>4, <2>2 DEF LookUpFails, Learn, Unmoved, Same
  <2> QED  BY <2>1, <2>2
<1>5. ASSUME NEW c \in Consumers, RunHandler(c) PROVE Goal
  <2>1. CASE c = d
    BY <1>5, <2>1 DEF Named
  <2>2. CASE c # d
    BY <1>5, <2>2 DEF RunHandler, TakeEntry, Unmoved, Same
  <2> QED  BY <2>1, <2>2
<1>6. ASSUME NEW c \in Consumers, GiveUp(c) PROVE Goal
  <2>1. CASE c = d
    BY <1>6, <2>1 DEF Named
  <2>2. CASE c # d
    BY <1>6, <2>2 DEF GiveUp, TakeEntry, Unmoved, Same
  <2> QED  BY <2>1, <2>2
<1>7. ASSUME NEW c \in Consumers, HandlerReturns(c) PROVE Goal
  <2>1. CASE c = d
    BY <1>7, <2>1 DEF Named
  <2>2. CASE c # d
    BY <1>7, <2>2 DEF HandlerReturns, Unmoved, Same
  <2> QED  BY <2>1, <2>2
<1>8. ASSUME NEW c \in Consumers, DeadLetter(c) PROVE Goal
  <2>1. CASE c = d
    BY <1>8, <2>1 DEF Named
  <2>2. CASE c # d
    BY <1>8, <2>2 DEF DeadLetter, Unmoved, Same
  <2> QED  BY <2>1, <2>2
<1>9. ASSUME NEW c \in Consumers, Subscribe(c) PROVE Goal
  BY <1>9 DEF Subscribe, loop, Unmoved, Moved, Same, Processing
<1>10. ASSUME NEW c \in Consumers, BeginRead(c) PROVE Goal
  BY <1>10 DEF BeginRead, loop, Unmoved, Moved, Same, Processing
<1>11. ASSUME NEW c \in Consumers, ReadNothing(c) PROVE Goal
  BY <1>11 DEF ReadNothing, loop, Unmoved, Moved, Same, Processing
<1>12. ASSUME NEW c \in Consumers, BeginReclaim(c) PROVE Goal
  BY <1>12 DEF BeginReclaim, loop, Unmoved, Moved, Same, Processing
<1>13. ASSUME NEW c \in Consumers, EndPage(c) PROVE Goal
  BY <1>13 DEF EndPage, loop, Unmoved, Moved, Same, Processing
<1>14. ASSUME NEW c \in Consumers, Stop(c) PROVE Goal
  BY <1>14 DEF Stop, loop, Unmoved, Moved, Same, Processing
<1>15. ASSUME NEW c \in Consumers, HandlerThrows(c) PROVE Goal
  BY <1>15 DEF HandlerThrows, Finish, loop, Unmoved, Moved, Same, Processing
<1>16. ASSUME NEW c \in Consumers, Ack(c) PROVE Goal
  BY <1>16 DEF Ack, Finish, loop, Unmoved, Moved, Same, Processing
<1>17. ASSUME NEW c \in Consumers, AckDeadLetter(c) PROVE Goal
  BY <1>17 DEF AckDeadLetter, Finish, loop, Unmoved, Moved, Same, Processing
<1>18. ASSUME NEW c \in Consumers, ReadFails(c) PROVE Goal
  BY <1>18 DEF ReadFails, loop, Unmoved, Moved, Same, Processing
<1>19. ASSUME NEW c \in Consumers, ClaimFails(c) PROVE Goal
  BY <1>19 DEF ClaimFails, loop, Unmoved, Moved, Same, Processing
<1>20. ASSUME NEW c \in Consumers, AckFails(c) PROVE Goal
  BY <1>20 DEF AckFails, Finish, loop, Unmoved, Moved, Same, Processing
<1>21. ASSUME NEW c \in Consumers, DeadLetterFails(c) PROVE Goal
  BY <1>21 DEF DeadLetterFails, Finish, loop, Unmoved, Moved, Same, Processing
<1>22. ASSUME NEW c \in Consumers, Crash(c) PROVE Goal
  BY <1>22 DEF Crash, Die, Unmoved, Died, Same
<1>23. ASSUME NEW c \in Consumers, AckDeadLetterFails(c) PROVE Goal
  BY <1>23 DEF AckDeadLetterFails, Die, Unmoved, Died, Same
<1>24. ASSUME NEW c \in Consumers, Close(c) PROVE Goal
  BY <1>24 DEF Close, Unmoved, Same
<1>25. CASE Publish \/ GoStale \/ UNCHANGED vars
  BY <1>25 DEF Publish, GoStale, vars, loop, Unmoved, Same
<1> HIDE DEF Goal
<1> QED
  BY <1>1, <1>2, <1>3, <1>4, <1>5, <1>6, <1>7, <1>8, <1>9, <1>10, <1>11, <1>12,
     <1>13, <1>14, <1>15, <1>16, <1>17, <1>18, <1>19, <1>20, <1>21, <1>22, <1>23,
     <1>24, <1>25 DEF Next, Progress, Failure

\* What a loop holds was pending or already held, and it asks for counts only
\* of entries it holds, in the state "count".
LEMMA HeldStep ==
  ASSUME IInv, [Next]_vars, NEW d \in Consumers
  PROVE  /\ todo'[d] \subseteq work'[d]
         /\ todo'[d] # {} => pc'[d] = "count"
         /\ work'[d] \subseteq work[d] \/ work'[d] \subseteq pel'
<1> DEFINE Goal == /\ todo'[d] \subseteq work'[d]
                   /\ todo'[d] # {} => pc'[d] = "count"
                   /\ work'[d] \subseteq work[d] \/ work'[d] \subseteq pel'
<1> SUFFICES Goal
  OBVIOUS
<1>0. /\ pc \in [Consumers -> Running \union {"down", "stopped"}]
      /\ work \in [Consumers -> SUBSET Ids] /\ todo \in [Consumers -> SUBSET Ids]
      /\ todo[d] \subseteq work[d]
      /\ todo[d] # {} => pc[d] = "count"
  BY DEF IInv, TypeOK, LoopTypeOK, DeliveredInv
<1>1. CASE ReadNew(d)
  <2>1. PICK page : DeliverNew(page) /\ work' = [work EXCEPT ![d] = page]
    BY <1>1 DEF ReadNew
  <2> QED  BY <1>0, <1>1, <2>1 DEF ReadNew, DeliverNew
<1>2. CASE ClaimPage(d)
  <2> DEFINE Q == Claimable(scan[d])
             P == ScanPage(scan[d])
  <2>1. Q \subseteq P /\ P \subseteq pel
    BY ClaimedPage
  <2>2. /\ pel' = pel \ (P \ Q)
        /\ work' = [work EXCEPT ![d] = Q] /\ todo' = [todo EXCEPT ![d] = Q]
        /\ pc' = [pc EXCEPT ![d] = IF Q = {} THEN "loop" ELSE "count"]
    BY <1>2 DEF ClaimPage, Claim, Goto
  <2> HIDE DEF P, Q
  <2> QED  BY <1>0, <2>1, <2>2
<1>3. CASE LookUpCount(d) \/ LookUpFails(d)
  <2>1. PICK i \in todo[d] : \E n : Learn(d, i, n)
    BY <1>3 DEF LookUpCount, LookUpFails
  <2> QED  BY <1>0, <1>3, <2>1 DEF Learn, Goto
<1>4. CASE RunHandler(d) \/ GiveUp(d)
  <2>1. PICK i \in work[d] : \E label : TakeEntry(d, i, label)
    BY <1>4 DEF RunHandler, GiveUp
  <2> QED  BY <1>0, <2>1 DEF TakeEntry
<1>5. CASE HandlerReturns(d) \/ DeadLetter(d)
  BY <1>0, <1>5 DEF HandlerReturns, DeadLetter
<1>6. CASE Unmoved(d) \/ Moved(d) \/ Died(d)
  BY <1>0, <1>6 DEF Unmoved, Moved, Died, Same
<1> HIDE DEF Goal
<1> QED
  BY <1>1, <1>2, <1>3, <1>4, <1>5, <1>6, LoopStep DEF IInv, Named

\* The entry a loop starts to process is one it held.
LEMMA CurStep ==
  ASSUME IInv, [Next]_vars, NEW d \in Consumers, pc'[d] \in Processing
  PROVE  \/ pc[d] \in Processing /\ cur'[d] = cur[d]
         \/ cur'[d] \in work[d]
<1>0. pc \in [Consumers -> Running \union {"down", "stopped"}]
      /\ cur \in [Consumers -> 0..MaxEvents]
  BY DEF IInv, TypeOK, LoopTypeOK
<1>1. CASE ReadNew(d) \/ ClaimPage(d)
  BY <1>0, <1>1 DEF ReadNew, ClaimPage, Goto, Processing
<1>2. CASE LookUpCount(d) \/ LookUpFails(d)
  <2>1. PICK i \in todo[d] : \E n : Learn(d, i, n)
    BY <1>2 DEF LookUpCount, LookUpFails
  <2> QED  BY <1>0, <2>1 DEF Learn, Goto, Processing
<1>3. CASE RunHandler(d) \/ GiveUp(d)
  <2>1. PICK i \in work[d] : \E label : TakeEntry(d, i, label)
    BY <1>3 DEF RunHandler, GiveUp
  <2> QED  BY <1>0, <2>1 DEF TakeEntry
<1>4. CASE HandlerReturns(d) \/ DeadLetter(d)
  BY <1>0, <1>4 DEF HandlerReturns, DeadLetter, Processing
<1>5. CASE Unmoved(d) \/ Moved(d) \/ Died(d)
  BY <1>5 DEF Unmoved, Moved, Died, Processing
<1> QED
  BY <1>1, <1>2, <1>3, <1>4, <1>5, LoopStep DEF IInv, Named

\* DeliveredInv is preserved.
LEMMA DeliveredStep == IInv /\ [Next]_vars => DeliveredInv'
<1> SUFFICES ASSUME IInv, [Next]_vars PROVE DeliveredInv'
  OBVIOUS
<1>1. Delivered \subseteq Delivered' \/ ~group
  <2>1. start \in Int /\ cursor \in Int /\ cursor' \in Int
    BY TypeStep DEF IInv, TypeOK, RedisTypeOK
  <2> QED  BY <2>1, ServerGrows DEF Delivered, Ids
<1>2. ASSUME NEW d \in Consumers
      PROVE  /\ todo'[d] \subseteq work'[d] /\ work'[d] \subseteq Delivered'
             /\ todo'[d] # {} => pc'[d] = "count"
             /\ pc'[d] \in Processing => cur'[d] \in Delivered'
  <2>1. work[d] \subseteq Delivered'
    <3>1. CASE group
      BY <1>1, <3>1 DEF IInv, DeliveredInv
    <3>2. CASE ~group
      BY <3>2 DEF IInv, DeliveredInv, Delivered, Ids
    <3> QED  BY <3>1, <3>2
  <2>2. pel' \subseteq Delivered'
    BY PendingStep
  <2>3. pc[d] \in Processing => cur[d] \in Delivered'
    <3>1. pc[d] \in Processing => group
      BY DEF IInv, DeliveredInv, Processing
    <3> QED  BY <1>1, <3>1 DEF IInv, DeliveredInv
  <2> QED  BY <2>1, <2>2, <2>3, HeldStep, CurStep
<1> QED
  BY <1>2, NothingBeforeGroup, PendingStep, TrimStep DEF DeliveredInv

\* No loop believes in more deliveries than there were.
LEMMA SeenStep ==
  ASSUME IInv, [Next]_vars, NEW d \in Consumers, NEW i \in Ids
  PROVE  seen'[d][i] <= count'[i]
<1>0. /\ seen \in [Consumers -> [Ids -> Nat]] /\ count \in [Ids -> Nat]
      /\ count' \in [Ids -> Nat]
      /\ seen[d][i] <= count[i] /\ count[i] <= count'[i]
      /\ \A j \in work[d] : j \in Ids /\ count[j] > 0
      /\ todo[d] \subseteq work[d]
  <2>1. count' \in [Ids -> Nat]
    BY TypeStep DEF IInv, TypeOK, RedisTypeOK
  <2> QED
    BY <2>1, ServerGrows DEF IInv, TypeOK, RedisTypeOK, LoopTypeOK, DeliveredInv, OutcomeInv
<1>1. CASE seen'[d] = seen[d] \/ seen'[d] = [j \in Ids |-> 0]
  BY <1>0, <1>1
<1>2. CASE ReadNew(d)
  <2>1. PICK page :
           /\ DeliverNew(page)
           /\ seen' = [seen EXCEPT ![d] = [j \in Ids |-> IF j \in page THEN 1 ELSE @[j]]]
    BY <1>2 DEF ReadNew
  <2>2. count'[i] = IF i \in page THEN 1 ELSE count[i]
    BY <2>1 DEF DeliverNew
  <2> QED  BY <1>0, <2>1, <2>2
<1>3. CASE LookUpCount(d) \/ LookUpFails(d)
  <2>1. PICK j \in todo[d], n \in Nat : Learn(d, j, n) /\ n <= count[j]
    <3>1. PICK j \in todo[d] : Learn(d, j, count[j]) \/ Learn(d, j, 1)
      BY <1>3 DEF LookUpCount, LookUpFails
    <3>2. count[j] \in Nat /\ 1 <= count[j]
      BY <1>0
    <3> QED  BY <3>1, <3>2
  <2>2. seen'[d][i] = IF i = j THEN n ELSE seen[d][i]
    BY <1>0, <2>1 DEF Learn
  <2> QED  BY <1>0, <2>1, <2>2
<1>4. CASE RunHandler(d) \/ GiveUp(d)
  <2>1. PICK j \in work[d] : \E label : TakeEntry(d, j, label)
    BY <1>4 DEF RunHandler, GiveUp
  <2>2. seen'[d][i] = IF i = j THEN 0 ELSE seen[d][i]
    BY <1>0, <2>1 DEF TakeEntry
  <2> QED  BY <1>0, <2>2
<1> QED
  BY <1>1, <1>2, <1>3, <1>4, LoopStep
     DEF IInv, Named, ClaimPage, HandlerReturns, DeadLetter, Unmoved, Moved, Died, Same

\* What a loop is about to write or acknowledge has its reason on record.
LEMMA OutcomeOfCur ==
  ASSUME IInv, [Next]_vars, NEW d \in Consumers
  PROVE  /\ pc'[d] = "ack" => cur'[d] \in handled'
         /\ pc'[d] = "dlq" => count'[cur'[d]] > MaxDeliveries
         /\ pc'[d] = "dlqAck" => dlq'[cur'[d]] > 0
<1> DEFINE Goal == /\ pc'[d] = "ack" => cur'[d] \in handled'
                   /\ pc'[d] = "dlq" => count'[cur'[d]] > MaxDeliveries
                   /\ pc'[d] = "dlqAck" => dlq'[cur'[d]] > 0
<1> SUFFICES Goal
  OBVIOUS
<1>0. /\ pc \in [Consumers -> Running \union {"down", "stopped"}]
      /\ cur \in [Consumers -> 0..MaxEvents]
      /\ pc[d] \in Processing => cur[d] \in Ids
      /\ count \in [Ids -> Nat] /\ dlq \in [Ids -> Nat]
      /\ count' \in [Ids -> Nat] /\ dlq' \in [Ids -> Nat]
      /\ \A i \in Ids : count[i] <= count'[i] /\ dlq[i] <= dlq'[i]
      /\ handled \subseteq handled'
      /\ MaxDeliveries \in Nat
  <2>1. count' \in [Ids -> Nat] /\ dlq' \in [Ids -> Nat]
    BY TypeStep DEF IInv, TypeOK, RedisTypeOK
  <2> QED
    BY <2>1, ServerGrows, HandledGrows, BoundsAssumption
       DEF IInv, TypeOK, RedisTypeOK, LoopTypeOK
<1>1. CASE ReadNew(d) \/ ClaimPage(d)
  BY <1>0, <1>1 DEF ReadNew, ClaimPage, Goto
<1>2. CASE LookUpCount(d) \/ LookUpFails(d)
  <2>1. PICK i \in todo[d] : \E n : Learn(d, i, n)
    BY <1>2 DEF LookUpCount, LookUpFails
  <2> QED  BY <1>0, <2>1 DEF Learn, Goto
<1>3. CASE RunHandler(d)
  BY <1>0, <1>3 DEF RunHandler, TakeEntry, Goto
<1>4. CASE GiveUp(d)
  <2>1. PICK i \in work[d] : seen[d][i] > MaxDeliveries /\ TakeEntry(d, i, "dlq")
    BY <1>4 DEF GiveUp, ExhaustedFor
  <2>2. pc'[d] = "dlq" /\ cur'[d] = i
    BY <1>0, <2>1 DEF TakeEntry, Goto
  <2>3. i \in Ids /\ seen[d][i] \in Nat /\ seen[d][i] <= count[i]
    BY DEF IInv, TypeOK, LoopTypeOK, OutcomeInv
  <2>4. count'[i] > MaxDeliveries
    BY <1>0, <2>1, <2>3
  <2> QED  BY <2>2, <2>4
<1>5. CASE HandlerReturns(d)
  BY <1>0, <1>5 DEF HandlerReturns, Goto
<1>6. CASE DeadLetter(d)
  <2>1. /\ pc'[d] = "dlqAck" /\ cur'[d] = cur[d] /\ cur[d] \in Ids
        /\ dlq' = [dlq EXCEPT ![cur[d]] = @ + 1]
    BY <1>0, <1>6 DEF DeadLetter, CopyToDlq, Goto, Processing
  <2> QED  BY <1>0, <2>1
<1>7. CASE Unmoved(d)
  <2>1. pc'[d] = pc[d] /\ cur'[d] = cur[d]
    BY <1>7 DEF Unmoved
  <2>2. pc[d] \in {"ack", "dlq", "dlqAck"} => cur[d] \in Ids
    BY <1>0 DEF Processing
  <2> QED  BY <1>0, <2>1, <2>2 DEF IInv, OutcomeInv
<1>8. CASE Moved(d) \/ Died(d)
  BY <1>8 DEF Moved, Died, Processing
<1> HIDE DEF Goal
<1> QED
  BY <1>1, <1>2, <1>3, <1>4, <1>5, <1>6, <1>7, <1>8, LoopStep DEF IInv, Named

\* OutcomeInv is preserved.
LEMMA OutcomeStep == IInv /\ [Next]_vars => OutcomeInv'
<1> SUFFICES ASSUME IInv, [Next]_vars PROVE OutcomeInv'
  OBVIOUS
<1>1. ASSUME NEW d \in Consumers, NEW i \in work'[d] PROVE count'[i] > 0
  <2>1. CASE i \in pel'
    BY <2>1, PendingStep
  <2>2. CASE i \in work[d]
    <3>1. i \in Ids /\ count[i] \in Nat /\ count[i] > 0
      BY <2>2 DEF IInv, TypeOK, RedisTypeOK, LoopTypeOK, OutcomeInv
    <3>2. count'[i] \in Nat
      BY <3>1, TypeStep DEF IInv, TypeOK, RedisTypeOK
    <3> QED  BY <3>1, <3>2, ServerGrows
  <2> QED  BY <2>1, <2>2, HeldStep
<1> QED  BY <1>1, PendingStep, SeenStep, OutcomeOfCur DEF OutcomeInv

\* An entry accounted for stays so: the cursor passes it only into the pending
\* list or over the trimmed part, and it leaves that list with an outcome.
LEMMA AtLeastOnceStep == IInv /\ [Next]_vars => AtLeastOnce'
<1> DEFINE Accounted(i) == \/ i > cursor \/ i \in pel \/ i \in handled \/ dlq[i] > 0
                           \/ i \in evicted /\ i <= last - MaxLen
<1> SUFFICES ASSUME IInv, [Next]_vars, group', NEW i \in Ids, start' < i, i <= last'
             PROVE  Accounted(i)'
  BY DEF AtLeastOnce
<1> USE BoundsAssumption
<1>0. /\ last \in Nat /\ trimmed \in Nat /\ cursor \in Nat /\ start \in Nat /\ i \in Nat
      /\ dlq[i] \in Nat /\ last <= last' /\ evicted \subseteq evicted'
      /\ handled \subseteq handled'
      /\ group => start' = start
  BY ServerGrows, HandledGrows DEF IInv, TypeOK, RedisTypeOK, Ids
<1>1. CASE Publish
  <2>1. last' = last + 1 /\ UNCHANGED <<group, start, cursor, pel, dlq, handled, evicted>>
    BY <1>1 DEF Publish, history
  <2>2. CASE i <= last
    BY <1>0, <2>1, <2>2 DEF IInv, AtLeastOnce
  <2>3. CASE i = last'
    BY <1>0, <2>1, <2>3 DEF IInv, TypeOK, RedisTypeOK
  <2> QED  BY <1>0, <2>1, <2>2, <2>3
<1>2. CASE GoStale
  BY <1>0, <1>2 DEF GoStale, history, IInv, AtLeastOnce
<1>3. ASSUME NEW c \in Consumers, Subscribe(c) PROVE Accounted(i)'
  BY <1>0, <1>3 DEF Subscribe, history, IInv, AtLeastOnce
<1>4. ASSUME NEW page, DeliverNew(page) PROVE Accounted(i)'
  <2>1. /\ pel' = pel \union page /\ UNCHANGED <<last, trimmed, group, start, dlq>>
        /\ evicted' = evicted \union {j \in Ids : j > cursor /\ j <= trimmed}
    BY <1>4 DEF DeliverNew
  <2>2. CASE i > cursor
    <3>1. i > trimmed /\ i <= cursor' => i \in page
      BY <1>4, <2>2, DeliverNewPage DEF IInv
    <3>2. i <= trimmed => i \in evicted' /\ i <= last - MaxLen
      BY <1>0, <2>1, <2>2 DEF IInv, DeliveredInv, Ids
    <3>3. cursor' \in Int
      BY TypeStep DEF IInv, TypeOK, RedisTypeOK
    <3> QED  BY <1>0, <2>1, <3>1, <3>2, <3>3
  <2>3. CASE ~(i > cursor)
    BY <1>0, <2>1, <2>3 DEF IInv, AtLeastOnce
  <2> QED  BY <2>2, <2>3
<1>5. ASSUME NEW c \in Consumers, Claim(scan[c]) PROVE Accounted(i)'
  <2> DEFINE Gone == ScanPage(scan[c]) \ Claimable(scan[c])
  <2>1. /\ pel' = pel \ Gone /\ evicted' = evicted \union Gone
        /\ UNCHANGED <<last, trimmed, group, start, cursor, dlq>>
    BY <1>5 DEF Claim
  <2>2. CASE i \in Gone
    <3>1. ~(i > trimmed)
      BY <2>2, ClaimedPage
    <3>2. i <= last - MaxLen
      BY <1>0, <3>1 DEF IInv, DeliveredInv, Ids
    <3> QED  BY <2>1, <2>2, <3>2
  <2>3. CASE i \notin Gone
    <3> HIDE DEF Gone
    <3> QED  BY <1>0, <2>1, <2>3 DEF IInv, AtLeastOnce
  <2> QED  BY <2>2, <2>3
<1>6. ASSUME NEW c \in Consumers, pc[c] \in {"ack", "dlqAck"}, Acknowledge(cur[c]),
             UNCHANGED <<last, trimmed, group, start, cursor, count, dlq, evicted>>
      PROVE  Accounted(i)'
  <2>1. i = cur[c] => i \in handled \/ dlq[i] > 0
    BY <1>6 DEF IInv, OutcomeInv
  <2> QED  BY <1>0, <1>6, <2>1 DEF Acknowledge, IInv, AtLeastOnce
<1>7. ASSUME NEW c \in Consumers, pc[c] = "dlq", CopyToDlq(cur[c]), UNCHANGED evicted
      PROVE  Accounted(i)'
  <2>1. dlq[i] > 0 => dlq'[i] > 0
    <3>1. dlq'[i] \in Nat /\ dlq[i] <= dlq'[i]
      BY TypeStep, ServerGrows DEF IInv, TypeOK, RedisTypeOK
    <3> QED  BY <1>0, <3>1
  <2> QED  BY <1>0, <1>7, <2>1 DEF CopyToDlq, IInv, AtLeastOnce
<1>8. CASE UNCHANGED <<redis, evicted>>
  BY <1>0, <1>8 DEF redis, IInv, AtLeastOnce
<1> HIDE DEF Accounted
<1> QED
  BY <1>1, <1>2, <1>3, <1>4, <1>5, <1>6, <1>7, <1>8, ServerStep DEF IInv

\* A copy is written only for an entry whose count is beyond MaxDeliveries.
LEMMA DeadLetterStep == IInv /\ [Next]_vars => DeadLetterJustified'
<1> SUFFICES ASSUME IInv, [Next]_vars, NEW i \in Ids, dlq'[i] > 0
             PROVE  count'[i] > MaxDeliveries
  BY DEF DeadLetterJustified
<1>0. /\ count[i] \in Nat /\ count'[i] \in Nat /\ count[i] <= count'[i]
      /\ MaxDeliveries \in Nat
  BY TypeStep, ServerGrows, BoundsAssumption DEF IInv, TypeOK, RedisTypeOK
<1>1. CASE dlq'[i] = dlq[i]
  BY <1>0, <1>1 DEF IInv, DeadLetterJustified
<1>2. ASSUME NEW c \in Consumers, pc[c] = "dlq", CopyToDlq(cur[c]) PROVE count'[i] > MaxDeliveries
  <2>1. CASE i = cur[c]
    BY <1>0, <1>2, <2>1 DEF IInv, OutcomeInv
  <2>2. CASE i # cur[c]
    BY <1>1, <1>2, <2>2 DEF CopyToDlq, IInv, TypeOK, RedisTypeOK
  <2> QED  BY <2>1, <2>2
<1> QED
  BY <1>1, <1>2, ServerStep
     DEF IInv, Publish, GoStale, Subscribe, DeliverNew, Claim, redis

\* Every step preserves the inductive invariant.
LEMMA IInvStep == IInv /\ [Next]_vars => IInv'
  BY TypeStep, DeliveredStep, OutcomeStep, AtLeastOnceStep, DeadLetterStep DEF IInv

\* The inductive invariant holds in every reachable state.
THEOREM Inductive == Spec => []IInv
  BY IInvInit, IInvStep, PTL DEF Spec

\* At-least-once delivery, for any number of replicas, entries and faults and
\* any page size: a published entry leaves the pending list only handled, dead-lettered
\* or trimmed behind the newest MaxLen.
THEOREM AtLeastOnceCorrect == Spec => []AtLeastOnce
<1>1. IInv => AtLeastOnce
  BY DEF IInv
<1> QED  BY <1>1, Inductive, PTL

\* No entry is dead-lettered before it was delivered more than MaxDeliveries times.
THEOREM DeadLetterCorrect == Spec => []DeadLetterJustified
<1>1. IInv => DeadLetterJustified
  BY DEF IInv
<1> QED  BY <1>1, Inductive, PTL

\* What leaves the pending list has its reason on record.
LEMMA LeavesPendingStep ==
  ASSUME IInv, [Next]_vars, NEW i \in pel, i \notin pel'
  PROVE  i \in handled \/ dlq[i] > 0 \/ i <= trimmed
<1>0. i \in Int /\ trimmed \in Int
  BY DEF IInv, TypeOK, RedisTypeOK, Ids
<1>1. ASSUME NEW c \in Consumers, Claim(scan[c]) PROVE i <= trimmed
  <2>1. i \in ScanPage(scan[c]) \ Claimable(scan[c])
    BY <1>1 DEF Claim
  <2> QED  BY <1>0, <2>1, ClaimedPage
<1>2. ASSUME NEW c \in Consumers, pc[c] \in {"ack", "dlqAck"}, Acknowledge(cur[c])
      PROVE  i \in handled \/ dlq[i] > 0
  BY <1>2 DEF Acknowledge, IInv, OutcomeInv
<1> QED
  BY <1>1, <1>2, ServerStep
     DEF IInv, Publish, GoStale, Subscribe, DeliverNew, CopyToDlq, redis

\* No step takes an unsettled entry off the pending list without a reason.
THEOREM LeavesPendingCorrect == Spec => LeavesPendingForAReason
<1> DEFINE A == \A i \in pel \ pel' : i \in handled \/ dlq[i] > 0 \/ i <= trimmed
<1>1. IInv /\ [Next]_vars => A
  BY LeavesPendingStep
<1> HIDE DEF A
<1>2. Spec => [][A]_vars
  BY <1>1, Inductive, PTL DEF Spec
<1> QED  BY <1>2 DEF A, LeavesPendingForAReason

(***************************************************************************)
(* The retry budget.                                                       *)
(***************************************************************************)

\* How the number of loops in a set changes with the set.
LEMMA Headcount ==
  ASSUME NEW S \in SUBSET Consumers, NEW T \in SUBSET Consumers, NEW c \in Consumers
  PROVE  /\ Cardinality(S) \in Nat /\ Cardinality(T) \in Nat
         /\ S \subseteq T => Cardinality(S) <= Cardinality(T)
         /\ S \subseteq T \union {c} => Cardinality(S) <= Cardinality(T) + 1
         /\ S \subseteq T \ {c} /\ c \in T => Cardinality(S) + 1 <= Cardinality(T)
<1>1. IsFiniteSet(S) /\ IsFiniteSet(T)
  BY FS_Subset, ConsumersAssumption
<1>2. Cardinality(S) \in Nat /\ Cardinality(T) \in Nat
  BY <1>1, FS_CardinalityType
<1>3. S \subseteq T => Cardinality(S) <= Cardinality(T)
  BY <1>1, FS_Subset
<1>4. ASSUME S \subseteq T \union {c} PROVE Cardinality(S) <= Cardinality(T) + 1
  <2>1. /\ IsFiniteSet(T \union {c})
        /\ Cardinality(T \union {c}) = IF c \in T THEN Cardinality(T) ELSE Cardinality(T) + 1
    BY <1>1, FS_AddElement
  <2>2. Cardinality(S) <= Cardinality(T \union {c})
    BY <1>4, <2>1, FS_Subset
  <2> QED  BY <1>2, <2>1, <2>2
<1>5. ASSUME S \subseteq T \ {c}, c \in T PROVE Cardinality(S) + 1 <= Cardinality(T)
  <2>1. /\ IsFiniteSet(T \ {c})
        /\ Cardinality(T \ {c}) = Cardinality(T) - 1
    BY <1>1, <1>5, FS_RemoveElement
  <2>2. Cardinality(S) <= Cardinality(T \ {c})
    BY <1>5, <2>1, FS_Subset
  <2> QED  BY <1>2, <2>1, <2>2
<1> QED  BY <1>2, <1>3, <1>4, <1>5

\* Initially no call was made and no loop holds anything.
LEMMA BudgetInit == Init => BudgetInv
<1> SUFFICES ASSUME Init, NEW i \in Ids
             PROVE  /\ runs[i] + Cardinality(Holding(i)) <= count[i]
                    /\ runs[i] + Cardinality(Ready(i)) <= MaxDeliveries + misses[i]
  BY DEF BudgetInv
<1>1. Holding(i) = {} /\ Ready(i) = {}
  BY DEF Init, Holding, Ready
<1>2. Cardinality({}) = 0
  BY FS_EmptySet
<1> QED  BY <1>1, <1>2, BoundsAssumption DEF Init

\* What a step does to the calls of entry i: it only takes loops away, or a
\* loop reads the entry for the first time, claims it, looks its count up or
\* calls the handler.
Fewer(i) == /\ runs'[i] = runs[i] /\ misses'[i] = misses[i] /\ count[i] <= count'[i]
            /\ Holding(i)' \subseteq Holding(i) /\ Ready(i)' \subseteq Ready(i)

First(i, c) == /\ runs'[i] = runs[i] /\ misses'[i] = misses[i] /\ count[i] = 0 /\ count'[i] = 1
               /\ Holding(i)' \subseteq Holding(i) \union {c}
               /\ Ready(i)' \subseteq Ready(i) \union {d \in {c} : 1 <= MaxDeliveries}

Again(i, c) == /\ runs'[i] = runs[i] /\ misses'[i] = misses[i] /\ count'[i] = count[i] + 1
               /\ Holding(i)' \subseteq Holding(i) \union {c}
               /\ Ready(i)' \subseteq Ready(i)

Learned(i, c) ==
  /\ runs'[i] = runs[i] /\ count'[i] = count[i]
  /\ Holding(i)' = Holding(i)
  /\ Ready(i)' \subseteq Ready(i) \union {c}
  /\ \/ misses'[i] = misses[i] + 1
     \/ misses'[i] = misses[i] /\ (Ready(i)' \subseteq Ready(i) \/ count[i] <= MaxDeliveries)

Called(i, c) ==
  /\ runs'[i] = runs[i] + 1 /\ misses'[i] = misses[i] /\ count'[i] = count[i]
  /\ c \in Ready(i)
  /\ Holding(i)' \subseteq Holding(i) \ {c}
  /\ Ready(i)' \subseteq Ready(i) \ {c}

\* Every step is one of these, for every entry.
LEMMA CallStep ==
  ASSUME IInv, [Next]_vars, NEW i \in Ids
  PROVE  Fewer(i) \/ \E c \in Consumers : First(i, c) \/ Again(i, c) \/ Learned(i, c) \/ Called(i, c)
<1> DEFINE Goal == \/ Fewer(i)
                   \/ \E c \in Consumers : First(i, c) \/ Again(i, c) \/ Learned(i, c) \/ Called(i, c)
<1> SUFFICES Goal
  OBVIOUS
<1>0. /\ count \in [Ids -> Nat] /\ runs \in [Ids -> Nat] /\ misses \in [Ids -> Nat]
      /\ work \in [Consumers -> SUBSET Ids] /\ todo \in [Consumers -> SUBSET Ids]
      /\ seen \in [Consumers -> [Ids -> Nat]]
      /\ i \in Nat /\ MaxDeliveries \in Nat
      /\ \A c \in Consumers : todo[c] # {} => pc[c] = "count"
      /\ i > cursor => count[i] = 0
      /\ pel \subseteq Ids
  <2>1. i \in Nat /\ MaxDeliveries \in Nat
    BY BoundsAssumption DEF Ids
  <2>2. (i > cursor => count[i] = 0) /\ pel \subseteq Ids
    BY DEF IInv, TypeOK, RedisTypeOK, OutcomeInv
  <2>3. count \in [Ids -> Nat] /\ runs \in [Ids -> Nat] /\ misses \in [Ids -> Nat]
    BY DEF IInv, TypeOK, RedisTypeOK, HistoryTypeOK
  <2>4. \A c \in Consumers : todo[c] # {} => pc[c] = "count"
    BY DEF IInv, DeliveredInv
  <2> QED  BY <2>1, <2>2, <2>3, <2>4 DEF IInv, TypeOK, LoopTypeOK
<1>1. ASSUME count[i] <= count'[i], UNCHANGED <<work, todo, seen, runs, misses>> PROVE Goal
  BY <1>1 DEF Fewer, Holding, Ready, ExhaustedFor
<1>2. ASSUME NEW c \in Consumers, ReadNew(c) PROVE Goal
  <2>1. PICK page \in SUBSET Ids :
           /\ DeliverNew(page)
           /\ work' = [work EXCEPT ![c] = page]
           /\ seen' = [seen EXCEPT ![c] = [j \in Ids |-> IF j \in page THEN 1 ELSE @[j]]]
    BY <1>2 DEF ReadNew
  <2>2. /\ count' = [j \in Ids |-> IF j \in page THEN 1 ELSE count[j]]
        /\ UNCHANGED <<todo, runs, misses>>
    BY <1>2, <2>1 DEF ReadNew, DeliverNew
  <2>3. CASE i \in page
    <3>1. count[i] = 0 /\ count'[i] = 1
      BY <1>0, <2>1, <2>2, <2>3, DeliverNewPage DEF IInv
    <3>2. Holding(i)' \subseteq Holding(i) \union {c}
      BY <1>0, <2>1 DEF Holding
    <3>3. Ready(i)' \subseteq Ready(i) \union {d \in {c} : 1 <= MaxDeliveries}
      <4> SUFFICES ASSUME NEW d \in Consumers, d \in Ready(i)', d \notin Ready(i)
                   PROVE  d = c /\ 1 <= MaxDeliveries
        BY DEF Ready, Holding
      <4>1. d = c
        BY <1>0, <2>1, <2>2 DEF Ready, Holding, ExhaustedFor
      <4>2. seen'[c][i] = 1
        BY <1>0, <2>1, <2>3
      <4> QED  BY <1>0, <4>1, <4>2 DEF Ready, ExhaustedFor
    <3> QED  BY <2>2, <3>1, <3>2, <3>3 DEF First
  <2>4. CASE i \notin page
    <3>1. Holding(i)' \subseteq Holding(i)
      BY <1>0, <2>1, <2>4 DEF Holding
    <3>2. Ready(i)' \subseteq Ready(i)
      BY <1>0, <2>1, <2>2, <2>4 DEF Ready, Holding, ExhaustedFor
    <3> QED  BY <1>0, <2>2, <2>4, <3>1, <3>2 DEF Fewer
  <2> QED  BY <2>3, <2>4
<1>3. ASSUME NEW c \in Consumers, ClaimPage(c) PROVE Goal
  <2> DEFINE page == Claimable(scan[c])
  <2>1. /\ work' = [work EXCEPT ![c] = page] /\ todo' = [todo EXCEPT ![c] = page]
        /\ count' = [j \in Ids |-> IF j \in page THEN count[j] + 1 ELSE count[j]]
        /\ UNCHANGED <<seen, runs, misses>>
    BY <1>3 DEF ClaimPage, Claim
  <2> HIDE DEF page
  <2>2. Ready(i)' \subseteq Ready(i)
    BY <1>0, <2>1 DEF Ready, Holding, ExhaustedFor
  <2>3. CASE i \in page
    <3>1. Holding(i)' \subseteq Holding(i) \union {c}
      BY <1>0, <2>1 DEF Holding
    <3> QED  BY <1>0, <2>1, <2>2, <2>3, <3>1 DEF Again
  <2>4. CASE i \notin page
    <3>1. Holding(i)' \subseteq Holding(i)
      BY <1>0, <2>1, <2>4 DEF Holding
    <3> QED  BY <1>0, <2>1, <2>2, <2>4, <3>1 DEF Fewer
  <2> QED  BY <2>3, <2>4
<1>4. ASSUME NEW c \in Consumers, NEW j \in todo[c], NEW n \in Nat, Learn(c, j, n),
             UNCHANGED count,
             \/ misses' = [misses EXCEPT ![j] = @ + 1]
             \/ misses' = misses /\ n = count[j]
      PROVE  Goal
  <2>1. /\ seen' = [seen EXCEPT ![c][j] = n] /\ todo' = [todo EXCEPT ![c] = @ \ {j}]
        /\ UNCHANGED <<work, runs>>
    BY <1>4 DEF Learn
  <2>2. Holding(i)' = Holding(i)
    BY <2>1 DEF Holding
  <2>0. j \in Ids
    BY <1>0
  <2>3. CASE i = j
    <3>1. Ready(i)' \subseteq Ready(i) \union {c}
      BY <1>0, <2>1 DEF Ready, Holding, ExhaustedFor
    <3>2. CASE misses' = [misses EXCEPT ![j] = @ + 1]
      BY <1>0, <1>4, <2>1, <2>2, <2>3, <3>1, <3>2 DEF Learned
    <3>3. CASE misses' = misses /\ n = count[j]
      <4>1. count[i] <= MaxDeliveries \/ Ready(i)' \subseteq Ready(i)
        <5>1. seen'[c][i] = count[i]
          BY <1>0, <2>0, <2>1, <2>3, <3>3
        <5>2. c \in Ready(i)' => count[i] <= MaxDeliveries
          BY <1>0, <5>1 DEF Ready, ExhaustedFor
        <5> QED  BY <3>1, <5>2
      <4> QED  BY <1>4, <2>1, <2>2, <3>1, <3>3, <4>1 DEF Learned
    <3> QED  BY <1>4, <3>2, <3>3
  <2>4. CASE i # j
    <3>1. Ready(i)' \subseteq Ready(i)
      BY <1>0, <2>0, <2>1, <2>4 DEF Ready, Holding, ExhaustedFor
    <3>2. misses'[i] = misses[i]
      BY <1>0, <1>4, <2>4
    <3> QED  BY <1>0, <1>4, <2>1, <2>2, <3>1, <3>2 DEF Fewer
  <2> QED  BY <2>3, <2>4
<1>5. ASSUME NEW c \in Consumers, NEW j \in work[c], ~ExhaustedFor(c, j),
             TakeEntry(c, j, "handler"), runs' = [runs EXCEPT ![j] = @ + 1]
      PROVE  Goal
  <2>1. /\ work' = [work EXCEPT ![c] = @ \ {j}] /\ seen' = [seen EXCEPT ![c][j] = 0]
        /\ pc[c] = "batch" /\ UNCHANGED <<count, todo, misses>>
    BY <1>5 DEF TakeEntry, redis
  <2>0. j \in Ids /\ todo[c] = {}
    BY <1>0, <2>1
  <2>2. CASE i = j
    <3>1. c \in Ready(i)
      BY <1>5, <2>0, <2>2 DEF Ready, Holding
    <3>2. Holding(i)' \subseteq Holding(i) \ {c}
      BY <1>0, <2>1, <2>2 DEF Holding
    <3>3. Ready(i)' \subseteq Ready(i) \ {c}
      BY <1>0, <2>1, <2>2, <3>2 DEF Ready, Holding, ExhaustedFor
    <3> QED  BY <1>0, <1>5, <2>1, <2>2, <3>1, <3>2, <3>3 DEF Called
  <2>3. CASE i # j
    <3>1. Holding(i)' \subseteq Holding(i)
      BY <1>0, <2>1 DEF Holding
    <3>2. Ready(i)' \subseteq Ready(i)
      BY <1>0, <2>0, <2>1, <2>3 DEF Ready, Holding, ExhaustedFor
    <3> QED  BY <1>0, <1>5, <2>1, <2>3, <3>1, <3>2 DEF Fewer
  <2> QED  BY <2>2, <2>3
<1>6. ASSUME NEW c \in Consumers, NEW j \in work[c],
             TakeEntry(c, j, "dlq"), UNCHANGED runs
      PROVE  Goal
  <2>1. /\ work' = [work EXCEPT ![c] = @ \ {j}] /\ seen' = [seen EXCEPT ![c][j] = 0]
        /\ UNCHANGED <<count, todo, misses>>
    BY <1>6 DEF TakeEntry, redis
  <2>0. j \in Ids
    BY <1>0
  <2>2. Holding(i)' \subseteq Holding(i)
    BY <1>0, <2>1 DEF Holding
  <2>3. Ready(i)' \subseteq Ready(i)
    BY <1>0, <2>0, <2>1 DEF Ready, Holding, ExhaustedFor
  <2> QED  BY <1>0, <1>6, <2>1, <2>2, <2>3 DEF Fewer
<1>7. ASSUME NEW c \in Consumers, Die(c), UNCHANGED <<count, runs, misses>> PROVE Goal
  <2>1. work' = [work EXCEPT ![c] = {}] /\ todo' = [todo EXCEPT ![c] = {}]
        /\ seen' = [seen EXCEPT ![c] = [j \in Ids |-> 0]]
    BY <1>7 DEF Die
  <2>2. Holding(i)' \subseteq Holding(i)
    BY <1>0, <2>1 DEF Holding
  <2>3. Ready(i)' \subseteq Ready(i)
    BY <1>0, <2>1 DEF Ready, Holding, ExhaustedFor
  <2> QED  BY <1>0, <1>7, <2>2, <2>3 DEF Fewer
<1>8. count[i] <= count'[i]
  BY ServerGrows
<1> HIDE DEF Goal
<1>9. ASSUME NEW c \in Consumers, LookUpCount(c) \/ LookUpFails(c) PROVE Goal
  <2>1. CASE LookUpCount(c)
    <3>1. PICK j \in todo[c] : /\ Learn(c, j, IF j \in pel THEN count[j] ELSE 1)
                               /\ misses' = [misses EXCEPT ![j] = IF j \in pel THEN @ ELSE @ + 1]
      BY <2>1 DEF LookUpCount
    <3>2. UNCHANGED count
      BY <3>1 DEF Learn, redis
    <3>0. j \in Ids /\ count[j] \in Nat
      BY <1>0
    <3>3. CASE j \in pel
      <4>1. misses' = misses
        BY <1>0, <3>1, <3>3
      <4> QED  BY <1>4, <3>0, <3>1, <3>2, <3>3, <4>1
    <3>4. CASE j \notin pel
      BY <1>4, <3>0, <3>1, <3>2, <3>4
    <3> QED  BY <3>3, <3>4
  <2>2. CASE LookUpFails(c)
    <3>1. PICK j \in todo[c] : Learn(c, j, 1) /\ misses' = [misses EXCEPT ![j] = @ + 1]
      BY <2>2 DEF LookUpFails
    <3>2. UNCHANGED count
      BY <3>1 DEF Learn, redis
    <3> QED  BY <1>4, <3>1, <3>2
  <2> QED  BY <1>9, <2>1, <2>2
<1>10. ASSUME NEW c \in Consumers, RunHandler(c) \/ GiveUp(c) PROVE Goal
  BY <1>5, <1>6, <1>10 DEF RunHandler, GiveUp
<1>11. ASSUME NEW c \in Consumers, Crash(c) \/ AckDeadLetterFails(c) PROVE Goal
  BY <1>7, <1>11 DEF Crash, AckDeadLetterFails, redis, history
<1>12. ASSUME NEW c \in Consumers,
              \/ Subscribe(c) \/ Close(c) \/ BeginRead(c) \/ ReadNothing(c) \/ BeginReclaim(c)
              \/ HandlerReturns(c) \/ HandlerThrows(c) \/ Ack(c) \/ DeadLetter(c) \/ AckDeadLetter(c)
              \/ EndPage(c) \/ Stop(c) \/ ReadFails(c) \/ ClaimFails(c) \/ AckFails(c)
              \/ DeadLetterFails(c)
       PROVE  Goal
  BY <1>1, <1>8, <1>12 DEF Subscribe, Close, BeginRead, ReadNothing, BeginReclaim, HandlerReturns,
     HandlerThrows, Ack, DeadLetter, AckDeadLetter, EndPage, Stop, ReadFails, ClaimFails, AckFails,
     DeadLetterFails, Finish, history
<1>13. CASE Publish \/ GoStale \/ UNCHANGED vars
  BY <1>1, <1>8, <1>13 DEF Publish, GoStale, vars, loop, history
<1> QED  BY <1>2, <1>3, <1>9, <1>10, <1>11, <1>12, <1>13 DEF Next, Progress, Failure

\* Every step keeps the deliveries ahead of the calls, made and to come.
LEMMA BudgetStep == IInv /\ BudgetInv /\ [Next]_vars => BudgetInv'
<1> SUFFICES ASSUME IInv, BudgetInv, [Next]_vars, NEW i \in Ids
             PROVE  /\ runs'[i] + Cardinality(Holding(i)') <= count'[i]
                    /\ runs'[i] + Cardinality(Ready(i)') <= MaxDeliveries + misses'[i]
  BY DEF BudgetInv
<1> DEFINE H == Holding(i)
           R == Ready(i)
           G == Holding(i)'
           Q == Ready(i)'
<1>1. /\ runs[i] \in Nat /\ misses[i] \in Nat /\ count[i] \in Nat /\ MaxDeliveries \in Nat
      /\ count'[i] \in Nat
  BY BoundsAssumption, TypeStep DEF IInv, TypeOK, RedisTypeOK, HistoryTypeOK
<1>2. /\ runs[i] + Cardinality(H) <= count[i]
      /\ runs[i] + Cardinality(R) <= MaxDeliveries + misses[i]
  BY DEF BudgetInv
<1>3. /\ H \in SUBSET Consumers /\ R \in SUBSET Consumers /\ R \subseteq H
      /\ G \in SUBSET Consumers /\ Q \in SUBSET Consumers /\ Q \subseteq G
  BY DEF Holding, Ready
<1> SUFFICES /\ runs'[i] + Cardinality(G) <= count'[i]
             /\ runs'[i] + Cardinality(Q) <= MaxDeliveries + misses'[i]
  OBVIOUS
<1>4. /\ Cardinality(H) \in Nat /\ Cardinality(R) \in Nat
      /\ Cardinality(G) \in Nat /\ Cardinality(Q) \in Nat
      /\ G \subseteq H => Cardinality(G) <= Cardinality(H)
      /\ Q \subseteq R => Cardinality(Q) <= Cardinality(R)
      /\ Q \subseteq H => Cardinality(Q) <= Cardinality(H)
  <2>1. \A S, T \in SUBSET Consumers :
           Cardinality(S) \in Nat /\ (S \subseteq T => Cardinality(S) <= Cardinality(T))
    BY ConsumersAssumption, FS_Subset, FS_CardinalityType
  <2> QED  BY <1>3, <2>1
<1>5. ASSUME NEW c \in Consumers
      PROVE  /\ G \subseteq H \union {c} => Cardinality(G) <= Cardinality(H) + 1
             /\ Q \subseteq R \union {c} => Cardinality(Q) <= Cardinality(R) + 1
             /\ G \subseteq H \ {c} /\ c \in H => Cardinality(G) + 1 <= Cardinality(H)
             /\ Q \subseteq R \ {c} /\ c \in R => Cardinality(Q) + 1 <= Cardinality(R)
  BY <1>3, Headcount
<1> DEFINE Goal == /\ runs'[i] + Cardinality(G) <= count'[i]
                   /\ runs'[i] + Cardinality(Q) <= MaxDeliveries + misses'[i]
<1> HIDE DEF H, R, G, Q
<1>6. CASE Fewer(i)
  <2>1. /\ runs'[i] = runs[i] /\ misses'[i] = misses[i] /\ count[i] <= count'[i]
        /\ G \subseteq H /\ Q \subseteq R
    BY <1>6 DEF Fewer, G, H, Q, R
  <2> QED  BY <1>1, <1>2, <1>4, <2>1
<1>7. ASSUME NEW c \in Consumers, First(i, c) PROVE Goal
  <2>1. /\ runs'[i] = runs[i] /\ misses'[i] = misses[i] /\ count[i] = 0 /\ count'[i] = 1
        /\ G \subseteq H \union {c} /\ Q \subseteq R \union {d \in {c} : 1 <= MaxDeliveries}
    BY <1>7 DEF First, G, H, Q, R
  <2>2. Q \subseteq R \union {c} /\ (1 <= MaxDeliveries \/ Q \subseteq R)
    BY <2>1
  <2>3. runs[i] = 0 /\ Cardinality(H) = 0
    BY <1>1, <1>2, <1>4, <2>1
  <2>4. R = {} /\ Cardinality(R) = 0
    <3>1. IsFiniteSet(H)
      BY <1>3, ConsumersAssumption, FS_Subset
    <3>2. H = {}
      BY <2>3, <3>1, FS_EmptySet
    <3> QED  BY <1>3, <2>3, <3>2
  <2>5. Cardinality(G) <= 1 /\ Cardinality(Q) <= MaxDeliveries
    BY <1>1, <1>4, <1>5, <2>1, <2>2, <2>3, <2>4
  <2> QED  BY <1>1, <1>4, <2>1, <2>3, <2>5
<1>8. ASSUME NEW c \in Consumers, Again(i, c) PROVE Goal
  <2>1. /\ runs'[i] = runs[i] /\ misses'[i] = misses[i] /\ count'[i] = count[i] + 1
        /\ G \subseteq H \union {c} /\ Q \subseteq R
    BY <1>8 DEF Again, G, H, Q, R
  <2> QED  BY <1>1, <1>2, <1>4, <1>5, <2>1
<1>9. ASSUME NEW c \in Consumers, Learned(i, c) PROVE Goal
  <2>1. /\ runs'[i] = runs[i] /\ count'[i] = count[i] /\ G = H /\ Q \subseteq R \union {c}
        /\ \/ misses'[i] = misses[i] + 1
           \/ misses'[i] = misses[i] /\ (Q \subseteq R \/ count[i] <= MaxDeliveries)
    BY <1>9 DEF Learned, G, H, Q, R
  <2>2. Q \subseteq H
    BY <1>3, <2>1
  <2>3. CASE misses'[i] = misses[i] + 1
    BY <1>1, <1>2, <1>4, <1>5, <2>1, <2>3
  <2>4. CASE misses'[i] = misses[i] /\ Q \subseteq R
    BY <1>1, <1>2, <1>4, <2>1, <2>4
  <2>5. CASE misses'[i] = misses[i] /\ count[i] <= MaxDeliveries
    BY <1>1, <1>2, <1>4, <2>1, <2>2, <2>5
  <2> QED  BY <2>1, <2>3, <2>4, <2>5
<1>10. ASSUME NEW c \in Consumers, Called(i, c) PROVE Goal
  <2>1. /\ runs'[i] = runs[i] + 1 /\ misses'[i] = misses[i] /\ count'[i] = count[i]
        /\ c \in R /\ G \subseteq H \ {c} /\ Q \subseteq R \ {c}
    BY <1>10 DEF Called, G, H, Q, R
  <2>2. c \in H
    BY <1>3, <2>1
  <2> QED  BY <1>1, <1>2, <1>4, <1>5, <2>1, <2>2
<1> QED  BY <1>6, <1>7, <1>8, <1>9, <1>10, CallStep

\* The handler runs for an entry at most MaxDeliveries times, but for one call
\* per lookup that found no count, whatever the replicas and faults do.
THEOREM RetryBudgetCorrect == Spec => []RetryBudget
<1>1. IInv /\ BudgetInv => RetryBudget
  <2> SUFFICES ASSUME IInv, BudgetInv, NEW i \in Ids
               PROVE  runs[i] <= MaxDeliveries + misses[i]
    BY DEF RetryBudget
  <2>1. Cardinality(Ready(i)) \in Nat
    <3>1. Ready(i) \subseteq Consumers
      BY DEF Ready, Holding
    <3> QED  BY <3>1, ConsumersAssumption, FS_Subset, FS_CardinalityType
  <2> QED  BY <2>1, BoundsAssumption DEF BudgetInv, IInv, TypeOK, HistoryTypeOK
<1>2. Spec => []BudgetInv
  BY BudgetInit, BudgetStep, IInvInit, IInvStep, PTL DEF Spec
<1> QED  BY <1>1, <1>2, Inductive, PTL

(***************************************************************************)
(* The bus implements the promise of EventDelivery.                        *)
(***************************************************************************)

\* A handler call that returns is the only thing that adds to handled, and it
\* leaves the server alone.
LEMMA HandledStep ==
  ASSUME [Next]_vars
  PROVE  \/ handled' = handled
         \/ /\ UNCHANGED <<redis, evicted>>
            /\ \E c \in Consumers : pc[c] = "handler" /\ handled' = handled \union {cur[c]}
  BY DEF Next, Progress, Failure, vars, Publish, GoStale, Subscribe, Close, BeginRead,
     ReadNothing, ReadNew, BeginReclaim, ClaimPage, LookUpCount, Learn, RunHandler, GiveUp,
     TakeEntry, HandlerReturns, HandlerThrows, Finish, Ack, DeadLetter, AckDeadLetter,
     EndPage, Stop, Crash, ReadFails, ClaimFails, LookUpFails, AckFails, DeadLetterFails,
     AckDeadLetterFails, redis, loop, history

\* Initially nothing is settled.
LEMMA DeliveryInit == Init => Delivery!Init
<1> SUFFICES ASSUME Init PROVE Delivery!Init
  OBVIOUS
<1>1. DeadLettered = {}
  BY DEF Init, DeadLettered
<1>2. SettledIds = {}
  BY DEF Init, SettledIds, Settled, Ids
<1> QED  BY <1>1, <1>2 DEF Init, Delivery!Init

\* Every step maps to a step of EventDelivery or to a stutter: a page read or
\* claimed to Drop, an acknowledgement to Settle, a copy to SetAside.
LEMMA DeliveryStep == IInv /\ [Next]_vars => [Delivery!Next]_(Delivery!vars)
<1> SUFFICES ASSUME IInv, [Next]_vars
             PROVE  Delivery!Next \/ UNCHANGED Delivery!vars
  OBVIOUS
<1> DEFINE Goal == Delivery!Next \/ UNCHANGED Delivery!vars
<1> SUFFICES Goal
  OBVIOUS
<1> USE BoundsAssumption
<1>0. /\ last \in Nat /\ trimmed \in Nat /\ cursor \in Nat /\ start \in Nat
      /\ last <= MaxEvents /\ start <= cursor /\ cursor <= last
      /\ trimmed = 0 \/ trimmed <= last - MaxLen
      /\ \A i \in Ids : i \in Nat /\ i > 0 /\ dlq[i] \in Nat
      /\ pel \subseteq Ids /\ group \in BOOLEAN
      /\ \A c \in Consumers : pc[c] \in Processing => cur[c] \in Delivered /\ group
      /\ ~group => start = 0 /\ cursor = 0
  BY DEF IInv, TypeOK, RedisTypeOK, DeliveredInv, Ids, Processing
<1>1. ASSUME Publish, UNCHANGED handled PROVE Goal
  <2>1. /\ last < MaxEvents /\ last' = last + 1
        /\ UNCHANGED <<group, start, cursor, pel, dlq, evicted>>
    BY <1>1 DEF Publish, history
  <2>2. UNCHANGED <<DeadLettered, SettledIds>>
    BY <2>1 DEF DeadLettered, SettledIds, Settled
  <2> QED  BY <1>1, <2>1, <2>2 DEF Delivery!Next, Delivery!Publish
<1>2. ASSUME UNCHANGED <<last, group, start, cursor, pel, dlq, evicted, handled>> PROVE Goal
  <2>1. UNCHANGED <<DeadLettered, SettledIds>>
    BY <1>2 DEF DeadLettered, SettledIds, Settled
  <2> QED  BY <1>2, <2>1 DEF Delivery!vars
<1>3. ASSUME NEW c \in Consumers, Subscribe(c), UNCHANGED handled PROVE Goal
  <2>1. UNCHANGED <<last, pel, dlq, evicted, handled>>
    BY <1>3 DEF Subscribe, history
  <2>2. CASE group
    BY <1>0, <1>2, <1>3, <2>1, <2>2 DEF Subscribe
  <2>3. CASE ~group
    <3>1. group' = TRUE /\ start' = last /\ cursor' = last
      BY <1>3, <2>3 DEF Subscribe
    <3>2. SettledIds = {} /\ SettledIds' = {}
      BY <1>0, <2>3, <3>1 DEF SettledIds, Settled
    <3>3. DeadLettered' = DeadLettered
      BY <2>1 DEF DeadLettered
    <3> QED
      BY <2>1, <2>3, <3>1, <3>2, <3>3 DEF Delivery!Next, Delivery!Subscribe
  <2> QED  BY <2>2, <2>3
<1>4. ASSUME group, UNCHANGED <<last, group, start, dlq, handled>>,
             NEW S \in SUBSET Ids, evicted' = evicted \union S,
             SettledIds' = SettledIds \union S,
             \A i \in S : start < i /\ i <= trimmed /\ i <= last /\ i \notin SettledIds
      PROVE  Goal
  <2>1. DeadLettered' = DeadLettered
    BY <1>4 DEF DeadLettered
  <2>2. S \in SUBSET (Delivery!Visible \ SettledIds)
    BY <1>0, <1>4 DEF Delivery!Visible, Ids
  <2>3. \A e \in S : e <= last - MaxLen
    BY <1>0, <1>4 DEF Ids
  <2> QED
    BY <1>4, <2>1, <2>2, <2>3 DEF Delivery!Next, Delivery!Drop
<1>5. ASSUME NEW page, DeliverNew(page), UNCHANGED handled PROVE Goal
  <2> DEFINE S == {i \in Ids : i > cursor /\ i <= trimmed}
  <2>1. /\ pel' = pel \union page /\ UNCHANGED <<last, trimmed, group, start, dlq>>
        /\ evicted' = evicted \union S
    BY <1>5 DEF DeliverNew
  <2>2. /\ cursor' \in page /\ page \subseteq Ids
        /\ \A i \in page : i > cursor /\ i > trimmed /\ i <= last
        /\ \A i \in Ids : i > cursor /\ i > trimmed /\ i <= cursor' => i \in page
    BY <1>5, DeliverNewPage DEF IInv
  <2>3. cursor' \in Nat /\ cursor' > cursor /\ cursor' > trimmed
    BY <1>0, <2>2
  <2>0. group
    BY <1>0, <2>1, <2>3, NothingBeforeGroup
  <2>4. \A i \in S : start < i /\ i <= trimmed /\ i <= last /\ i \notin SettledIds
    BY <1>0 DEF SettledIds, Settled
  <2>5. ASSUME NEW i \in Ids PROVE i \in SettledIds' <=> i \in SettledIds \/ i \in S
    <3>1. i \in SettledIds' <=> start < i /\ i <= cursor' /\ i \notin pel /\ i \notin page
      BY <2>1 DEF SettledIds, Settled
    <3>2. CASE i <= cursor
      BY <1>0, <2>2, <2>3, <3>1, <3>2 DEF SettledIds, Settled
    <3>3. CASE i > cursor
      <4>1. i \notin pel
        BY <1>0, <3>3 DEF IInv, DeliveredInv, Delivered
      <4> QED  BY <1>0, <2>2, <2>3, <3>1, <3>3, <4>1 DEF SettledIds, Settled
    <3> QED  BY <1>0, <3>2, <3>3
  <2>6. SettledIds' = SettledIds \union S
    BY <2>5 DEF SettledIds
  <2> HIDE DEF S
  <2>7. S \in SUBSET Ids
    BY DEF S
  <2> QED  BY <1>4, <1>5, <2>0, <2>1, <2>4, <2>6, <2>7
<1>6. ASSUME NEW c \in Consumers, pc[c] = "scan", Claim(scan[c]), UNCHANGED handled PROVE Goal
  <2> DEFINE S == ScanPage(scan[c]) \ Claimable(scan[c])
  <2>1. /\ pel' = pel \ S /\ evicted' = evicted \union S
        /\ UNCHANGED <<last, trimmed, group, start, cursor, dlq>>
    BY <1>6 DEF Claim
  <2>2. S \subseteq pel /\ \A i \in S : ~(i > trimmed)
    BY ClaimedPage
  <2> HIDE DEF S
  <2>3. \A i \in S : start < i /\ i <= cursor /\ i <= last /\ i <= trimmed /\ i \notin SettledIds
    BY <1>0, <2>2 DEF SettledIds, Settled, IInv, DeliveredInv, Delivered
  <2>4. SettledIds' = SettledIds \union S
    BY <1>0, <2>1, <2>2, <2>3 DEF SettledIds, Settled
  <2>5. group
    BY <1>6 DEF IInv, DeliveredInv
  <2> QED  BY <1>0, <1>4, <1>6, <2>1, <2>2, <2>3, <2>4, <2>5
<1>7. ASSUME NEW c \in Consumers, pc[c] \in {"ack", "dlqAck"}, Acknowledge(cur[c]),
             UNCHANGED <<last, trimmed, group, start, cursor, count, dlq, evicted, handled>>
      PROVE  Goal
  <2>1. cur[c] \in Delivered
    BY <1>0, <1>7 DEF Processing
  <2>2. cur[c] \in handled \union DeadLettered
    BY <1>7, <2>1 DEF IInv, OutcomeInv, DeadLettered, Delivered
  <2>3. DeadLettered' = DeadLettered /\ pel' = pel \ {cur[c]}
    BY <1>7 DEF DeadLettered, Acknowledge
  <2>4. SettledIds' = SettledIds \union {cur[c]}
    BY <1>7, <2>1, <2>3 DEF SettledIds, Settled, Delivered
  <2> QED
    BY <1>7, <2>2, <2>3, <2>4 DEF Delivery!Next, Delivery!Settle, Delivery!vars
<1>8. ASSUME NEW c \in Consumers, pc[c] = "dlq", CopyToDlq(cur[c]), UNCHANGED <<evicted, handled>>
      PROVE  Goal
  <2>1. cur[c] \in Delivered /\ group
    BY <1>0, <1>8 DEF Processing
  <2>2. cur[c] \in Delivery!Visible
    BY <1>0, <2>1 DEF Delivery!Visible, Delivered
  <2>3. DeadLettered' = DeadLettered \union {cur[c]}
    BY <1>0, <1>8, <2>1 DEF CopyToDlq, DeadLettered, Delivered, IInv, TypeOK, RedisTypeOK
  <2>4. SettledIds' = SettledIds
    BY <1>8 DEF CopyToDlq, SettledIds, Settled
  <2> QED
    BY <1>8, <2>1, <2>2, <2>3, <2>4 DEF CopyToDlq, Delivery!Next, Delivery!SetAside
<1>9. ASSUME NEW c \in Consumers, pc[c] = "handler", handled' = handled \union {cur[c]},
             UNCHANGED <<redis, evicted>>
      PROVE  Goal
  <2>1. cur[c] \in Delivered /\ group
    BY <1>0, <1>9 DEF Processing
  <2>2. cur[c] \in Delivery!Visible
    BY <1>0, <2>1 DEF Delivery!Visible, Delivered
  <2>3. UNCHANGED <<last, group, start, DeadLettered, SettledIds>>
    BY <1>9 DEF redis, DeadLettered, SettledIds, Settled
  <2> QED
    BY <1>9, <2>1, <2>2, <2>3 DEF Delivery!Next, Delivery!Handle
<1> HIDE DEF Goal
<1>10. CASE UNCHANGED handled
  BY <1>1, <1>2, <1>3, <1>5, <1>6, <1>7, <1>8, <1>10, ServerStep
     DEF IInv, GoStale, redis, history
<1> QED  BY <1>9, <1>10, HandledStep

\* The bus keeps the promise of EventDelivery: every step of the replicas, of
\* Redis and of the faults is one of its steps or changes nothing it sees.
THEOREM BusImplementsDelivery == Spec => ImplementsDelivery
  BY DeliveryInit, DeliveryStep, IInvInit, IInvStep, PTL
     DEF Spec, ImplementsDelivery, Delivery!Spec

=============================================================================

--------------------------- MODULE RedisStreamBus ---------------------------
(***************************************************************************)
(* One event type on the Redis Streams bus                                 *)
(* (backend/packages/shared/src/events/redis.ts): the stream, the consumer *)
(* group of one service, and the read loops of that service's replicas.    *)
(*                                                                         *)
(* An entry is its position in the stream, 1..last; entries 1..trimmed     *)
(* have been evicted by XADD MAXLEN ~.  Every Redis command is one step,   *)
(* taken when the server executes it; what the loop does between two       *)
(* awaits happens in that same step.  A faulty command either was not      *)
(* executed or was executed and lost its reply; faults and crashes share   *)
(* the bound MaxFaults.  Real time is abstracted: an entry pending for     *)
(* minIdleMs is in `stale', and at the top of its loop a replica finds the *)
(* reclaim interval elapsed or not.  XACK and XAUTOCLAIM ignore who owns   *)
(* an entry, so the pending list keeps no owner.                           *)
(***************************************************************************)
EXTENDS Integers, FiniteSets

CONSTANTS
  Consumers,      \* read loops of one service: one subscription in each replica
  Closers,        \* the replicas that a deployment may shut down with close()
  MaxEvents,      \* bound on published entries
  MaxLen,         \* maxLen: entries a trim always keeps
  BatchSize,      \* COUNT of XREADGROUP and XAUTOCLAIM
  MaxDeliveries,  \* maxDeliveries
  MaxFaults       \* bound on failed commands and crashes

ASSUME ConsumersAssumption == IsFiniteSet(Consumers) /\ Closers \subseteq Consumers
ASSUME BoundsAssumption ==
  /\ MaxEvents \in Nat /\ MaxFaults \in Nat /\ MaxDeliveries \in Nat
  /\ MaxLen \in Nat \ {0} /\ BatchSize \in Nat \ {0}

VARIABLES
  last, trimmed,  \* newest entry of the stream, newest evicted entry
  group, start,   \* has the consumer group been created, and at which entry
  cursor,         \* last-delivered-id of the group
  pel, count,     \* pending entries and their delivery counts
  stale,          \* pending entries idle for at least minIdleMs
  dlq,            \* how many copies of an entry the dead-letter stream holds
  pc,             \* where each read loop is
  closing,        \* loops whose bus was asked to close
  work,           \* entries of the page a loop has still to process
  todo,           \* entries of the page whose XPENDING lookup is outstanding
  seen,           \* delivery count the loop believes an entry has
  cur,            \* entry being processed
  scan,           \* cursor of the next XAUTOCLAIM page, 0 when the pass is over
  faults,         \* commands that failed and crashes so far
  handled,        \* history: entries some handler call returned for
  evicted,        \* history: entries the group lost to trimming
  runs, misses    \* history: handler calls, and lookups that found no count

redis   == <<last, trimmed, group, start, cursor, pel, count, stale, dlq>>
loop    == <<pc, closing, work, todo, seen, cur, scan>>
history == <<handled, evicted, runs, misses>>
vars    == <<redis, loop, faults, history>>

Ids == 1..MaxEvents

Running == {"loop", "reading", "scan", "count", "batch", "handler", "ack",
            "dlq", "dlqAck"}

Init ==
  /\ last = 0 /\ trimmed = 0 /\ cursor = 0 /\ start = 0 /\ faults = 0
  /\ group = FALSE
  /\ pel = {} /\ stale = {} /\ handled = {} /\ evicted = {}
  /\ count  = [i \in Ids |-> 0]
  /\ dlq    = [i \in Ids |-> 0]
  /\ runs   = [i \in Ids |-> 0]
  /\ misses = [i \in Ids |-> 0]
  /\ pc   = [c \in Consumers |-> "down"]
  /\ closing = {}
  /\ work = [c \in Consumers |-> {}]
  /\ todo = [c \in Consumers |-> {}]
  /\ seen = [c \in Consumers |-> [i \in Ids |-> 0]]
  /\ cur  = [c \in Consumers |-> 0]
  /\ scan = [c \in Consumers |-> 0]

(***************************************************************************)
(* Helpers.                                                                *)
(***************************************************************************)

\* The COUNT lowest entries of S: what one XREADGROUP or XAUTOCLAIM page holds.
Page(S) == {i \in S : Cardinality({j \in S : j < i}) < BatchSize}

\* i is the next entry the for-of loop over S visits.
IsFirst(i, S) == i \in S /\ \A j \in S : i <= j
IsLast(i, S)  == i \in S /\ \A j \in S : j <= i

Goto(c, label) == pc' = [pc EXCEPT ![c] = label]

Fault == faults < MaxFaults /\ faults' = faults + 1

\* XACK: the entry leaves the pending list, whoever was working on it.
Acknowledge(i) ==
  /\ pel'   = pel \ {i}
  /\ stale' = stale \ {i}

\* The process is gone: its loop forgets everything it held in memory.
Die(c) ==
  /\ Goto(c, "down")
  /\ work'    = [work EXCEPT ![c] = {}]
  /\ todo'    = [todo EXCEPT ![c] = {}]
  /\ scan'    = [scan EXCEPT ![c] = 0]
  /\ cur'     = [cur EXCEPT ![c] = 0]
  /\ seen'    = [seen EXCEPT ![c] = [i \in Ids |-> 0]]
  /\ closing' = closing \ {c}

(***************************************************************************)
(* Publishing and the passage of time.                                     *)
(***************************************************************************)

\* publish(): XADD MAXLEN ~ appends, and may evict the oldest entries but
\* never one of the newest MaxLen; pending or not does not matter to it.
Publish ==
  /\ last < MaxEvents
  /\ last' = last + 1
  /\ \E t \in trimmed..last' :
       /\ t = trimmed \/ t <= last' - MaxLen
       /\ trimmed' = t
  /\ UNCHANGED <<group, start, cursor, pel, count, stale, dlq, loop, faults, history>>

\* minIdleMs passes since the last delivery of a pending entry.
GoStale ==
  /\ \E i \in pel \ stale : stale' = stale \union {i}
  /\ UNCHANGED <<last, trimmed, group, start, cursor, pel, count, dlq, loop, faults, history>>

(***************************************************************************)
(* The life of a replica.                                                  *)
(***************************************************************************)

\* Mutant: every start recreates the group at '$'.
RecreateGroup(c) ==
  /\ pc[c] = "down"
  /\ group'  = TRUE
  /\ start'  = IF group THEN start ELSE last
  /\ cursor' = last
  /\ Goto(c, "loop")
  /\ UNCHANGED <<last, trimmed, pel, count, stale, dlq, closing, work, todo,
                 seen, cur, scan, faults, history>>

\* A replica starts and subscribes: the first one ever creates the group at
\* '$', the others find it (BUSYGROUP); then the read loop begins.
Subscribe(c) ==
  /\ pc[c] = "down"
  /\ group'  = TRUE
  /\ start'  = IF group THEN start ELSE last
  /\ cursor' = IF group THEN cursor ELSE last
  /\ Goto(c, "loop")
  /\ UNCHANGED <<last, trimmed, pel, count, stale, dlq, closing, work, todo,
                 seen, cur, scan, faults, history>>

Crash(c) ==
  /\ pc[c] \in Running
  /\ Fault /\ Die(c)
  /\ UNCHANGED <<redis, history>>

\* close() raises the flag; the loop looks at it only where the code does.
Close(c) ==
  /\ c \in Closers /\ pc[c] \in Running /\ c \notin closing
  /\ closing' = closing \union {c}
  /\ UNCHANGED <<redis, pc, work, todo, seen, cur, scan, faults, history>>

\* while (!this.closing), and the same test after a reclaim pass.
Stop(c) ==
  /\ pc[c] = "loop" /\ c \in closing
  /\ Goto(c, "stopped")
  /\ UNCHANGED <<redis, closing, work, todo, seen, cur, scan, faults, history>>

(***************************************************************************)
(* readLoop(): new entries.                                                *)
(***************************************************************************)

\* Mutant: while (true).
ReadAlthoughClosing(c) ==
  /\ pc[c] = "loop"
  /\ Goto(c, "reading")
  /\ UNCHANGED <<redis, closing, work, todo, seen, cur, scan, faults, history>>

\* At the top of the loop the reclaim interval has elapsed or not: see Fairness.
BeginRead(c) ==
  /\ pc[c] = "loop" /\ c \notin closing
  /\ Goto(c, "reading")
  /\ UNCHANGED <<redis, closing, work, todo, seen, cur, scan, faults, history>>

\* BLOCK ran out with nothing to deliver.
ReadNothing(c) ==
  /\ pc[c] = "reading" /\ cursor = last
  /\ Goto(c, "loop")
  /\ UNCHANGED <<redis, closing, work, todo, seen, cur, scan, faults, history>>

\* What XREADGROUP '>' does on the server: the next page enters the pending
\* list with delivery count 1; entries trimmed before delivery are skipped.
DeliverNew(page) ==
  /\ cursor < last
  /\ page = Page({i \in Ids : i > cursor /\ i > trimmed /\ i <= last})
  /\ \E top \in page : IsLast(top, page) /\ cursor' = top
  /\ pel'     = pel \union page
  /\ count'   = [i \in Ids |-> IF i \in page THEN 1 ELSE count[i]]
  /\ stale'   = stale \ page
  /\ evicted' = evicted \union {i \in Ids : i > cursor /\ i <= trimmed}
  /\ UNCHANGED <<last, trimmed, group, start, dlq>>

ReadNew(c) ==
  /\ pc[c] = "reading"
  /\ \E page \in SUBSET Ids :
       /\ DeliverNew(page)
       /\ work' = [work EXCEPT ![c] = page]
       /\ seen' = [seen EXCEPT ![c] = [i \in Ids |-> IF i \in page THEN 1 ELSE @[i]]]
  /\ Goto(c, "batch")
  /\ UNCHANGED <<closing, todo, cur, scan, faults, handled, runs, misses>>

\* XREADGROUP failed (log, back off, continue), perhaps after the server had
\* already moved the page to the pending list.
ReadFails(c) ==
  /\ pc[c] = "reading" /\ Fault
  /\ \/ UNCHANGED <<redis, evicted>>
     \/ \E page \in SUBSET Ids : DeliverNew(page)
  /\ Goto(c, "loop")
  /\ UNCHANGED <<closing, work, todo, seen, cur, scan, handled, runs, misses>>

(***************************************************************************)
(* reclaimStale(): entries some consumer left pending.                     *)
(***************************************************************************)

BeginReclaim(c) ==
  /\ pc[c] = "loop" /\ c \notin closing
  /\ Goto(c, "scan")
  /\ UNCHANGED <<redis, closing, work, todo, seen, cur, scan, faults, history>>

\* What XAUTOCLAIM does on the server from cursor `from' on: trimmed entries
\* it meets are dropped from the pending list and use up COUNT, stale ones
\* are claimed.
ScanPage(from)  == Page({i \in pel : i >= from /\ (i <= trimmed \/ i \in stale)})
Claimable(from) == {i \in ScanPage(from) : i > trimmed}

Claim(from) ==
  LET gone == ScanPage(from) \ Claimable(from) IN
  /\ pel'     = pel \ gone
  /\ count'   = [i \in Ids |-> IF i \in Claimable(from) THEN count[i] + 1 ELSE count[i]]
  /\ stale'   = stale \ ScanPage(from)
  /\ evicted' = evicted \union gone
  /\ UNCHANGED <<last, trimmed, group, start, cursor, dlq>>

\* The cursor XAUTOCLAIM returns: the pending entry after the page, or 0-0.
NextCursor(from, next) ==
  LET above == {i \in pel : \A j \in ScanPage(from) : i > j} IN
  IF above = {} THEN next = 0 ELSE IsFirst(next, above)

\* Mutant: an empty page does not end the pass.
ScanAgainWhenEmpty(c) ==
  LET page == Claimable(scan[c]) IN
  /\ pc[c] = "scan"
  /\ Claim(scan[c])
  /\ work' = [work EXCEPT ![c] = page]
  /\ todo' = [todo EXCEPT ![c] = page]
  /\ \E next \in 0..MaxEvents :
       /\ NextCursor(scan[c], next)
       /\ scan' = [scan EXCEPT ![c] = IF Cardinality(page) < BatchSize THEN 0 ELSE next]
  /\ Goto(c, IF page = {} THEN "scan" ELSE "count")
  /\ UNCHANGED <<closing, seen, cur, faults, handled, runs, misses>>

\* An empty page ends the pass; a page shorter than COUNT is the last one,
\* also when COUNT was used up by trimmed entries.
ClaimPage(c) ==
  LET page == Claimable(scan[c]) IN
  /\ pc[c] = "scan"
  /\ Claim(scan[c])
  /\ work' = [work EXCEPT ![c] = page]
  /\ todo' = [todo EXCEPT ![c] = page]
  /\ \E next \in 0..MaxEvents :
       /\ NextCursor(scan[c], next)
       /\ scan' = [scan EXCEPT ![c] = IF Cardinality(page) < BatchSize THEN 0 ELSE next]
  /\ Goto(c, IF page = {} THEN "loop" ELSE "count")
  /\ UNCHANGED <<closing, seen, cur, faults, handled, runs, misses>>

ClaimFails(c) ==
  /\ pc[c] = "scan" /\ Fault
  /\ \/ UNCHANGED <<redis, evicted>>
     \/ Claim(scan[c])
  /\ scan' = [scan EXCEPT ![c] = 0]
  /\ Goto(c, "loop")
  /\ UNCHANGED <<closing, work, todo, seen, cur, handled, runs, misses>>

\* deliveryCounts(): one XPENDING per entry.  No row, because the entry is no
\* longer pending or the command failed, counts as delivery 1.
Learn(c, i, n) ==
  /\ seen' = [seen EXCEPT ![c][i] = n]
  /\ todo' = [todo EXCEPT ![c] = @ \ {i}]
  /\ Goto(c, IF todo[c] = {i} THEN "batch" ELSE "count")
  /\ UNCHANGED <<redis, closing, work, cur, scan, handled, evicted, runs>>

LookUpCount(c) ==
  /\ pc[c] = "count"
  /\ \E i \in todo[c] :
       /\ IsFirst(i, todo[c])
       /\ Learn(c, i, IF i \in pel THEN count[i] ELSE 1)
       /\ misses' = [misses EXCEPT ![i] = IF i \in pel THEN @ ELSE @ + 1]
  /\ UNCHANGED faults

LookUpFails(c) ==
  /\ pc[c] = "count" /\ Fault
  /\ \E i \in todo[c] :
       /\ IsFirst(i, todo[c])
       /\ Learn(c, i, 1)
       /\ misses' = [misses EXCEPT ![i] = @ + 1]

(***************************************************************************)
(* processEntry(): one entry of the page.                                  *)
(***************************************************************************)

TakeEntry(c, i, label) ==
  /\ pc[c] = "batch" /\ IsFirst(i, work[c])
  /\ work' = [work EXCEPT ![c] = @ \ {i}]
  /\ cur'  = [cur EXCEPT ![c] = i]
  /\ seen' = [seen EXCEPT ![c][i] = 0]
  /\ Goto(c, label)
  /\ UNCHANGED <<redis, closing, todo, scan, faults, handled, evicted, misses>>

\* processEntry returns: on to the rest of the page.
Finish(c) ==
  /\ Goto(c, "batch")
  /\ cur' = [cur EXCEPT ![c] = 0]
  /\ UNCHANGED <<closing, work, todo, seen, scan, history>>

\* Mutants: one delivery too few, one too many.
ExhaustedTooSoon(c, i) == seen[c][i] >= MaxDeliveries
ExhaustedTooLate(c, i) == seen[c][i] > MaxDeliveries + 1

ExhaustedFor(c, i) == seen[c][i] > MaxDeliveries

RunHandler(c) ==
  \E i \in work[c] :
    /\ ~ExhaustedFor(c, i)
    /\ TakeEntry(c, i, "handler")
    /\ runs' = [runs EXCEPT ![i] = @ + 1]

GiveUp(c) ==
  \E i \in work[c] :
    /\ ExhaustedFor(c, i)
    /\ TakeEntry(c, i, "dlq")
    /\ UNCHANGED runs

HandlerReturns(c) ==
  /\ pc[c] = "handler"
  /\ handled' = handled \union {cur[c]}
  /\ Goto(c, "ack")
  /\ UNCHANGED <<redis, closing, work, todo, seen, cur, scan, faults, evicted, runs, misses>>

\* Mutant: acknowledge whatever the handler did.
AckThrow(c) ==
  /\ pc[c] = "handler"
  /\ Goto(c, "ack")
  /\ UNCHANGED <<redis, closing, work, todo, seen, cur, scan, faults, history>>

\* The entry stays pending.
HandlerThrows(c) ==
  /\ pc[c] = "handler"
  /\ Finish(c)
  /\ UNCHANGED <<redis, faults>>

Ack(c) ==
  /\ pc[c] = "ack"
  /\ Acknowledge(cur[c])
  /\ Finish(c)
  /\ UNCHANGED <<last, trimmed, group, start, cursor, count, dlq, faults>>

\* A rejected XACK is caught with the handler's own errors.
AckFails(c) ==
  /\ pc[c] = "ack" /\ Fault
  /\ Finish(c)
  /\ UNCHANGED redis

(***************************************************************************)
(* deadLetter(): the copy first, then the acknowledgement.                 *)
(***************************************************************************)

CopyToDlq(i) ==
  /\ dlq' = [dlq EXCEPT ![i] = @ + 1]
  /\ UNCHANGED <<last, trimmed, group, start, cursor, pel, count, stale>>

DeadLetter(c) ==
  /\ pc[c] = "dlq"
  /\ CopyToDlq(cur[c])
  /\ Goto(c, "dlqAck")
  /\ UNCHANGED <<closing, work, todo, seen, cur, scan, faults, history>>

\* Mutant: a failed dead-letter write is acknowledged all the same.
AckDespiteFailedCopy(c) ==
  /\ pc[c] = "dlq" /\ Fault
  /\ Goto(c, "dlqAck")
  /\ UNCHANGED <<redis, closing, work, todo, seen, cur, scan, history>>

\* The write failed, or only its reply did: the entry stays pending.
DeadLetterFails(c) ==
  /\ pc[c] = "dlq" /\ Fault
  /\ UNCHANGED redis \/ CopyToDlq(cur[c])
  /\ Finish(c)

\* Mutant: the entry leaves the pending list without its idle time.
AckDeadLetterUnlisted(c) ==
  /\ pc[c] = "dlqAck"
  /\ pel' = pel \ {cur[c]}
  /\ Finish(c)
  /\ UNCHANGED <<last, trimmed, group, start, cursor, count, dlq, stale, faults>>

AckDeadLetter(c) ==
  /\ pc[c] = "dlqAck"
  /\ Acknowledge(cur[c])
  /\ Finish(c)
  /\ UNCHANGED <<last, trimmed, group, start, cursor, count, dlq, faults>>

\* This XACK is outside the try: its rejection leaves reclaimStale and the
\* read loop, nobody awaits the loop, and the unhandled rejection ends the
\* process.
AckDeadLetterFails(c) ==
  /\ pc[c] = "dlqAck" /\ Fault
  /\ UNCHANGED <<pel, stale>> \/ Acknowledge(cur[c])
  /\ Die(c)
  /\ UNCHANGED <<last, trimmed, group, start, cursor, count, dlq, history>>

\* The page is done: read on, or claim the next page of this pass.
EndPage(c) ==
  /\ pc[c] = "batch" /\ work[c] = {}
  /\ Goto(c, IF scan[c] = 0 THEN "loop" ELSE "scan")
  /\ UNCHANGED <<redis, closing, work, todo, seen, cur, scan, faults, history>>

-----------------------------------------------------------------------------

\* The steps the code itself is about to take when Redis answers.
Progress(c) ==
  \/ BeginRead(c) \/ ReadNothing(c) \/ ReadNew(c)
  \/ BeginReclaim(c) \/ ClaimPage(c) \/ LookUpCount(c)
  \/ RunHandler(c) \/ GiveUp(c) \/ HandlerReturns(c) \/ HandlerThrows(c)
  \/ Ack(c) \/ DeadLetter(c) \/ AckDeadLetter(c) \/ EndPage(c) \/ Stop(c)

Failure(c) ==
  \/ Crash(c) \/ ReadFails(c) \/ ClaimFails(c) \/ LookUpFails(c)
  \/ AckFails(c) \/ DeadLetterFails(c) \/ AckDeadLetterFails(c)

Next ==
  \/ Publish \/ GoStale
  \/ \E c \in Consumers :
       Subscribe(c) \/ Close(c) \/ Progress(c) \/ Failure(c)

Spec == Init /\ [][Next]_vars

\* Time passes: entries go stale, and a loop that keeps coming back to its top
\* finds the interval now elapsed, now not.  The supervisor restarts what died (restart: unless-stopped),
\* handlers settle their promise and Redis answers.  Nothing obliges anybody
\* to publish, to close or to fail.
Fairness ==
  /\ WF_vars(GoStale)
  /\ \A c \in Consumers :
       /\ SF_vars(BeginRead(c)) /\ SF_vars(BeginReclaim(c))
       /\ WF_vars(Subscribe(c))
       /\ WF_vars(Progress(c))

FairSpec == Spec /\ Fairness

-----------------------------------------------------------------------------

\* The states of a loop in which processEntry works on cur.
Processing == {"handler", "ack", "dlq", "dlqAck"}

RedisTypeOK ==
  /\ last \in 0..MaxEvents /\ trimmed \in 0..last
  /\ group \in BOOLEAN /\ start \in 0..last /\ cursor \in start..last
  /\ pel \subseteq Ids /\ stale \subseteq pel
  /\ count \in [Ids -> Nat] /\ dlq \in [Ids -> Nat]

LoopTypeOK ==
  /\ pc \in [Consumers -> Running \union {"down", "stopped"}]
  /\ closing \subseteq Consumers
  /\ work \in [Consumers -> SUBSET Ids]
  /\ todo \in [Consumers -> SUBSET Ids]
  /\ seen \in [Consumers -> [Ids -> Nat]]
  /\ cur \in [Consumers -> 0..MaxEvents]
  /\ scan \in [Consumers -> 0..MaxEvents]
  /\ \A c \in Consumers : pc[c] \in Processing => cur[c] \in Ids

HistoryTypeOK ==
  /\ handled \subseteq Ids /\ evicted \subseteq Ids
  /\ runs \in [Ids -> Nat] /\ misses \in [Ids -> Nat]

TypeOK == RedisTypeOK /\ LoopTypeOK /\ faults \in 0..MaxFaults /\ HistoryTypeOK

\* The entries the group has been given.
Delivered == {i \in Ids : start < i /\ i <= cursor}

\* Nothing runs before the group exists, what the loops hold was delivered to
\* them, and what trimming took is old.
DeliveredInv ==
  /\ ~group => start = 0 /\ cursor = 0 /\ \A c \in Consumers : pc[c] = "down"
  /\ pel \subseteq Delivered
  /\ trimmed = 0 \/ trimmed <= last - MaxLen
  /\ evicted \subseteq 1..trimmed
  /\ \A c \in Consumers : todo[c] \subseteq work[c] /\ work[c] \subseteq Delivered
  /\ \A c \in Consumers : todo[c] # {} => pc[c] = "count"
  /\ \A c \in Consumers : pc[c] \in Processing => cur[c] \in Delivered

\* A loop never believes in more deliveries than there were, and what it is
\* about to acknowledge has its outcome recorded.
OutcomeInv ==
  /\ \A i \in Ids : i > cursor => count[i] = 0
  /\ \A i \in pel : count[i] > 0
  /\ \A c \in Consumers : \A i \in work[c] : count[i] > 0
  /\ \A c \in Consumers : \A i \in Ids : seen[c][i] <= count[i]
  /\ \A c \in Consumers : pc[c] = "ack" => cur[c] \in handled
  /\ \A c \in Consumers : pc[c] = "dlq" => count[cur[c]] > MaxDeliveries
  /\ \A c \in Consumers : pc[c] = "dlqAck" => dlq[cur[c]] > 0

\* At-least-once: an entry published since the group exists is still to be
\* delivered, or pending, or was handled, or sits in the dead-letter stream,
\* or was trimmed, which ADR 0014 allows behind the newest MaxLen.  No crash, lost reply or race between two replicas
\* makes it disappear in any other way.
AtLeastOnce ==
  group => \A i \in Ids :
    start < i /\ i <= last =>
      \/ i > cursor \/ i \in pel \/ i \in handled \/ dlq[i] > 0
      \/ i \in evicted /\ i <= last - MaxLen

\* An entry reaches the dead-letter stream only after more than MaxDeliveries
\* deliveries: neither a blind count nor a racing replica sends it early.
DeadLetterJustified == \A i \in Ids : dlq[i] > 0 => count[i] > MaxDeliveries

\* The inductive invariant behind AtLeastOnce and DeadLetterJustified.
IInv == TypeOK /\ DeliveredInv /\ OutcomeInv /\ AtLeastOnce /\ DeadLetterJustified

\* The handler is called at most MaxDeliveries times for an entry, but for
\* one extra call per lookup that found no count.
RetryBudget == \A i \in Ids : runs[i] <= MaxDeliveries + misses[i]

\* The loops that have still to process an entry, and those of them that
\* already know its delivery count and will call the handler.
Holding(i) == {c \in Consumers : i \in work[c]}
Ready(i)   == {c \in Holding(i) : i \notin todo[c] /\ ~ExhaustedFor(c, i)}

\* The inductive invariant behind RetryBudget: every call, made or still to
\* come, has a delivery of its own, and those to come fit the budget too.
BudgetInv == \A i \in Ids :
  /\ runs[i] + Cardinality(Holding(i)) <= count[i]
  /\ runs[i] + Cardinality(Ready(i)) <= MaxDeliveries + misses[i]

\* What only a reclaim can do: an entry leaves the pending list unhandled and
\* not dead-lettered only because it was trimmed.
LeavesPendingForAReason ==
  [][\A i \in pel \ pel' : i \in handled \/ dlq[i] > 0 \/ i <= trimmed]_vars

\* Every entry the group is to see is eventually out of its pending list for
\* good: handled, dead-lettered or trimmed (AtLeastOnce says which).
Settled(i) == i <= cursor /\ i \notin pel
EventuallySettled == \A i \in Ids : (group /\ i > start /\ i <= last) ~> []Settled(i)

\* close() returns: a loop asked to stop does, or dies.
CloseCompletes == \A c \in Consumers : (c \in closing) ~> (pc[c] \in {"stopped", "down"})

\* The bus implements the promise of EventDelivery: an entry is settled when
\* it is behind the cursor and out of the pending list.
DeadLettered == {i \in Ids : dlq[i] > 0}
SettledIds   == {i \in Ids : start < i /\ Settled(i)}

Delivery == INSTANCE EventDelivery WITH
  Keep       <- MaxLen,
  published  <- last,
  subscribed <- group,
  from       <- start,
  dead       <- DeadLettered,
  dropped    <- evicted,
  settled    <- SettledIds

ImplementsDelivery == Delivery!Spec

\* ADR 0014: replicas share the group's cursor "without double-processing".
NoDoubleProcessing ==
  \A c, d \in Consumers :
    c # d /\ pc[c] = "handler" /\ pc[d] = "handler" => cur[c] # cur[d]
=============================================================================

--------------------------- MODULE IncidentEvents ---------------------------
(***************************************************************************)
(* The event handling of incident-service: listeners/index.ts opens an     *)
(* incident for a critical vulnerability.detected, and                     *)
(* correlation.listener.ts buffers every event it is handed and, at        *)
(* FlushAt of them or 250 ms after one, hands the buffer to the engine and *)
(* stores the chains it builds.                                            *)
(*                                                                         *)
(* Both listeners subscribe to vulnerability.detected.  InMemoryEventBus   *)
(* calls both for an event; RedisStreamBus reads the topic with two        *)
(* consumers of one group, so a delivery reaches one of them.  Incidents   *)
(* and chains are rows of PostgreSQL; the buffer, its timers and the       *)
(* flushes under way are lost with the process.                            *)
(***************************************************************************)
EXTENDS Integers, FiniteSets, SequencesExt

CONSTANTS
  Detections,     \* events that are vulnerability.detected
  Critical,       \* those with severity critical
  KeyOf,          \* the correlation key of each event, by time of occurrence
  RankOf,         \* CAUSAL_ORDER of its type
  Transports,     \* may EVENT_BUS_DRIVER be redis, and not
  FlushAt,        \* buffer length that flushes at once: 16
  MaxDeliveries,  \* maxDeliveries of the bus
  MaxFaults       \* bound on rejected writes, lost acks and crashes

Events == DOMAIN KeyOf
Keys   == {KeyOf[e] : e \in Events}
Copies == Events \X (1..MaxDeliveries)

ASSUME EventsAssumption ==
  /\ KeyOf \in Seq(Keys) /\ RankOf \in [Events -> Int]
  /\ Critical \subseteq Detections /\ Detections \subseteq Events
  /\ Transports \subseteq BOOLEAN
  /\ FlushAt \in Nat \ {0} /\ MaxDeliveries \in Nat \ {0} /\ MaxFaults \in Nat

VARIABLES
  redis,      \* is the bus RedisStreamBus: fixed when the service is deployed
  state,      \* where an event is
  tries,      \* deliveries of an event so far
  calls,      \* <<event, step>> of the handler calls under way
  buffer,     \* copies of events waiting for a flush, oldest first
  timers,     \* 250 ms timers that have not fired
  flushes,    \* flushes that are writing their chains
  incidents,  \* incidents opened for an event
  chains,     \* chains stored, each the sequence of its copies
  edges,      \* edge rows <<root of the chain stored with, source, target>>
  fed,        \* history: batches of copies the engine has been given
  lost,       \* history: has a flush been cut short, or the process died
  faults      \* faults so far

vars  == <<redis, state, tries, calls, buffer, timers, flushes, incidents, chains,
           edges, fed, lost, faults>>
bus   == <<state, tries>>
store == <<chains, edges>>
config == <<redis, lost, faults>>

Init ==
  /\ redis \in Transports
  /\ state = [e \in Events |-> "unpublished"] /\ tries = [e \in Events |-> 0]
  /\ calls = {} /\ buffer = <<>> /\ timers = 0 /\ flushes = {}
  /\ incidents = [e \in Events |-> 0] /\ chains = {} /\ edges = {}
  /\ fed = {} /\ lost = FALSE /\ faults = 0

Fault == faults < MaxFaults /\ faults' = faults + 1 /\ UNCHANGED redis

\* Faults that can take copies from the chains, and faults that cannot.
Losing   == Fault /\ lost' = TRUE
Harmless == Fault /\ UNCHANGED lost

-----------------------------------------------------------------------------
(***************************************************************************)
(* The bus.                                                                *)
(***************************************************************************)

Subscribers(e) == IF e \in Detections THEN {"open", "correlate"} ELSE {"correlate"}

CallsOf(e) == {c \in calls : c[1] = e}

Enter(e, handlers) ==
  /\ tries' = [tries EXCEPT ![e] = @ + 1]
  /\ calls' = calls \union {<<e, h>> : h \in handlers}

\* Events are numbered by occurredAt.  The in-memory bus calls the handlers.
Publish(e) ==
  /\ state[e] = "unpublished" /\ \A d \in 1..(e - 1) : state[d] # "unpublished"
  /\ state' = [state EXCEPT ![e] = "pending"]
  /\ IF redis THEN UNCHANGED <<tries, calls>> ELSE Enter(e, Subscribers(e))
  /\ UNCHANGED <<buffer, timers, flushes, incidents, store, fed, config>>

SameTopic(d, e) == d \in Detections <=> e \in Detections

\* A read loop with no call under way takes the next entry of its stream, or
\* one it reclaims.
Deliver(e, h) ==
  /\ redis /\ state[e] = "pending" /\ CallsOf(e) = {} /\ tries[e] < MaxDeliveries
  /\ h \in Subscribers(e)
  /\ \A d \in Events : SameTopic(d, e) /\ CallsOf(d) # {} =>
       <<d, h>> \notin calls /\ (h = "correlate" => <<d, "flush">> \notin calls)
  /\ tries[e] = 0 => \A d \in 1..(e - 1) : SameTopic(d, e) => tries[d] > 0
  /\ Enter(e, {h})
  /\ UNCHANGED <<state, buffer, timers, flushes, incidents, store, fed, config>>

DeadLetter(e) ==
  /\ redis /\ state[e] = "pending" /\ CallsOf(e) = {} /\ tries[e] = MaxDeliveries
  /\ state' = [state EXCEPT ![e] = "dead"]
  /\ UNCHANGED <<tries, calls, buffer, timers, flushes, incidents, store, fed, config>>

\* The handlers have returned; XACK may be lost.
Ack(e) ==
  /\ CallsOf(e) = {<<e, "returned">>}
  /\ calls' = calls \ CallsOf(e)
  /\ \/ state' = [state EXCEPT ![e] = "acked"] /\ UNCHANGED config
     \/ redis /\ Harmless /\ UNCHANGED state
  /\ UNCHANGED <<tries, buffer, timers, flushes, incidents, store, fed>>

\* A call goes from one step to another.
Goto(e, from, to) == calls' = (calls \ {<<e, from>>}) \union {<<e, to>>}

-----------------------------------------------------------------------------
(***************************************************************************)
(* Auto-opening incidents.                                                 *)
(***************************************************************************)

OpenIncident(e) ==
  /\ <<e, "open">> \in calls
  /\ incidents' = IF e \in Critical THEN [incidents EXCEPT ![e] = @ + 1] ELSE incidents
  /\ Goto(e, "open", "returned")
  /\ UNCHANGED <<bus, buffer, timers, flushes, store, fed, config>>

\* Mutant: the listener catches and logs, as the correlation listener does.
CreateFailsQuietly(e) ==
  /\ <<e, "open">> \in calls /\ e \in Critical /\ Harmless
  /\ Goto(e, "open", "returned")
  /\ UNCHANGED <<bus, buffer, timers, flushes, incidents, store, fed>>

\* incidents.create() rejects: redis redelivers, the in-memory bus logs.
CreateFails(e) ==
  /\ <<e, "open">> \in calls /\ e \in Critical /\ Harmless
  /\ IF redis THEN calls' = calls \ {<<e, "open">>} ELSE Goto(e, "open", "returned")
  /\ UNCHANGED <<bus, buffer, timers, flushes, incidents, store, fed>>

-----------------------------------------------------------------------------
(***************************************************************************)
(* The correlation engine: a chain per key two or more copies share, root  *)
(* first.                                                                  *)
(***************************************************************************)

Sharing(batch, k) == {i \in DOMAIN batch : KeyOf[batch[i][1]] = k}

\* The members of S as a sequence, each after all that are before it.
InOrder(S, before) ==
  [n \in 1..Cardinality(S) |->
    CHOOSE i \in S : Cardinality({j \in S : <<j, i>> \in before}) = n - 1]

\* By causal order, then by time; the sort is stable.
Precedes(batch, i, j) ==
  LET d == batch[i][1] e == batch[j][1]
  IN  \/ RankOf[d] < RankOf[e]
      \/ RankOf[d] = RankOf[e] /\ d < e
      \/ d = e /\ i < j

Chain(batch, k) ==
  LET same  == Sharing(batch, k)
      order == InOrder(same, {p \in same \X same : Precedes(batch, p[1], p[2])})
  IN  [n \in DOMAIN order |-> batch[order[n]]]

\* Where the keys that two copies share first occur.
FirstShared(batch) ==
  {i \in DOMAIN batch :
    LET same == Sharing(batch, KeyOf[batch[i][1]])
    IN  same # {i} /\ \A j \in same : i <= j}

\* The chains of a batch, by the first occurrence of their keys.
Correlate(batch) ==
  LET shared == FirstShared(batch)
      first  == InOrder(shared, {p \in shared \X shared : p[1] < p[2]})
  IN  [n \in DOMAIN first |-> Chain(batch, KeyOf[batch[first[n]][1]])]

EdgesOf(chain) == [n \in 1..(Len(chain) - 1) |-> <<chain[n], chain[n + 1]>>]

-----------------------------------------------------------------------------
(***************************************************************************)
(* Buffering and flushing.  A flush remembers the call that awaits it; 0   *)
(* is a timer, which nobody awaits.                                        *)
(***************************************************************************)

\* flush() empties the buffer in one turn, then writes chain after chain.
Flush(batch, caller) ==
  LET found == Correlate(batch)
  IN  /\ buffer' = <<>> /\ fed' = fed \union {Range(batch)}
      /\ flushes' = IF found = <<>> THEN flushes
                    ELSE flushes \union
                      {[todo |-> found, row |-> FALSE, caller |-> caller,
                        edges |-> FlattenSeq([n \in DOMAIN found |-> EdgesOf(found[n])])]}

Awaits(batch) == Correlate(batch) # <<>>

\* Mutant: the buffer may hold FlushAt events without a flush.
BufferOneMore(e) ==
  /\ <<e, "correlate">> \in calls /\ Len(buffer) + 1 <= FlushAt
  /\ buffer' = Append(buffer, <<e, tries[e]>>)
  /\ timers' = timers + 1
  /\ Goto(e, "correlate", "returned")
  /\ UNCHANGED <<bus, flushes, incidents, store, fed, config>>

Buffer(e) ==
  /\ <<e, "correlate">> \in calls /\ Len(buffer) + 1 < FlushAt
  /\ buffer' = Append(buffer, <<e, tries[e]>>)
  /\ timers' = timers + 1
  /\ Goto(e, "correlate", "returned")
  /\ UNCHANGED <<bus, flushes, incidents, store, fed, config>>

BufferFull(e) ==
  /\ <<e, "correlate">> \in calls /\ Len(buffer) + 1 >= FlushAt
  /\ LET batch == Append(buffer, <<e, tries[e]>>)
     IN  /\ Flush(batch, e)
         /\ Goto(e, "correlate", IF Awaits(batch) THEN "flush" ELSE "returned")
  /\ UNCHANGED <<bus, timers, incidents, store, config>>

\* Mutant: the buffer is cleared once the chains are written, not before.
TimerKeepsBuffer ==
  /\ timers > 0 /\ timers' = timers - 1
  /\ LET found == Correlate(buffer)
     IN  flushes' = IF found = <<>> THEN flushes
                    ELSE flushes \union
                      {[todo |-> found, row |-> FALSE, caller |-> 0,
                        edges |-> FlattenSeq([n \in DOMAIN found |-> EdgesOf(found[n])])]}
  /\ fed' = fed \union {Range(buffer)}
  /\ UNCHANGED <<bus, calls, buffer, incidents, store, config>>

Timer ==
  /\ timers > 0 /\ timers' = timers - 1
  /\ Flush(buffer, 0)
  /\ UNCHANGED <<bus, calls, incidents, store, config>>

\* A flush ends, well or not; the call that awaits it returns.
EndFlush(f, rest) ==
  /\ flushes' = (flushes \ {f}) \union rest
  /\ IF rest = {} /\ f.caller # 0 THEN Goto(f.caller, "flush", "returned")
     ELSE UNCHANGED calls

StoreChain(f) ==
  /\ ~f.row
  /\ chains' = chains \union {Head(f.todo)}
  /\ flushes' = (flushes \ {f}) \union {[f EXCEPT !.row = TRUE]}
  /\ UNCHANGED <<bus, calls, buffer, timers, incidents, edges, fed, config>>

\* The first n edges of the whole batch are inserted with the chain.
Insert(f, n) ==
  edges' = edges \union {<<Head(f.todo)[1], f.edges[i][1], f.edges[i][2]>> : i \in 1..n}

\* Mutant: the loop over the chains returns after the first.
StoreFirstOnly(f) ==
  /\ f.row
  /\ Insert(f, Len(f.edges))
  /\ EndFlush(f, {})
  /\ UNCHANGED <<bus, buffer, timers, incidents, chains, fed, config>>

StoreEdges(f) ==
  /\ f.row
  /\ Insert(f, Len(f.edges))
  /\ EndFlush(f, IF Len(f.todo) = 1 THEN {}
                 ELSE {[f EXCEPT !.row = FALSE, !.todo = Tail(@)]})
  /\ UNCHANGED <<bus, buffer, timers, incidents, chains, fed, config>>

\* An insertion rejects: what remains of the flush is logged and dropped.
FlushFails(f) ==
  /\ Losing
  /\ IF f.row THEN \E n \in 0..(Len(f.edges) - 1) : Insert(f, n) ELSE UNCHANGED edges
  /\ EndFlush(f, {})
  /\ UNCHANGED <<bus, buffer, timers, incidents, chains, fed>>

Crash ==
  /\ redis /\ Losing
  /\ calls' = {} /\ buffer' = <<>> /\ timers' = 0 /\ flushes' = {}
  /\ UNCHANGED <<bus, incidents, store, fed>>

-----------------------------------------------------------------------------

Handle(e) ==
  \/ OpenIncident(e) \/ CreateFails(e) \/ Buffer(e) \/ BufferFull(e) \/ Ack(e)

Write(f) == StoreChain(f) \/ StoreEdges(f) \/ FlushFails(f)

Next ==
  \/ \E e \in Events : Publish(e) \/ DeadLetter(e) \/ Handle(e)
  \/ \E e \in Events, h \in {"open", "correlate"} : Deliver(e, h)
  \/ Timer \/ (\E f \in flushes : Write(f)) \/ Crash

Spec == Init /\ [][Next]_vars

-----------------------------------------------------------------------------

\* A flush: the chains to write, whether the row of the first is in, the call
\* that awaits it, and the edges of the whole batch.
FlushRecords == [todo : Seq(Seq(Copies)), row : BOOLEAN, caller : Events \union {0},
                 edges : Seq(Copies \X Copies)]

TypeOK ==
  /\ state \in [Events -> {"unpublished", "pending", "acked", "dead"}]
  /\ tries \in [Events -> 0..MaxDeliveries]
  /\ calls \subseteq Events \X {"open", "correlate", "flush", "returned"}
  /\ buffer \in Seq(Copies) /\ Len(buffer) < FlushAt
  /\ timers \in Nat /\ faults \in 0..MaxFaults
  /\ \A f \in flushes : f \in FlushRecords /\ f.todo # <<>>
                        /\ (f.caller # 0 => <<f.caller, "flush">> \in calls)
  /\ incidents \in [Events -> Nat] /\ chains \subseteq Seq(Copies)
  /\ edges \subseteq Copies \X Copies \X Copies /\ fed \subseteq SUBSET Copies
  /\ lost \in BOOLEAN /\ redis \in BOOLEAN

\* The places a copy can be: the buffer, a chain being written, one stored.
Written == chains \union UNION {Range(f.todo) : f \in flushes}

\* Timers and full buffers flush concurrently, yet no copy enters two chains
\* or one twice, and none that has been given to the engine is still buffered.
OneChainPerCopy ==
  /\ \A c, d \in Written : c # d => Range(c) \intersect Range(d) = {}
  /\ \A c \in Written : IsInjective(c)
  /\ IsInjective(buffer) /\ Range(buffer) \intersect UNION fed = {}

\* A chain goes from cause to effect, within one subject.
Causal(c) ==
  \A i, j \in DOMAIN c : i < j =>
    /\ KeyOf[c[i][1]] = KeyOf[c[j][1]]
    /\ RankOf[c[i][1]] <= RankOf[c[j][1]]
    /\ RankOf[c[i][1]] = RankOf[c[j][1]] => c[i][1] <= c[j][1]

\* "causal chain (root -> leaf)": no event of a chain is followed by a cause,
\* nor by an earlier event of its own rank, though events arrive in any order.
ChainsCausal == \A c \in chains : Causal(c)

\* The call of the incident listener returns only after its incident exists,
\* whatever is rejected; the in-memory bus alone gives a rejection up.
OpenedBeforeReturn ==
  [][\A e \in Critical :
       <<e, "open">> \in calls \ calls' /\ <<e, "returned">> \in calls' =>
         incidents'[e] > 0 \/ (~redis /\ faults' > faults)]_vars

\* Every buffered event has a flush ahead of it.
NothingStranded == buffer # <<>> => timers > 0

\* The batch a copy is given to the engine with.
Together(d, e) == \E batch \in fed : {d, e} \subseteq batch

\* Events of one subject that waited together are in one chain, stored or
\* being stored, unless an insertion was rejected or the process died: flushes
\* of other batches, other subjects in the batch and redelivered copies take
\* nothing from it.
WaitingIsCorrelated ==
  ~lost =>
    \A d, e \in UNION fed :
      d # e /\ KeyOf[d[1]] = KeyOf[e[1]] /\ Together(d, e) =>
        \E c \in Written : {d, e} \subseteq Range(c)

\* A stored chain whose write has ended has all its edges, unless a write was
\* rejected or the process died: edgesFor() describes what find() returns.
ChainsLinked ==
  ~lost =>
    \A c \in chains : (\E f \in flushes : f.row /\ Head(f.todo) = c)
      \/ \A n \in 1..(Len(c) - 1) : <<c[1], c[n], c[n + 1]>> \in edges

\* What is buffered will be correlated, and what waited together is.
BuffersSound == NothingStranded /\ WaitingIsCorrelated

\* A chain runs from cause to effect, is whole once it is written, and shares
\* no copy with another, though flushes overlap (correlation-engine.ts:268-317).
ChainsSound == ChainsCausal /\ ChainsLinked /\ OneChainPerCopy

(***************************************************************************)
(* The inductive invariant behind them.                                    *)
(***************************************************************************)

\* The calls of an event that is being delivered; on Redis there is one.
CallInv ==
  /\ \A e \in Events : state[e] = "unpublished" => tries[e] = 0
  /\ \A c \in calls : state[c[1]] = "pending" /\ tries[c[1]] > 0
  /\ redis => \A c, d \in calls : c[1] = d[1] => c = d
  /\ \A e \in Events : ~({<<e, "correlate">>, <<e, "flush">>} \subseteq calls)

\* A copy is buffered once, and was delivered before.
CopyInv ==
  /\ \A c \in Range(buffer) \union UNION fed : c[2] <= tries[c[1]]
  /\ \A e \in Events : <<e, "correlate">> \in calls =>
       <<e, tries[e]>> \notin Range(buffer) \union UNION fed
  /\ IsInjective(buffer) /\ Range(buffer) \intersect UNION fed = {}

\* What is written, or about to be, was handed to the engine; a flush that has
\* written a chain's row still has all its edges.
FlushInv ==
  /\ \A f \in flushes :
       /\ f.row => Head(f.todo) \in chains
       /\ \A c \in Range(f.todo) : Range(EdgesOf(c)) \subseteq Range(f.edges)
  /\ \A f, g \in flushes : f.caller = g.caller /\ f.caller # 0 => f = g
  /\ \A c \in Written : c # <<>> /\ Causal(c) /\ Range(c) \subseteq UNION fed

IInv ==
  /\ TypeOK /\ CallInv /\ CopyInv /\ FlushInv
  /\ BuffersSound /\ OneChainPerCopy /\ ChainsLinked

\* listeners/index.ts: "Auto-open an incident on critical vulnerability
\* detection", and "the bus swap is transparent".
CriticalOpensIncident ==
  \A e \in Critical : state[e] = "acked" => incidents[e] > 0
=============================================================================

------------------------ MODULE IncidentEventsProofs ------------------------
(***************************************************************************)
(* Theorems about IncidentEvents for any number of events, any keys and    *)
(* ranks, any length of the buffer, deliveries and faults.                 *)
(***************************************************************************)
EXTENDS IncidentEvents, DataLemmas

(***************************************************************************)
(* Sorting.                                                                *)
(***************************************************************************)

\* before orders S strictly, leaving no two members incomparable.
StrictOrder(S, before) ==
  /\ \A i \in S : <<i, i>> \notin before
  /\ \A i, j, k \in S : <<i, j>> \in before /\ <<j, k>> \in before => <<i, k>> \in before
  /\ \A i, j \in S : i # j => <<i, j>> \in before \/ <<j, i>> \in before

\* InOrder lists the members of a finite set, each once, in order.
LEMMA InOrderSorts ==
  ASSUME NEW S, IsFiniteSet(S), NEW before, StrictOrder(S, before)
  PROVE  LET order == InOrder(S, before) IN
         /\ order \in Seq(S) /\ Len(order) = Cardinality(S)
         /\ \A i \in S : \E n \in 1..Len(order) : order[n] = i
         /\ \A m, n \in 1..Len(order) : m < n => <<order[m], order[n]>> \in before
<1> DEFINE N == Cardinality(S)
           Below(i) == {j \in S : <<j, i>> \in before}
           r == [i \in S |-> Cardinality(Below(i)) + 1]
           order == InOrder(S, before)
<1>1. N \in Nat /\ IsFiniteSet(1..N) /\ Cardinality(1..N) = N
  <2>1. N \in Nat
    BY FS_CardinalityType
  <2> HIDE DEF N
  <2> QED  BY <2>1, FS_Interval
<1>2. ASSUME NEW i \in S
      PROVE  /\ IsFiniteSet(Below(i)) /\ Cardinality(Below(i)) \in Nat
             /\ Cardinality(Below(i)) < N
  <2>1. Below(i) \subseteq S /\ Below(i) # S
    BY DEF StrictOrder
  <2> HIDE DEF Below
  <2>2. IsFiniteSet(Below(i)) /\ Cardinality(Below(i)) <= N /\ Cardinality(Below(i)) # N
    BY <2>1, FS_Subset
  <2>3. Cardinality(Below(i)) \in Nat
    BY <2>2, FS_CardinalityType
  <2> QED  BY <1>1, <2>2, <2>3
<1>3. /\ r \in [S -> 1..N]
      /\ \A i \in S : r[i] = Cardinality(Below(i)) + 1
  <2>1. ASSUME NEW i \in S PROVE Cardinality(Below(i)) + 1 \in 1..N
    <3> HIDE DEF Below, N
    <3> QED  BY <1>1, <1>2
  <2> HIDE DEF Below
  <2> QED  BY <2>1
<1>4. ASSUME NEW i \in S, NEW j \in S, <<i, j>> \in before
      PROVE  r[i] < r[j]
  <2>1. Below(i) \union {i} \subseteq Below(j) /\ i \notin Below(i)
    BY <1>4 DEF StrictOrder
  <2> HIDE DEF Below
  <2>2. /\ IsFiniteSet(Below(i) \union {i})
        /\ Cardinality(Below(i) \union {i}) = Cardinality(Below(i)) + 1
    BY <1>2, <2>1, FS_AddElement
  <2>3. Cardinality(Below(i) \union {i}) <= Cardinality(Below(j))
    BY <1>2, <2>1, FS_Subset
  <2> QED  BY <1>2, <2>2, <2>3
<1>5. \A i, j \in S : r[i] = r[j] => i = j
  <2> SUFFICES ASSUME NEW i \in S, NEW j \in S, i # j PROVE r[i] # r[j]
    OBVIOUS
  <2>1. r[i] \in Nat /\ r[j] \in Nat
    BY <1>1, <1>3
  <2>2. r[i] < r[j] \/ r[j] < r[i]
    BY <1>4 DEF StrictOrder
  <2> HIDE DEF r
  <2> QED  BY <2>1, <2>2
<1>6. \A n \in 1..N : \E i \in S : r[i] = n
  <2> HIDE DEF r
  <2>1. r \in Injection(S, 1..N)
    BY <1>3, <1>5 DEF Injection, IsInjective
  <2>2. r \in Surjection(S, 1..N)
    BY <1>1, <2>1, FS_Injection
  <2> QED  BY <2>2 DEF Surjection
<1>7. ASSUME NEW n \in 1..N PROVE order[n] \in S /\ r[order[n]] = n
  <2>1. order[n] = CHOOSE i \in S : Cardinality(Below(i)) = n - 1
    BY DEF InOrder
  <2> HIDE DEF order, Below, N, r
  <2>2. \E i \in S : Cardinality(Below(i)) = n - 1
    <3>1. PICK i \in S : r[i] = n
      BY <1>6
    <3>2. Cardinality(Below(i)) = n - 1
      BY <1>2, <1>3, <3>1
    <3> QED  BY <3>2
  <2>3. order[n] \in S /\ Cardinality(Below(order[n])) = n - 1
    BY <2>1, <2>2
  <2> QED  BY <1>1, <1>3, <2>3
<1>8. order \in Seq(S) /\ Len(order) = N
  <2>1. order = [n \in 1..N |-> CHOOSE i \in S : Cardinality(Below(i)) = n - 1]
    BY DEF InOrder
  <2> DEFINE value(n) == CHOOSE i \in S : Cardinality(Below(i)) = n - 1
  <2>2. order = [n \in 1..N |-> value(n)]
    BY <2>1
  <2> HIDE DEF order, value, r, N, Below
  <2>3. \A n \in 1..N : value(n) \in S
    BY <1>7, <2>2
  <2> QED  BY <1>1, <2>2, <2>3
<1> HIDE DEF r, N, Below
<1>9. ASSUME NEW i \in S PROVE \E n \in 1..N : order[n] = i
  BY <1>3, <1>5, <1>7
<1>10. ASSUME NEW m \in 1..N, NEW n \in 1..N, m < n PROVE <<order[m], order[n]>> \in before
  <2>1. order[m] \in S /\ order[n] \in S /\ r[order[m]] = m /\ r[order[n]] = n
    BY <1>7
  <2> HIDE DEF order
  <2>2. m \in Nat /\ n \in Nat
    BY <1>1
  <2>3. order[m] # order[n]
    BY <1>10, <2>1, <2>2
  <2>4. <<order[n], order[m]>> \notin before
    <3> SUFFICES ASSUME <<order[n], order[m]>> \in before PROVE FALSE
      OBVIOUS
    <3>1. r[order[n]] < r[order[m]]
      BY <1>4, <2>1
    <3> QED  BY <1>10, <2>1, <2>2, <3>1
  <2> QED  BY <2>1, <2>3, <2>4 DEF StrictOrder
<1> QED  BY <1>8, <1>9, <1>10 DEF N

(***************************************************************************)
(* The correlation engine.                                                 *)
(***************************************************************************)

\* Events are numbered, and so are their ranks.
LEMMA EventNumbers ==
  /\ Events \subseteq Nat \ {0} /\ \A e \in Events : RankOf[e] \in Int
  /\ \A c \in Copies : c[1] \in Events /\ c[2] \in Nat \ {0}
<1>1. Events = 1..Len(KeyOf) /\ Len(KeyOf) \in Nat
  BY EventsAssumption DEF Events
<1> QED  BY <1>1, EventsAssumption DEF Copies

\* The copies of a batch.
LEMMA BatchMembers ==
  ASSUME NEW batch \in Seq(Copies), NEW i \in DOMAIN batch
  PROVE  /\ i \in Nat /\ i \in 1..Len(batch) /\ batch[i] \in Copies /\ batch[i] \in Range(batch)
         /\ batch[i][1] \in Events /\ batch[i][1] \in Int /\ RankOf[batch[i][1]] \in Int
<1>1. DOMAIN batch = 1..Len(batch) /\ Len(batch) \in Nat
  OBVIOUS
<1>2. batch[i] \in Copies /\ i \in 1..Len(batch) /\ i \in Nat
  BY <1>1
<1>3. batch[i] \in Range(batch)
  BY DEF Range
<1>4. PICK e : e = batch[i][1]
  OBVIOUS
<1>5. e \in Events
  BY <1>2, <1>4, EventNumbers
<1>6. e \in Int /\ RankOf[e] \in Int
  BY <1>5, EventNumbers
<1> QED  BY <1>2, <1>3, <1>4, <1>5, <1>6

\* Precedes orders the copies of a batch.
LEMMA PrecedesOrders ==
  ASSUME NEW batch \in Seq(Copies), NEW same \in SUBSET (DOMAIN batch)
  PROVE  /\ IsFiniteSet(same)
         /\ StrictOrder(same, {p \in same \X same : Precedes(batch, p[1], p[2])})
<1>1. IsFiniteSet(same)
  BY FS_Interval, FS_Subset
<1> DEFINE before == {p \in same \X same : Precedes(batch, p[1], p[2])}
<1>2. \A i, j \in same : <<i, j>> \in before <=> Precedes(batch, i, j)
  OBVIOUS
<1>3. ASSUME NEW i \in same PROVE i \in Int /\ batch[i][1] \in Int /\ RankOf[batch[i][1]] \in Int
  BY BatchMembers
<1> HIDE DEF before
<1>4. StrictOrder(same, before)
  <2>1. ASSUME NEW i \in same PROVE <<i, i>> \notin before
    BY <1>2, <1>3 DEF Precedes
  <2>2. ASSUME NEW i \in same, NEW j \in same, NEW k \in same,
               <<i, j>> \in before, <<j, k>> \in before
        PROVE  <<i, k>> \in before
    <3>1. Precedes(batch, i, j) /\ Precedes(batch, j, k)
      BY <1>2, <2>2
    <3>2. Precedes(batch, i, k)
      BY <1>3, <3>1 DEF Precedes
    <3> QED  BY <1>2, <3>2
  <2>3. ASSUME NEW i \in same, NEW j \in same, i # j
        PROVE  <<i, j>> \in before \/ <<j, i>> \in before
    <3>1. Precedes(batch, i, j) \/ Precedes(batch, j, i)
      BY <1>3, <2>3 DEF Precedes
    <3> QED  BY <1>2, <3>1
  <2> QED  BY <2>1, <2>2, <2>3 DEF StrictOrder
<1> QED  BY <1>1, <1>4 DEF before

\* A chain lists the copies that share its key, from cause to effect.
LEMMA ChainSorts ==
  ASSUME NEW batch \in Seq(Copies), NEW k
  PROVE  LET c == Chain(batch, k) IN
         /\ c \in Seq(Copies) /\ Causal(c)
         /\ \A n \in 1..Len(c) : KeyOf[c[n][1]] = k /\ c[n] \in Range(batch)
         /\ \A i \in Sharing(batch, k) : \E n \in 1..Len(c) : c[n] = batch[i]
         /\ IsInjective(batch) => IsInjective(c)
<1> DEFINE same == Sharing(batch, k)
           before == {p \in same \X same : Precedes(batch, p[1], p[2])}
           order == InOrder(same, before)
           c == Chain(batch, k)
<1>0. same \subseteq DOMAIN batch /\ \A i \in same : KeyOf[batch[i][1]] = k
  BY DEF Sharing
<1> HIDE DEF same
<1>1. IsFiniteSet(same) /\ StrictOrder(same, before)
  BY <1>0, PrecedesOrders
<1>2. \A i, j : <<i, j>> \in before => Precedes(batch, i, j)
  OBVIOUS
<1> HIDE DEF before
<1>3. /\ order \in Seq(same)
      /\ \A i \in same : \E n \in 1..Len(order) : order[n] = i
      /\ \A m, n \in 1..Len(order) : m < n => <<order[m], order[n]>> \in before
  BY <1>1, InOrderSorts
<1>4. c = [n \in DOMAIN order |-> batch[order[n]]]
  BY DEF Chain, before, same
<1> HIDE DEF order, c
<1>5. ASSUME NEW i \in same
      PROVE  /\ i \in 1..Len(batch) /\ batch[i] \in Copies /\ batch[i] \in Range(batch)
             /\ i \in Int /\ batch[i][1] \in Int /\ RankOf[batch[i][1]] \in Int
  BY <1>0, BatchMembers
<1>6. /\ DOMAIN c = 1..Len(order) /\ c \in Seq(Copies) /\ Len(c) = Len(order)
      /\ \A n \in 1..Len(c) : order[n] \in same /\ c[n] = batch[order[n]]
  <2>1. DOMAIN order = 1..Len(order) /\ Len(order) \in Nat /\ \A n \in 1..Len(order) : order[n] \in same
    BY <1>3
  <2> DEFINE value(n) == batch[order[n]]
  <2>2. \A n \in 1..Len(order) : value(n) \in Copies
    BY <1>5, <2>1
  <2>3. c = [n \in 1..Len(order) |-> value(n)]
    BY <1>4, <2>1
  <2>4. DOMAIN c = 1..Len(order) /\ c \in Seq(Copies) /\ Len(c) = Len(order)
    <3> HIDE DEF value
    <3> QED  BY <2>1, <2>2, <2>3
  <2> QED  BY <2>1, <2>3, <2>4
<1>7. Causal(c)
  <2> SUFFICES ASSUME NEW m \in DOMAIN c, NEW n \in DOMAIN c, m < n
               PROVE  /\ KeyOf[c[m][1]] = KeyOf[c[n][1]]
                      /\ RankOf[c[m][1]] <= RankOf[c[n][1]]
                      /\ RankOf[c[m][1]] = RankOf[c[n][1]] => c[m][1] <= c[n][1]
    BY DEF Causal
  <2>1. /\ order[m] \in same /\ order[n] \in same
        /\ c[m] = batch[order[m]] /\ c[n] = batch[order[n]]
        /\ Precedes(batch, order[m], order[n])
    BY <1>2, <1>3, <1>6
  <2> QED  BY <1>0, <1>5, <2>1 DEF Precedes
<1>8. ASSUME IsInjective(batch) PROVE IsInjective(c)
  <2>1. ASSUME NEW m \in DOMAIN c, NEW n \in DOMAIN c, m < n PROVE c[m] # c[n]
    <3>1. /\ order[m] \in same /\ order[n] \in same /\ order[m] # order[n]
          /\ c[m] = batch[order[m]] /\ c[n] = batch[order[n]]
      BY <1>1, <1>3, <1>6, <2>1 DEF StrictOrder
    <3>2. order[m] \in DOMAIN batch /\ order[n] \in DOMAIN batch
      BY <1>0, <3>1
    <3> QED  BY <1>8, <3>1, <3>2 DEF IsInjective
  <2>2. \A m, n \in DOMAIN c : m = n \/ m < n \/ n < m
    BY <1>3, <1>6
  <2> QED  BY <2>1, <2>2 DEF IsInjective
<1>9. \A n \in 1..Len(c) : KeyOf[c[n][1]] = k /\ c[n] \in Range(batch)
  BY <1>0, <1>5, <1>6
<1>10. \A i \in same : \E n \in 1..Len(c) : c[n] = batch[i]
  BY <1>3, <1>6
<1> QED  BY <1>6, <1>7, <1>8, <1>9, <1>10 DEF c, same

\* What the engine finds in a batch: chains that share nothing, and one for
\* every two copies of a subject.
LEMMA CorrelateFinds ==
  ASSUME NEW batch \in Seq(Copies), IsInjective(batch)
  PROVE  LET found == Correlate(batch) IN
         /\ found \in Seq(Seq(Copies))
         /\ \A c \in Range(found) : /\ c # <<>> /\ Causal(c) /\ IsInjective(c)
                                    /\ Range(c) \subseteq Range(batch)
         /\ \A c, d \in Range(found) : c # d => Range(c) \intersect Range(d) = {}
         /\ \A d, e \in Range(batch) : d # e /\ KeyOf[d[1]] = KeyOf[e[1]] =>
              \E c \in Range(found) : {d, e} \subseteq Range(c)
<1> DEFINE shared == FirstShared(batch)
           before == {p \in shared \X shared : p[1] < p[2]}
           first == InOrder(shared, before)
           found == Correlate(batch)
           key(i) == KeyOf[batch[i][1]]
<1>1. shared \subseteq DOMAIN batch /\ DOMAIN batch = 1..Len(batch)
  BY DEF FirstShared
<1>2. IsFiniteSet(shared) /\ StrictOrder(shared, before)
  <2>1. IsFiniteSet(shared)
    BY <1>1, FS_Interval, FS_Subset
  <2>2. \A i \in shared : i \in Int
    BY <1>1
  <2>3. \A i, j \in shared : <<i, j>> \in before <=> i < j
    OBVIOUS
  <2> HIDE DEF before, shared
  <2> QED  BY <2>1, <2>2, <2>3 DEF StrictOrder
<1> HIDE DEF before, shared
<1>3. first \in Seq(shared) /\ \A i \in shared : \E n \in 1..Len(first) : first[n] = i
  BY <1>2, InOrderSorts
<1>4. found = [n \in DOMAIN first |-> Chain(batch, key(first[n]))]
  BY DEF Correlate, shared, before
<1> HIDE DEF first, found
<1>5. \A i \in shared : i \in DOMAIN batch /\ Chain(batch, key(i)) \in Seq(Copies)
  BY <1>1, ChainSorts
<1>6. /\ found \in Seq(Seq(Copies)) /\ DOMAIN found = DOMAIN first
      /\ \A c \in Range(found) : \E i \in shared : c = Chain(batch, key(i))
      /\ \A i \in shared : Chain(batch, key(i)) \in Range(found)
  <2> DEFINE value(n) == Chain(batch, key(first[n]))
  <2>1. /\ DOMAIN first = 1..Len(first) /\ Len(first) \in Nat
        /\ \A n \in 1..Len(first) : first[n] \in shared
    BY <1>3
  <2>2. \A n \in 1..Len(first) : value(n) \in Seq(Copies)
    BY <1>5, <2>1
  <2>3. found = [n \in 1..Len(first) |-> value(n)]
    BY <1>4, <2>1
  <2>4. found \in Seq(Seq(Copies)) /\ DOMAIN found = DOMAIN first
    <3> HIDE DEF value
    <3> QED  BY <2>1, <2>2, <2>3
  <2>5. \A n \in 1..Len(first) : found[n] = Chain(batch, key(first[n]))
    BY <2>3
  <2> HIDE DEF value, key
  <2>6. ASSUME NEW c \in Range(found) PROVE \E i \in shared : c = Chain(batch, key(i))
    <3>1. PICK n \in DOMAIN found : c = found[n]
      BY DEF Range
    <3> QED  BY <2>1, <2>4, <2>5, <3>1
  <2>7. ASSUME NEW i \in shared PROVE Chain(batch, key(i)) \in Range(found)
    <3>1. PICK n \in 1..Len(first) : first[n] = i
      BY <1>3
    <3>2. n \in DOMAIN found /\ found[n] = Chain(batch, key(i))
      BY <2>1, <2>4, <2>5, <3>1
    <3> QED  BY <3>2 DEF Range
  <2> QED  BY <2>4, <2>6, <2>7
<1>7. ASSUME NEW c \in Range(found)
      PROVE  /\ c # <<>> /\ Causal(c) /\ IsInjective(c) /\ Range(c) \subseteq Range(batch)
             /\ c \in Seq(Copies)
             /\ \E k : c = Chain(batch, k) /\ \A x \in Range(c) : KeyOf[x[1]] = k
  <2>1. PICK i \in shared : c = Chain(batch, key(i))
    BY <1>6
  <2>2. PICK k : k = key(i)
    OBVIOUS
  <2>3. i \in Sharing(batch, k)
    BY <1>1, <2>2 DEF Sharing
  <2>4. /\ c \in Seq(Copies) /\ Causal(c) /\ IsInjective(c)
        /\ \A n \in 1..Len(c) : KeyOf[c[n][1]] = k /\ c[n] \in Range(batch)
        /\ \E n \in 1..Len(c) : c[n] = batch[i]
    BY <2>1, <2>2, <2>3, ChainSorts
  <2>5. DOMAIN c = 1..Len(c) /\ c # <<>>
    BY <2>4
  <2>6. \A x \in Range(c) : KeyOf[x[1]] = k /\ x \in Range(batch)
    BY <2>4, <2>5 DEF Range
  <2> QED  BY <2>1, <2>2, <2>4, <2>5, <2>6
<1>8. ASSUME NEW c \in Range(found), NEW d \in Range(found), c # d
      PROVE  Range(c) \intersect Range(d) = {}
  <2>1. PICK k : c = Chain(batch, k) /\ \A x \in Range(c) : KeyOf[x[1]] = k
    BY <1>7
  <2>2. PICK l : d = Chain(batch, l) /\ \A x \in Range(d) : KeyOf[x[1]] = l
    BY <1>7
  <2> QED  BY <1>8, <2>1, <2>2
<1>9. ASSUME NEW d \in Range(batch), NEW e \in Range(batch), d # e, KeyOf[d[1]] = KeyOf[e[1]]
      PROVE  \E c \in Range(found) : {d, e} \subseteq Range(c)
  <2>1. PICK i \in DOMAIN batch, j \in DOMAIN batch : d = batch[i] /\ e = batch[j]
    BY DEF Range
  <2>2. PICK k : k = KeyOf[d[1]]
    OBVIOUS
  <2> DEFINE same == Sharing(batch, k)
  <2>3. i \in same /\ j \in same /\ i # j /\ same \subseteq Nat /\ same \subseteq DOMAIN batch
    BY <1>1, <1>9, <2>1, <2>2 DEF Sharing
  <2>4. PICK m \in same : \A n \in same : m <= n
    BY <2>3, LeastNatural
  <2>5. m \in shared /\ key(m) = k
    BY <2>3, <2>4 DEF FirstShared, shared, Sharing
  <2> DEFINE c == Chain(batch, k)
  <2>6. c \in Range(found)
    BY <1>6, <2>5
  <2>7. c \in Seq(Copies) /\ \A n \in same : \E l \in 1..Len(c) : c[l] = batch[n]
    BY ChainSorts
  <2> HIDE DEF c
  <2>8. d \in Range(c) /\ e \in Range(c)
    BY <2>1, <2>3, <2>7 DEF Range
  <2> QED  BY <2>6, <2>8
<1> QED  BY <1>6, <1>7, <1>8, <1>9 DEF found

(***************************************************************************)
(* The calls of the bus.                                                   *)
(***************************************************************************)

Kinds == {"open", "correlate", "flush", "returned"}

\* Deliveries, calls and counters have their types and agree.
BusOK ==
  /\ state \in [Events -> {"unpublished", "pending", "acked", "dead"}]
  /\ tries \in [Events -> 0..MaxDeliveries]
  /\ calls \subseteq Events \X Kinds
  /\ incidents \in [Events -> Nat] /\ faults \in 0..MaxFaults
  /\ lost \in BOOLEAN /\ redis \in BOOLEAN
  /\ CallInv

\* A call is a pair.
LEMMA CallPairs ==
  ASSUME BusOK, NEW c \in calls
  PROVE  c[1] \in Events /\ c[2] \in Kinds /\ c = <<c[1], c[2]>>
BY DEF BusOK

\* A call that moves to another step.
LEMMA GotoStep ==
  ASSUME BusOK, NEW e \in Events, NEW from \in Kinds, NEW to \in Kinds,
         <<e, from>> \in calls, to = "returned" \/ (from = "correlate" /\ to = "flush"),
         Goto(e, from, to), state' = state, tries' = tries, redis' = redis
  PROVE  calls' \subseteq Events \X Kinds /\ CallInv'
<1>1. calls' = (calls \ {<<e, from>>}) \union {<<e, to>>}
  BY DEF Goto
<1>2. calls' \subseteq Events \X Kinds
  BY <1>1 DEF BusOK
<1>3. ASSUME NEW c \in calls' PROVE state'[c[1]] = "pending" /\ tries'[c[1]] > 0
  BY <1>1 DEF BusOK, CallInv
<1>4. ASSUME redis, NEW c \in calls', NEW d \in calls', c[1] = d[1] PROVE c = d
  BY <1>1, <1>4 DEF BusOK, CallInv
<1>5. ASSUME NEW d \in Events PROVE ~({<<d, "correlate">>, <<d, "flush">>} \subseteq calls')
  BY <1>1 DEF BusOK, CallInv
<1>6. \A d \in Events : state'[d] = "unpublished" => tries'[d] = 0
  BY DEF BusOK, CallInv
<1> QED  BY <1>2, <1>3, <1>4, <1>5, <1>6 DEF CallInv

\* Calls that return, or die.
LEMMA FewerCalls ==
  ASSUME BusOK, calls' \subseteq calls, tries' = tries, redis' = redis,
         state' \in [Events -> {"unpublished", "pending", "acked", "dead"}],
         \A c \in calls' : state'[c[1]] = state[c[1]],
         \A e \in Events : state'[e] = "unpublished" => state[e] = "unpublished"
  PROVE  calls' \subseteq Events \X Kinds /\ CallInv'
<1>1. \A c \in calls' : state'[c[1]] = "pending" /\ tries'[c[1]] > 0
  BY DEF BusOK, CallInv
<1>2. \A e \in Events : state'[e] = "unpublished" => tries'[e] = 0
  BY DEF BusOK, CallInv
<1>3. redis' => \A c, d \in calls' : c[1] = d[1] => c = d
  BY DEF BusOK, CallInv
<1>4. \A e \in Events : ~({<<e, "correlate">>, <<e, "flush">>} \subseteq calls')
  BY DEF BusOK, CallInv
<1>5. calls' \subseteq Events \X Kinds
  BY DEF BusOK
<1> QED  BY <1>1, <1>2, <1>3, <1>4, <1>5 DEF CallInv

\* A delivery that enters handlers.
LEMMA EnterStep ==
  ASSUME BusOK, NEW e \in Events, NEW handlers \in SUBSET {"open", "correlate"},
         Enter(e, handlers), CallsOf(e) = {}, tries[e] < MaxDeliveries, redis' = redis,
         redis => \E h : handlers = {h},
         state' \in [Events -> {"unpublished", "pending", "acked", "dead"}], state'[e] = "pending",
         \A d \in Events : d # e => state'[d] = state[d]
  PROVE  calls' \subseteq Events \X Kinds /\ CallInv' /\ tries' \in [Events -> 0..MaxDeliveries]
<1>1. calls' = calls \union {<<e, h>> : h \in handlers} /\ tries' = [tries EXCEPT ![e] = @ + 1]
  BY DEF Enter
<1>2. calls' \subseteq Events \X Kinds
  BY <1>1 DEF BusOK, Kinds
<1>3. \A c \in calls : c[1] # e
  BY DEF CallsOf
<1>4. tries[e] \in Nat /\ tries'[e] = tries[e] + 1 /\ \A d \in Events : d # e => tries'[d] = tries[d]
  BY <1>1 DEF BusOK
<1>5. tries' \in [Events -> 0..MaxDeliveries]
  BY <1>1, EventsAssumption DEF BusOK
<1>6. ASSUME NEW c \in calls' PROVE state'[c[1]] = "pending" /\ tries'[c[1]] > 0
  <2>1. CASE c \in calls
    <3>1. c[1] \in Events /\ c[1] # e /\ state[c[1]] = "pending" /\ tries[c[1]] > 0
      BY <1>3, <2>1, CallPairs DEF BusOK, CallInv
    <3>2. state'[c[1]] = state[c[1]] /\ tries'[c[1]] = tries[c[1]]
      BY <1>4, <3>1
    <3> QED  BY <3>1, <3>2
  <2>2. CASE c \in {<<e, h>> : h \in handlers}
    BY <1>4, <2>2
  <2> QED  BY <1>1, <2>1, <2>2
<1>7. ASSUME redis, NEW c \in calls', NEW d \in calls', c[1] = d[1] PROVE c = d
  BY <1>1, <1>3, <1>7 DEF BusOK, CallInv
<1>8. ASSUME NEW d \in Events PROVE ~({<<d, "correlate">>, <<d, "flush">>} \subseteq calls')
  <2>1. <<d, "flush">> \in calls' => <<d, "flush">> \in calls /\ d # e
    BY <1>1, <1>3
  <2>2. d # e => (<<d, "correlate">> \in calls' => <<d, "correlate">> \in calls)
    BY <1>1
  <2> QED  BY <2>1, <2>2 DEF BusOK, CallInv
<1>9. ASSUME NEW d \in Events, state'[d] = "unpublished" PROVE tries'[d] = 0
  BY <1>4, <1>9 DEF BusOK, CallInv
<1> QED  BY <1>2, <1>5, <1>6, <1>7, <1>8, <1>9 DEF CallInv

\* Every step keeps the calls in order.
LEMMA BusStep ==
  ASSUME BusOK, [Next]_vars,
         \A f \in flushes : /\ f.caller \in Events \union {0}
                            /\ (f.caller # 0 => <<f.caller, "flush">> \in calls)
  PROVE  BusOK'
<1>0. MaxFaults \in Nat /\ MaxDeliveries \in Nat \ {0}
  BY EventsAssumption
<1>1. ASSUME NEW e \in Events, Publish(e) PROVE BusOK'
  <2>1. /\ state[e] = "unpublished" /\ state' = [state EXCEPT ![e] = "pending"]
        /\ incidents' = incidents /\ faults' = faults /\ lost' = lost /\ redis' = redis
    BY <1>1 DEF Publish, config
  <2>2. CallsOf(e) = {} /\ tries[e] = 0
    BY <2>1 DEF BusOK, CallInv, CallsOf
  <2>3. CASE redis
    <3>1. tries' = tries /\ calls' = calls
      BY <1>1, <2>3 DEF Publish
    <3>2. \A c \in calls' : c[1] \in Events /\ state[c[1]] = "pending" /\ tries[c[1]] > 0
      BY <3>1, CallPairs DEF BusOK, CallInv
    <3>3. CallInv'
      BY <2>1, <2>2, <3>1, <3>2 DEF BusOK, CallInv
    <3> QED  BY <2>1, <3>1, <3>3 DEF BusOK
  <2>4. CASE ~redis
    <3>1. Enter(e, Subscribers(e)) /\ Subscribers(e) \in SUBSET {"open", "correlate"}
      BY <1>1, <2>4 DEF Publish, Subscribers
    <3>2. /\ state' \in [Events -> {"unpublished", "pending", "acked", "dead"}]
          /\ state'[e] = "pending" /\ \A d \in Events : d # e => state'[d] = state[d]
      BY <2>1 DEF BusOK
    <3>3. calls' \subseteq Events \X Kinds /\ CallInv' /\ tries' \in [Events -> 0..MaxDeliveries]
      BY <1>0, <2>1, <2>2, <2>4, <3>1, <3>2, EnterStep
    <3> QED  BY <2>1, <3>2, <3>3 DEF BusOK
  <2> QED  BY <2>3, <2>4
<1>2. ASSUME NEW e \in Events, NEW h \in {"open", "correlate"}, Deliver(e, h) PROVE BusOK'
  <2>1. /\ redis /\ state[e] = "pending" /\ CallsOf(e) = {} /\ tries[e] < MaxDeliveries
        /\ Enter(e, {h}) /\ state' = state
        /\ incidents' = incidents /\ faults' = faults /\ lost' = lost /\ redis' = redis
    BY <1>2 DEF Deliver, config
  <2>2. calls' \subseteq Events \X Kinds /\ CallInv' /\ tries' \in [Events -> 0..MaxDeliveries]
    BY <2>1, EnterStep DEF BusOK
  <2> QED  BY <2>1, <2>2 DEF BusOK
<1>3. ASSUME NEW e \in Events, DeadLetter(e) PROVE BusOK'
  <2>1. /\ CallsOf(e) = {} /\ state' = [state EXCEPT ![e] = "dead"] /\ tries' = tries /\ calls' = calls
        /\ incidents' = incidents /\ faults' = faults /\ lost' = lost /\ redis' = redis
    BY <1>3 DEF DeadLetter, config
  <2>2. \A c \in calls' : c[1] \in Events /\ c[1] # e
    BY <2>1, CallPairs DEF CallsOf
  <2>3. /\ state' \in [Events -> {"unpublished", "pending", "acked", "dead"}]
        /\ \A d \in Events : d # e => state'[d] = state[d]
        /\ state'[e] = "dead"
    BY <2>1 DEF BusOK
  <2>4. calls' \subseteq Events \X Kinds /\ CallInv'
    BY <2>1, <2>2, <2>3, FewerCalls
  <2> QED  BY <2>1, <2>3, <2>4 DEF BusOK
<1>4. ASSUME NEW e \in Events, Ack(e) PROVE BusOK'
  <2>1. /\ calls' = calls \ CallsOf(e) /\ tries' = tries /\ incidents' = incidents
        /\ (state' = [state EXCEPT ![e] = "acked"] \/ state' = state)
        /\ redis' = redis /\ lost' = lost
        /\ (faults' = faults \/ (faults < MaxFaults /\ faults' = faults + 1))
    BY <1>4 DEF Ack, config, Harmless, Fault
  <2>2. \A c \in calls' : c[1] \in Events /\ c[1] # e /\ c \in calls
    BY <2>1, CallPairs DEF CallsOf
  <2>3. /\ state' \in [Events -> {"unpublished", "pending", "acked", "dead"}]
        /\ \A d \in Events : d # e => state'[d] = state[d]
        /\ state'[e] \in {"acked", state[e]}
    BY <2>1 DEF BusOK
  <2>4. calls' \subseteq Events \X Kinds /\ CallInv'
    BY <2>1, <2>2, <2>3, FewerCalls
  <2>5. faults' \in 0..MaxFaults
    BY <1>0, <2>1 DEF BusOK
  <2> QED  BY <2>1, <2>3, <2>4, <2>5 DEF BusOK
<1>5. ASSUME NEW e \in Events, OpenIncident(e) PROVE BusOK'
  <2>1. /\ <<e, "open">> \in calls /\ Goto(e, "open", "returned") /\ state' = state /\ tries' = tries
        /\ redis' = redis /\ faults' = faults /\ lost' = lost
        /\ incidents' = IF e \in Critical THEN [incidents EXCEPT ![e] = @ + 1] ELSE incidents
    BY <1>5 DEF OpenIncident, bus, config
  <2>2. calls' \subseteq Events \X Kinds /\ CallInv'
    BY <2>1, GotoStep DEF Kinds
  <2> QED  BY <2>1, <2>2 DEF BusOK
<1>6. ASSUME NEW e \in Events, CreateFails(e) PROVE BusOK'
  <2>1. /\ <<e, "open">> \in calls /\ state' = state /\ tries' = tries /\ incidents' = incidents
        /\ redis' = redis /\ lost' = lost /\ faults < MaxFaults /\ faults' = faults + 1
        /\ (calls' = calls \ {<<e, "open">>} \/ Goto(e, "open", "returned"))
    BY <1>6 DEF CreateFails, Harmless, Fault, bus
  <2>2. calls' \subseteq Events \X Kinds /\ CallInv'
    <3>1. CASE calls' = calls \ {<<e, "open">>}
      BY <2>1, <3>1, FewerCalls DEF BusOK
    <3>2. CASE Goto(e, "open", "returned")
      BY <2>1, <3>2, GotoStep DEF Kinds
    <3> QED  BY <2>1, <3>1, <3>2
  <2>3. faults' \in 0..MaxFaults
    BY <1>0, <2>1 DEF BusOK
  <2> QED  BY <2>1, <2>2, <2>3 DEF BusOK
<1>7. ASSUME NEW e \in Events, Buffer(e) \/ BufferFull(e) PROVE BusOK'
  <2>1. /\ <<e, "correlate">> \in calls /\ state' = state /\ tries' = tries /\ incidents' = incidents
        /\ redis' = redis /\ lost' = lost /\ faults' = faults
        /\ \E to \in {"flush", "returned"} : Goto(e, "correlate", to)
    BY <1>7 DEF Buffer, BufferFull, bus, config
  <2>2. calls' \subseteq Events \X Kinds /\ CallInv'
    BY <2>1, GotoStep DEF Kinds
  <2> QED  BY <2>1, <2>2 DEF BusOK
<1>8. ASSUME NEW f \in flushes, Write(f) PROVE BusOK'
  <2>1. /\ state' = state /\ tries' = tries /\ incidents' = incidents /\ redis' = redis
        /\ \/ faults' = faults /\ lost' = lost
           \/ faults < MaxFaults /\ faults' = faults + 1 /\ lost' = TRUE
        /\ calls' = calls \/ (f.caller # 0 /\ Goto(f.caller, "flush", "returned"))
    BY <1>8 DEF Write, StoreChain, StoreEdges, FlushFails, EndFlush, Losing, Fault, bus, config
  <2>2. calls' \subseteq Events \X Kinds /\ CallInv'
    <3>1. CASE calls' = calls
      BY <2>1, <3>1, FewerCalls DEF BusOK
    <3>2. CASE f.caller # 0 /\ Goto(f.caller, "flush", "returned")
      <4>1. PICK e \in Events : e = f.caller
        BY <3>2
      <4> QED  BY <2>1, <3>2, <4>1, GotoStep DEF Kinds
    <3> QED  BY <2>1, <3>1, <3>2
  <2>3. faults' \in 0..MaxFaults
    BY <1>0, <2>1 DEF BusOK
  <2> QED  BY <2>1, <2>2, <2>3 DEF BusOK
<1>9. CASE Timer \/ UNCHANGED vars
  <2>1. /\ state' = state /\ tries' = tries /\ incidents' = incidents /\ redis' = redis
        /\ faults' = faults /\ lost' = lost /\ calls' = calls
    BY <1>9 DEF Timer, bus, config, vars
  <2>2. calls' \subseteq Events \X Kinds /\ CallInv'
    BY <2>1, FewerCalls DEF BusOK
  <2> QED  BY <2>1, <2>2 DEF BusOK
<1>10. CASE Crash
  <2>1. /\ state' = state /\ tries' = tries /\ incidents' = incidents /\ redis' = redis
        /\ faults < MaxFaults /\ faults' = faults + 1 /\ lost' = TRUE /\ calls' = {}
    BY <1>10 DEF Crash, bus, Losing, Fault
  <2>2. calls' \subseteq Events \X Kinds /\ CallInv'
    BY <2>1, FewerCalls DEF BusOK
  <2>3. faults' \in 0..MaxFaults
    BY <1>0, <2>1 DEF BusOK
  <2> QED  BY <2>1, <2>2, <2>3 DEF BusOK
<1> QED
  BY <1>1, <1>2, <1>3, <1>4, <1>5, <1>6, <1>7, <1>8, <1>9, <1>10 DEF Next, Handle

(***************************************************************************)
(* The buffer.                                                             *)
(***************************************************************************)

BufferOK ==
  /\ buffer \in Seq(Copies) /\ Len(buffer) < FlushAt
  /\ timers \in Nat /\ fed \subseteq SUBSET Copies
  /\ CopyInv /\ NothingStranded

\* A call that buffers a copy brings a new one.
LEMMA BatchGrows ==
  ASSUME BusOK, BufferOK, NEW e \in Events, <<e, "correlate">> \in calls
  PROVE  LET copy == <<e, tries[e]>> batch == Append(buffer, copy) IN
         /\ copy \in Copies /\ copy \notin Range(buffer) /\ copy \notin UNION fed
         /\ batch \in Seq(Copies) /\ Len(batch) = Len(buffer) + 1
         /\ Range(batch) = Range(buffer) \union {copy}
         /\ IsInjective(batch)
<1> DEFINE copy == <<e, tries[e]>>
           batch == Append(buffer, copy)
<1>1. copy \in Copies
  <2>1. tries[e] \in 0..MaxDeliveries /\ tries[e] > 0
    BY DEF BusOK, CallInv
  <2> QED  BY <2>1, EventsAssumption DEF Copies
<1>2. copy \notin Range(buffer) /\ copy \notin UNION fed
  BY DEF BufferOK, CopyInv
<1> HIDE DEF copy
<1>3. /\ batch \in Seq(Copies) /\ Len(batch) = Len(buffer) + 1 /\ Len(buffer) \in Nat
      /\ DOMAIN batch = 1..(Len(buffer) + 1) /\ DOMAIN buffer = 1..Len(buffer)
      /\ \A i \in 1..Len(buffer) : batch[i] = buffer[i]
      /\ batch[Len(buffer) + 1] = copy
  BY <1>1 DEF BufferOK
<1> HIDE DEF batch
<1>4. \A i \in 1..(Len(buffer) + 1) : i \in 1..Len(buffer) \/ i = Len(buffer) + 1
  BY <1>3
<1>5. Range(batch) = Range(buffer) \union {copy}
  <2>1. \A c \in Range(batch) : c \in Range(buffer) \union {copy}
    BY <1>3, <1>4 DEF Range
  <2>2. \A c \in Range(buffer) : c \in Range(batch)
    BY <1>3 DEF Range
  <2>3. copy \in Range(batch)
    <3>1. Len(buffer) + 1 \in DOMAIN batch
      BY <1>3
    <3> QED  BY <1>3, <3>1 DEF Range
  <2> QED  BY <2>1, <2>2, <2>3
<1>6. IsInjective(batch)
  <2>1. \A i \in 1..Len(buffer) : batch[i] # copy
    BY <1>2, <1>3 DEF Range
  <2>2. \A i, j \in 1..Len(buffer) : batch[i] = batch[j] => i = j
    BY <1>3 DEF BufferOK, CopyInv, IsInjective
  <2> QED  BY <1>3, <1>4, <2>1, <2>2 DEF IsInjective
<1> QED  BY <1>1, <1>2, <1>3, <1>5, <1>6 DEF copy, batch

\* Deliveries only count up, and a call that is to buffer a copy has just
\* been counted or was there before.
LEMMA CountsUp ==
  ASSUME BusOK, [Next]_vars, NEW e \in Events
  PROVE  /\ tries'[e] \in Nat /\ tries[e] \in Nat /\ tries'[e] >= tries[e]
         /\ <<e, "correlate">> \in calls' =>
              tries'[e] > tries[e] \/ (<<e, "correlate">> \in calls /\ tries'[e] = tries[e])
<1>0. tries[e] \in Nat
  BY DEF BusOK
<1>1. ASSUME NEW d \in Events, NEW handlers, Enter(d, handlers)
      PROVE  /\ tries'[e] \in Nat /\ tries'[e] >= tries[e]
             /\ <<e, "correlate">> \in calls' =>
                  tries'[e] > tries[e] \/ (<<e, "correlate">> \in calls /\ tries'[e] = tries[e])
  BY <1>0, <1>1 DEF Enter, BusOK
<1>2. CASE tries' = tries /\ (<<e, "correlate">> \in calls' => <<e, "correlate">> \in calls)
  BY <1>0, <1>2
<1>3. ASSUME NEW d \in Events, Publish(d) \/ DeadLetter(d)
      PROVE  \/ \E handlers : Enter(d, handlers)
             \/ tries' = tries /\ (<<e, "correlate">> \in calls' => <<e, "correlate">> \in calls)
  BY <1>3 DEF Publish, DeadLetter
<1>4. ASSUME NEW d \in Events, NEW h \in {"open", "correlate"}, Deliver(d, h)
      PROVE  \E handlers : Enter(d, handlers)
  BY <1>4 DEF Deliver
<1>5. ASSUME NEW d \in Events, Handle(d)
      PROVE  tries' = tries /\ (<<e, "correlate">> \in calls' => <<e, "correlate">> \in calls)
  BY <1>5 DEF Handle, OpenIncident, CreateFails, Buffer, BufferFull, Ack, Goto, bus
<1>6. ASSUME NEW f \in flushes, Write(f)
      PROVE  tries' = tries /\ (<<e, "correlate">> \in calls' => <<e, "correlate">> \in calls)
  BY <1>6 DEF Write, StoreChain, StoreEdges, FlushFails, EndFlush, Goto, bus
<1>7. ASSUME Timer \/ Crash \/ UNCHANGED vars
      PROVE  tries' = tries /\ (<<e, "correlate">> \in calls' => <<e, "correlate">> \in calls)
  BY <1>7 DEF Timer, Crash, vars, bus
<1> QED  BY <1>0, <1>1, <1>2, <1>3, <1>4, <1>5, <1>6, <1>7 DEF Next

\* Every step but those of the buffer leaves it alone.
LEMMA BufferUntouched ==
  ASSUME [Next]_vars
  PROVE  \/ \E e \in Events : Buffer(e) \/ BufferFull(e)
         \/ Timer
         \/ Crash
         \/ UNCHANGED <<buffer, timers, fed>>
BY DEF Next, Publish, Deliver, DeadLetter, Handle, OpenIncident, CreateFails,
   Ack, Write, StoreChain, StoreEdges, FlushFails, vars

\* Every step keeps the buffer.
LEMMA BufferStep ==
  ASSUME BusOK, BusOK', BufferOK, [Next]_vars
  PROVE  BufferOK'
<1>0. /\ buffer \in Seq(Copies) /\ Len(buffer) < FlushAt /\ Len(buffer) \in Nat
      /\ timers \in Nat /\ fed \subseteq SUBSET Copies
      /\ <<>> \in Seq(Copies) /\ Len(<<>>) = 0 /\ 0 < FlushAt /\ FlushAt \in Nat
      /\ Range(<<>>) = {} /\ IsInjective(<<>>)
  BY EventsAssumption DEF BufferOK, Range, IsInjective
<1>a. ASSUME Range(buffer') \union UNION fed' \subseteq Range(buffer) \union UNION fed
      PROVE  /\ \A c \in Range(buffer') \union UNION fed' : c[2] <= tries'[c[1]]
             /\ \A e \in Events : <<e, "correlate">> \in calls' =>
                  <<e, tries'[e]>> \notin Range(buffer') \union UNION fed'
  <2>1. ASSUME NEW c \in Range(buffer) \union UNION fed PROVE c[1] \in Events /\ c[2] \in Nat
    <3>1. c \in Copies
      BY <1>0, RangeFinite
    <3> QED  BY <3>1, EventNumbers
  <2>2. ASSUME NEW c \in Range(buffer) \union UNION fed PROVE c[2] <= tries'[c[1]]
    <3>1. c[1] \in Events /\ c[2] \in Nat /\ c[2] <= tries[c[1]]
      BY <2>1 DEF BufferOK, CopyInv
    <3>2. PICK e \in Events : e = c[1]
      BY <3>1
    <3>3. tries'[e] \in Nat /\ tries[e] \in Nat /\ tries'[e] >= tries[e]
      BY CountsUp
    <3>4. PICK n \in Nat : n = c[2]
      BY <3>1
    <3>5. n <= tries[e]
      BY <3>1, <3>2, <3>4
    <3>6. n <= tries'[e]
      BY <3>3, <3>5
    <3> QED  BY <3>2, <3>4, <3>6
  <2>3. ASSUME NEW e \in Events, <<e, "correlate">> \in calls',
               <<e, tries'[e]>> \in Range(buffer) \union UNION fed
        PROVE  FALSE
    <3>1. tries'[e] <= tries[e]
      BY <2>3 DEF BufferOK, CopyInv
    <3>2. <<e, "correlate">> \in calls /\ tries'[e] = tries[e]
      BY <2>3, <3>1, CountsUp
    <3> QED  BY <2>3, <3>2 DEF BufferOK, CopyInv
  <2> QED  BY <1>a, <2>2, <2>3
<1>1. ASSUME NEW e \in Events, Buffer(e) PROVE BufferOK'
  <2> DEFINE copy == <<e, tries[e]>>
             batch == Append(buffer, copy)
  <2>1. /\ <<e, "correlate">> \in calls /\ Len(buffer) + 1 < FlushAt /\ buffer' = batch
        /\ timers' = timers + 1 /\ Goto(e, "correlate", "returned") /\ fed' = fed /\ tries' = tries
    BY <1>1 DEF Buffer, bus
  <2>2. /\ copy \notin Range(buffer) /\ copy \notin UNION fed
        /\ batch \in Seq(Copies) /\ Len(batch) = Len(buffer) + 1
        /\ Range(batch) = Range(buffer) \union {copy} /\ IsInjective(batch)
    BY <2>1, BatchGrows
  <2>3. \A c \in Range(buffer') \union UNION fed' : c[2] <= tries'[c[1]]
    <3>1. copy[2] <= tries[copy[1]]
      BY DEF BusOK
    <3> HIDE DEF copy, batch
    <3> QED  BY <2>1, <2>2, <3>1 DEF BufferOK, CopyInv
  <2>4. ASSUME NEW d \in Events, <<d, "correlate">> \in calls'
        PROVE <<d, tries'[d]>> \notin Range(buffer') \union UNION fed'
    <3>1. d # e /\ <<d, "correlate">> \in calls
      BY <2>1, <2>4 DEF Goto
    <3>2. <<d, tries[d]>> \notin Range(buffer) \union UNION fed
      BY <3>1 DEF BufferOK, CopyInv
    <3>3. <<d, tries[d]>> # copy
      BY <3>1
    <3> HIDE DEF copy, batch
    <3> QED  BY <2>1, <2>2, <3>2, <3>3
  <2> HIDE DEF copy, batch
  <2>5. IsInjective(buffer') /\ Range(buffer') \intersect UNION fed' = {}
    BY <2>1, <2>2 DEF BufferOK, CopyInv
  <2>6. CopyInv'
    BY <2>3, <2>4, <2>5 DEF CopyInv
  <2>7. timers' \in Nat /\ timers' > 0 /\ Len(buffer') < FlushAt /\ buffer' \in Seq(Copies)
    BY <1>0, <2>1, <2>2
  <2> QED  BY <1>0, <2>1, <2>6, <2>7 DEF BufferOK, NothingStranded
<1>2. ASSUME NEW e \in Events, BufferFull(e) PROVE BufferOK'
  <2> DEFINE copy == <<e, tries[e]>>
             batch == Append(buffer, copy)
  <2>1. /\ <<e, "correlate">> \in calls /\ buffer' = <<>> /\ fed' = fed \union {Range(batch)}
        /\ timers' = timers /\ tries' = tries
        /\ calls' \subseteq (calls \ {<<e, "correlate">>}) \union {<<e, "flush">>, <<e, "returned">>}
    BY <1>2 DEF BufferFull, Flush, Goto, bus
  <2>2. /\ copy \notin Range(buffer) /\ copy \notin UNION fed /\ copy \in Copies
        /\ batch \in Seq(Copies)
        /\ Range(batch) = Range(buffer) \union {copy}
    BY <2>1, BatchGrows
  <2>3. \A c \in Range(buffer') \union UNION fed' : c[2] <= tries'[c[1]]
    <3>1. copy[2] <= tries[copy[1]]
      BY DEF BusOK
    <3> HIDE DEF copy, batch
    <3> QED  BY <1>0, <2>1, <2>2, <3>1 DEF BufferOK, CopyInv
  <2>4. ASSUME NEW d \in Events, <<d, "correlate">> \in calls'
        PROVE <<d, tries'[d]>> \notin Range(buffer') \union UNION fed'
    <3>1. d # e /\ <<d, "correlate">> \in calls
      BY <2>1, <2>4
    <3>2. <<d, tries[d]>> \notin Range(buffer) \union UNION fed
      BY <3>1 DEF BufferOK, CopyInv
    <3>3. <<d, tries[d]>> # copy
      BY <3>1
    <3> HIDE DEF copy, batch
    <3> QED  BY <1>0, <2>1, <2>2, <3>2, <3>3
  <2> HIDE DEF copy, batch
  <2>5. CopyInv'
    BY <1>0, <2>1, <2>3, <2>4 DEF CopyInv
  <2>6. fed' \subseteq SUBSET Copies
    BY <1>0, <2>1, <2>2, RangeFinite
  <2> QED  BY <1>0, <2>1, <2>5, <2>6 DEF BufferOK, NothingStranded
<1>3. CASE Timer
  <2>1. /\ timers > 0 /\ timers' = timers - 1 /\ buffer' = <<>> /\ fed' = fed \union {Range(buffer)}
    BY <1>3 DEF Timer, Flush
  <2>2. Range(buffer') \union UNION fed' \subseteq Range(buffer) \union UNION fed
    BY <1>0, <2>1
  <2>3. CopyInv'
    BY <1>0, <1>a, <2>1, <2>2 DEF CopyInv
  <2>4. fed' \subseteq SUBSET Copies
    BY <1>0, <2>1, RangeFinite
  <2> QED  BY <1>0, <2>1, <2>3, <2>4 DEF BufferOK, NothingStranded
<1>4. CASE Crash
  <2>1. /\ timers' = 0 /\ buffer' = <<>> /\ fed' = fed
    BY <1>4 DEF Crash
  <2>2. Range(buffer') \union UNION fed' \subseteq Range(buffer) \union UNION fed
    BY <1>0, <2>1
  <2>3. CopyInv'
    BY <1>0, <1>a, <2>1, <2>2 DEF CopyInv
  <2> QED  BY <1>0, <2>1, <2>3 DEF BufferOK, NothingStranded
<1>5. CASE UNCHANGED <<buffer, timers, fed>>
  <2>1. CopyInv'
    BY <1>a, <1>5 DEF CopyInv, BufferOK
  <2> QED  BY <1>0, <1>5, <2>1 DEF BufferOK, NothingStranded
<1> QED  BY <1>1, <1>2, <1>3, <1>4, <1>5, BufferUntouched

(***************************************************************************)
(* Flushes.                                                                *)
(***************************************************************************)

\* A flush is a record that has all the edges of the chains it is to write.
Shape(f) ==
  /\ f \in FlushRecords /\ f.todo # <<>>
  /\ \A c \in Range(f.todo) : Range(EdgesOf(c)) \subseteq Range(f.edges)

\* The edges of a chain.
LEMMA EdgesType ==
  ASSUME NEW c \in Seq(Copies)
  PROVE  /\ EdgesOf(c) \in Seq(Copies \X Copies)
         /\ \A n \in 1..(Len(c) - 1) : <<c[n], c[n + 1]>> \in Range(EdgesOf(c))
<1> DEFINE m == Len(c) - 1
           s == EdgesOf(c)
<1>1. s = [n \in 1..m |-> <<c[n], c[n + 1]>>]
  BY DEF EdgesOf
<1>2. \A n \in 1..m : <<c[n], c[n + 1]>> \in Copies \X Copies
  OBVIOUS
<1>3. s \in Seq(Copies \X Copies)
  <2> DEFINE value(n) == <<c[n], c[n + 1]>>
  <2>1. \A n \in 1..m : value(n) \in Copies \X Copies
    BY <1>2
  <2>2. s = [n \in 1..m |-> value(n)]
    BY <1>1
  <2> DEFINE k == IF m < 0 THEN 0 ELSE m
  <2>3. k \in Nat /\ 1..m = 1..k
    OBVIOUS
  <2> HIDE DEF value, m, s, k
  <2>4. s = [n \in 1..k |-> value(n)] /\ \A n \in 1..k : value(n) \in Copies \X Copies
    BY <2>1, <2>2, <2>3
  <2> QED  BY <2>3, <2>4
<1>4. ASSUME NEW n \in 1..m PROVE <<c[n], c[n + 1]>> \in Range(s)
  <2>1. n \in DOMAIN s /\ s[n] = <<c[n], c[n + 1]>>
    BY <1>1
  <2> HIDE DEF s, m
  <2> QED  BY <2>1 DEF Range
<1> QED  BY <1>3, <1>4

\* The first element of a sequence and the others.
LEMMA HeadAndRest ==
  ASSUME NEW S, NEW s \in Seq(S), s # <<>>
  PROVE  /\ Head(s) \in S /\ Head(s) \in Range(s)
         /\ Tail(s) \in Seq(S) /\ (Len(s) # 1 => Tail(s) # <<>>)
         /\ Len(s) = 1 => Range(Tail(s)) = {}
         /\ Range(s) = {Head(s)} \union Range(Tail(s))
<1>1. Len(s) \in Nat \ {0} /\ DOMAIN s = 1..Len(s) /\ Head(s) = s[1]
  OBVIOUS
<1>2. /\ Tail(s) \in Seq(S) /\ Len(Tail(s)) = Len(s) - 1 /\ DOMAIN Tail(s) = 1..(Len(s) - 1)
      /\ \A i \in 1..(Len(s) - 1) : Tail(s)[i] = s[i + 1]
  OBVIOUS
<1>3. ASSUME NEW x \in Range(s) PROVE x \in {Head(s)} \union Range(Tail(s))
  <2>1. PICK i \in 1..Len(s) : x = s[i]
    BY <1>1 DEF Range
  <2>2. CASE i = 1
    BY <1>1, <2>1, <2>2
  <2>3. CASE i # 1
    <3>1. i - 1 \in 1..(Len(s) - 1) /\ (i - 1) + 1 = i
      BY <1>1, <2>3
    <3> QED  BY <1>2, <2>1, <3>1 DEF Range
  <2> QED  BY <2>2, <2>3
<1>4. ASSUME NEW x \in Range(Tail(s)) PROVE x \in Range(s)
  <2>1. PICK i \in 1..(Len(s) - 1) : x = s[i + 1]
    BY <1>2 DEF Range
  <2>2. i + 1 \in DOMAIN s
    BY <1>1
  <2> QED  BY <2>1, <2>2 DEF Range
<1>5. Head(s) \in Range(s) /\ Head(s) \in S
  BY <1>1 DEF Range
<1>6. Len(s) # 1 => Tail(s) # <<>>
  BY <1>1, <1>2
<1>7. Len(s) = 1 => Range(Tail(s)) = {}
  <2>1. Len(s) = 1 => DOMAIN Tail(s) = {}
    BY <1>2
  <2> QED  BY <2>1 DEF Range
<1> QED  BY <1>2, <1>3, <1>4, <1>5, <1>6, <1>7

\* The flush a batch starts.
LEMMA NewFlush ==
  ASSUME NEW batch \in Seq(Copies), IsInjective(batch), NEW caller \in Events \union {0},
         Correlate(batch) # <<>>
  PROVE  LET found == Correlate(batch)
             f == [todo |-> found, row |-> FALSE, caller |-> caller,
                   edges |-> FlattenSeq([n \in DOMAIN found |-> EdgesOf(found[n])])]
         IN  Shape(f) /\ f.todo = found /\ f.row = FALSE /\ f.caller = caller
<1> DEFINE found == Correlate(batch)
           lists == [n \in DOMAIN found |-> EdgesOf(found[n])]
<1>1. found \in Seq(Seq(Copies)) /\ found # <<>>
  BY CorrelateFinds
<1> HIDE DEF found
<1>2. /\ DOMAIN found = 1..Len(found) /\ Len(found) \in Nat
      /\ \A n \in 1..Len(found) : found[n] \in Seq(Copies)
  BY <1>1
<1>3. /\ lists \in Seq(Seq(Copies \X Copies)) /\ Len(lists) = Len(found)
      /\ \A n \in 1..Len(found) : lists[n] = EdgesOf(found[n])
  <2> DEFINE value(n) == EdgesOf(found[n])
  <2>1. \A n \in 1..Len(found) : value(n) \in Seq(Copies \X Copies)
    BY <1>2, EdgesType
  <2>2. lists = [n \in 1..Len(found) |-> value(n)]
    BY <1>2
  <2>3. \A n \in 1..Len(found) : lists[n] = EdgesOf(found[n])
    BY <2>2
  <2> HIDE DEF value, lists
  <2>4. lists \in Seq(Seq(Copies \X Copies)) /\ Len(lists) = Len(found)
    BY <1>2, <2>1, <2>2
  <2> QED  BY <2>3, <2>4
<1> HIDE DEF lists
<1>4. /\ FlattenSeq(lists) \in Seq(Copies \X Copies)
      /\ \A n \in 1..Len(lists) : Range(lists[n]) \subseteq Range(FlattenSeq(lists))
  BY <1>3, FlattenType
<1>5. ASSUME NEW c \in Range(found) PROVE Range(EdgesOf(c)) \subseteq Range(FlattenSeq(lists))
  <2>1. PICK n \in 1..Len(found) : c = found[n]
    BY <1>2 DEF Range
  <2> QED  BY <1>3, <1>4, <2>1
<1> DEFINE f == [todo |-> found, row |-> FALSE, caller |-> caller, edges |-> FlattenSeq(lists)]
<1>6. f.todo = found /\ f.row = FALSE /\ f.caller = caller /\ f.edges = FlattenSeq(lists)
  OBVIOUS
<1>7. f \in FlushRecords
  BY <1>1, <1>4 DEF FlushRecords
<1> HIDE DEF f
<1>8. Shape(f)
  BY <1>1, <1>4, <1>5, <1>6, <1>7 DEF Shape
<1> QED  BY <1>6, <1>8 DEF f, found, lists

\* The flush after the row of a chain is written.
LEMMA RowFlush ==
  ASSUME NEW f, Shape(f)
  PROVE  LET g == [f EXCEPT !.row = TRUE] IN
         Shape(g) /\ g.todo = f.todo /\ g.row = TRUE /\ g.caller = f.caller /\ g.edges = f.edges
<1> DEFINE g == [f EXCEPT !.row = TRUE]
<1>1. f \in FlushRecords
  BY DEF Shape
<1>2. /\ g \in FlushRecords
      /\ g.todo = f.todo /\ g.row = TRUE /\ g.caller = f.caller /\ g.edges = f.edges
  BY <1>1 DEF FlushRecords
<1> HIDE DEF g
<1>3. Shape(g)
  BY <1>2 DEF Shape
<1> QED  BY <1>2, <1>3 DEF g

\* The flush after a chain is written, if it has more of them.
LEMMA RestFlush ==
  ASSUME NEW f, Shape(f), Len(f.todo) # 1
  PROVE  LET g == [f EXCEPT !.row = FALSE, !.todo = Tail(@)] IN
         /\ Shape(g) /\ g.todo = Tail(f.todo) /\ g.row = FALSE
         /\ g.caller = f.caller /\ g.edges = f.edges
<1> DEFINE g == [f EXCEPT !.row = FALSE, !.todo = Tail(@)]
<1>1. f \in FlushRecords /\ f.todo \in Seq(Seq(Copies)) /\ f.todo # <<>>
  BY DEF Shape, FlushRecords
<1>2. /\ Tail(f.todo) \in Seq(Seq(Copies)) /\ Tail(f.todo) # <<>>
      /\ Range(Tail(f.todo)) \subseteq Range(f.todo)
  BY <1>1, HeadAndRest
<1>3. /\ g \in FlushRecords
      /\ g.todo = Tail(f.todo) /\ g.row = FALSE /\ g.caller = f.caller /\ g.edges = f.edges
  BY <1>1, <1>2 DEF FlushRecords
<1> HIDE DEF g
<1>4. Shape(g)
  BY <1>2, <1>3 DEF Shape
<1> QED  BY <1>3, <1>4 DEF g

(***************************************************************************)
(* What a step does to the flushes.                                        *)
(***************************************************************************)

\* The calls that await a flush still do.
AwaitersStay == \A e \in Events : <<e, "flush">> \in calls => <<e, "flush">> \in calls'

\* A flush of a batch that the engine was not given before.
Starts(batch, caller) ==
  /\ batch \in Seq(Copies) /\ IsInjective(batch) /\ Range(batch) \intersect UNION fed = {}
  /\ caller \in Events \union {0} /\ Flush(batch, caller)
  /\ Correlate(batch) # <<>> /\ caller # 0 => <<caller, "flush">> \in calls' \ calls

\* A step leaves the flushes alone, starts one, goes on with one or kills all.
LEMMA FlushCases ==
  ASSUME BusOK, BufferOK, [Next]_vars
  PROVE  \/ AwaitersStay /\ UNCHANGED <<flushes, store, fed, lost>>
         \/ AwaitersStay /\ UNCHANGED <<store, lost>> /\ \E batch, caller : Starts(batch, caller)
         \/ \E f \in flushes : Write(f)
         \/ Crash
<1>1. ASSUME NEW e \in Events, Publish(e) \/ DeadLetter(e)
      PROVE  AwaitersStay /\ UNCHANGED <<flushes, store, fed, lost>>
  BY <1>1 DEF Publish, DeadLetter, Enter, AwaitersStay, store, config
<1>2. ASSUME NEW e \in Events, NEW h \in {"open", "correlate"}, Deliver(e, h)
      PROVE  AwaitersStay /\ UNCHANGED <<flushes, store, fed, lost>>
  BY <1>2 DEF Deliver, Enter, AwaitersStay, store, config
<1>3. ASSUME NEW e \in Events, OpenIncident(e) \/ CreateFails(e) \/ Buffer(e)
      PROVE  AwaitersStay /\ UNCHANGED <<flushes, store, fed, lost>>
  BY <1>3 DEF OpenIncident, CreateFails, Buffer, Goto, Harmless, AwaitersStay, store, config
<1>4. ASSUME NEW e \in Events, Ack(e)
      PROVE  AwaitersStay /\ UNCHANGED <<flushes, store, fed, lost>>
  BY <1>4 DEF Ack, CallsOf, Harmless, AwaitersStay, store, config
<1>5. ASSUME NEW e \in Events, BufferFull(e)
      PROVE  AwaitersStay /\ UNCHANGED <<store, lost>> /\ \E batch, caller : Starts(batch, caller)
  <2> DEFINE copy == <<e, tries[e]>>
             batch == Append(buffer, copy)
  <2>1. /\ <<e, "correlate">> \in calls /\ Flush(batch, e) /\ UNCHANGED <<store, lost>>
        /\ Goto(e, "correlate", IF Awaits(batch) THEN "flush" ELSE "returned")
    BY <1>5 DEF BufferFull, store, config
  <2>2. /\ copy \notin UNION fed /\ batch \in Seq(Copies)
        /\ Range(batch) = Range(buffer) \union {copy} /\ IsInjective(batch)
    BY <2>1, BatchGrows
  <2>3. <<e, "flush">> \notin calls
    BY <2>1 DEF BusOK, CallInv
  <2> HIDE DEF copy, batch
  <2>4. Range(batch) \intersect UNION fed = {}
    BY <2>2 DEF BufferOK, CopyInv
  <2>5. Correlate(batch) # <<>> => <<e, "flush">> \in calls'
    BY <2>1 DEF Goto, Awaits
  <2>6. AwaitersStay
    BY <2>1 DEF AwaitersStay, Goto
  <2>7. Starts(batch, e)
    BY <2>1, <2>2, <2>3, <2>4, <2>5 DEF Starts
  <2> QED  BY <2>1, <2>6, <2>7
<1>6. CASE Timer
  <2>1. AwaitersStay /\ UNCHANGED <<store, lost>> /\ Flush(buffer, 0)
    BY <1>6 DEF Timer, AwaitersStay, store, config
  <2>2. Starts(buffer, 0)
    BY <2>1 DEF Starts, BufferOK, CopyInv
  <2> QED  BY <2>1, <2>2
<1>7. CASE UNCHANGED vars
  BY <1>7 DEF vars, AwaitersStay, store
<1> QED  BY <1>1, <1>2, <1>3, <1>4, <1>5, <1>6, <1>7 DEF Next, Handle

\* The flushes under way, and the calls that await them.
FlushesOK ==
  /\ \A f \in flushes : /\ Shape(f) /\ (f.row => Head(f.todo) \in chains)
                        /\ (f.caller # 0 => <<f.caller, "flush">> \in calls)
  /\ \A f, g \in flushes : f.caller = g.caller /\ f.caller # 0 => f = g

\* What a flush leaves behind: nothing if it ends, else one with its caller.
LEMMA WriteShape ==
  ASSUME FlushesOK, NEW f \in flushes, NEW rest, EndFlush(f, rest),
         rest = {} \/ \E g : /\ rest = {g} /\ Shape(g) /\ g.caller = f.caller
                             /\ (g.row => Head(g.todo) \in chains'),
         chains \subseteq chains'
  PROVE  FlushesOK'
<1>1. flushes' = (flushes \ {f}) \union rest
  BY DEF EndFlush
<1>2. f.caller \in Events \union {0}
  BY DEF FlushesOK, Shape, FlushRecords
<1>3. CASE rest = {}
  <2>1. flushes' = flushes \ {f}
    BY <1>1, <1>3
  <2>2. ASSUME NEW h \in flushes' PROVE h.caller # 0 => <<h.caller, "flush">> \in calls'
    <3>1. h \in flushes /\ (h.caller # 0 => h.caller # f.caller)
      BY <2>1 DEF FlushesOK
    <3>2. h.caller # 0 => <<h.caller, "flush">> \in calls
      BY <3>1 DEF FlushesOK
    <3> QED  BY <1>3, <3>1, <3>2 DEF EndFlush, Goto
  <2> QED  BY <2>1, <2>2 DEF FlushesOK, Shape, FlushRecords
<1>4. CASE rest # {}
  <2>1. PICK g : /\ rest = {g} /\ Shape(g) /\ g.caller = f.caller
                 /\ (g.row => Head(g.todo) \in chains')
    BY <1>4
  <2>2. calls' = calls
    BY <1>4 DEF EndFlush
  <2>3. ASSUME NEW h \in flushes'
        PROVE  /\ Shape(h) /\ (h.row => Head(h.todo) \in chains')
               /\ (h.caller # 0 => <<h.caller, "flush">> \in calls')
    <3>1. CASE h \in flushes
      BY <2>2, <3>1 DEF FlushesOK
    <3>2. CASE h = g
      BY <2>1, <2>2, <3>2 DEF FlushesOK
    <3> QED  BY <1>1, <2>1, <3>1, <3>2
  <2>4. ASSUME NEW h \in flushes', NEW k \in flushes', h.caller = k.caller, h.caller # 0
        PROVE  h = k
    BY <1>1, <2>1, <2>4 DEF FlushesOK
  <2> QED  BY <2>3, <2>4 DEF FlushesOK
<1> QED  BY <1>3, <1>4

\* Every step keeps the flushes and their calls together.
LEMMA FlushesStep ==
  ASSUME BusOK, BufferOK, FlushesOK, [Next]_vars
  PROVE  FlushesOK'
<1>0. ASSUME NEW f \in flushes PROVE f.caller \in Events \union {0}
  BY DEF FlushesOK, Shape, FlushRecords
<1>1. CASE AwaitersStay /\ UNCHANGED <<flushes, store, fed, lost>>
  BY <1>0, <1>1 DEF FlushesOK, AwaitersStay, store
<1>2. ASSUME AwaitersStay, UNCHANGED <<store, lost>>, NEW batch, NEW caller, Starts(batch, caller)
      PROVE  FlushesOK'
  <2> DEFINE found == Correlate(batch)
             g == [todo |-> found, row |-> FALSE, caller |-> caller,
                   edges |-> FlattenSeq([n \in DOMAIN found |-> EdgesOf(found[n])])]
  <2>1. ASSUME NEW h \in flushes
        PROVE  /\ Shape(h) /\ (h.row => Head(h.todo) \in chains')
               /\ (h.caller # 0 => <<h.caller, "flush">> \in calls')
    BY <1>0, <1>2 DEF FlushesOK, AwaitersStay, store
  <2>2. CASE found = <<>>
    <3>1. flushes' = flushes
      BY <1>2, <2>2 DEF Starts, Flush
    <3> QED  BY <2>1, <3>1 DEF FlushesOK
  <2>3. CASE found # <<>>
    <3>1. flushes' = flushes \union {g}
      BY <1>2, <2>3 DEF Starts, Flush
    <3>2. Shape(g) /\ g.row = FALSE /\ g.caller = caller
      BY <1>2, <2>3, NewFlush DEF Starts
    <3>3. caller # 0 => <<caller, "flush">> \in calls' /\ <<caller, "flush">> \notin calls
      BY <1>2, <2>3 DEF Starts
    <3> HIDE DEF g
    <3>4. ASSUME NEW h \in flushes'
          PROVE  /\ Shape(h) /\ (h.row => Head(h.todo) \in chains')
                 /\ (h.caller # 0 => <<h.caller, "flush">> \in calls')
      BY <2>1, <3>1, <3>2, <3>3
    <3>5. ASSUME NEW h \in flushes', NEW k \in flushes', h.caller = k.caller, h.caller # 0
          PROVE  h = k
      <4>1. ASSUME NEW l \in flushes PROVE l.caller # 0 => l.caller # caller
        BY <3>3 DEF FlushesOK
      <4> QED  BY <3>1, <3>2, <3>5, <4>1 DEF FlushesOK
    <3> QED  BY <3>4, <3>5 DEF FlushesOK
  <2> QED  BY <2>2, <2>3
<1>3. ASSUME NEW f \in flushes, StoreChain(f) PROVE FlushesOK'
  <2> DEFINE g == [f EXCEPT !.row = TRUE]
  <2>1. /\ chains' = chains \union {Head(f.todo)} /\ flushes' = (flushes \ {f}) \union {g}
        /\ calls' = calls
    BY <1>3 DEF StoreChain
  <2>2. Shape(g) /\ g.todo = f.todo /\ g.caller = f.caller
    BY RowFlush DEF FlushesOK
  <2> HIDE DEF g
  <2>3. ASSUME NEW h \in flushes'
        PROVE  /\ Shape(h) /\ (h.row => Head(h.todo) \in chains')
               /\ (h.caller # 0 => <<h.caller, "flush">> \in calls')
    <3>1. CASE h \in flushes
      BY <2>1, <3>1 DEF FlushesOK
    <3>2. CASE h = g
      BY <2>1, <2>2, <3>2 DEF FlushesOK
    <3> QED  BY <2>1, <3>1, <3>2
  <2>4. ASSUME NEW h \in flushes', NEW k \in flushes', h.caller = k.caller, h.caller # 0
        PROVE  h = k
    BY <2>1, <2>2, <2>4 DEF FlushesOK
  <2> QED  BY <2>3, <2>4 DEF FlushesOK
<1>4. ASSUME NEW f \in flushes, StoreEdges(f) PROVE FlushesOK'
  <2> DEFINE g == [f EXCEPT !.row = FALSE, !.todo = Tail(@)]
  <2>1. EndFlush(f, IF Len(f.todo) = 1 THEN {} ELSE {g}) /\ chains' = chains
    BY <1>4 DEF StoreEdges
  <2>2. CASE Len(f.todo) = 1
    BY <2>1, <2>2, WriteShape
  <2>3. CASE Len(f.todo) # 1
    <3>1. Shape(g) /\ g.row = FALSE /\ g.caller = f.caller
      BY <2>3, RestFlush DEF FlushesOK
    <3>2. EndFlush(f, {g})
      BY <2>1, <2>3
    <3> HIDE DEF g
    <3> QED  BY <2>1, <3>1, <3>2, WriteShape
  <2> QED  BY <2>2, <2>3
<1>5. ASSUME NEW f \in flushes, FlushFails(f) PROVE FlushesOK'
  <2>1. EndFlush(f, {}) /\ chains' = chains
    BY <1>5 DEF FlushFails
  <2> QED  BY <2>1, WriteShape
<1>6. CASE Crash
  BY <1>6 DEF Crash, FlushesOK
<1> QED  BY <1>1, <1>2, <1>3, <1>4, <1>5, <1>6, FlushCases DEF Write

(***************************************************************************)
(* The chains, stored and to be stored.                                    *)
(***************************************************************************)

\* Each chain is causal, was handed to the engine, and shares no copy.
WrittenOK ==
  /\ \A c \in Written : /\ c \in Seq(Copies) /\ c # <<>> /\ Causal(c) /\ IsInjective(c)
                        /\ Range(c) \subseteq UNION fed
  /\ \A c, d \in Written : c # d => Range(c) \intersect Range(d) = {}

\* A write moves chains from its flush to the store and adds none; a batch
\* adds what the engine found in it.
LEMMA WrittenMoves ==
  ASSUME BusOK, BufferOK, FlushesOK, [Next]_vars
  PROVE  \/ Written' = Written /\ fed' = fed /\ lost' = lost
         \/ Written' \subseteq Written /\ fed' = fed /\ lost'
         \/ /\ lost' = lost
            /\ \E batch, caller : /\ Starts(batch, caller) /\ fed' = fed \union {Range(batch)}
                                  /\ Written' = Written \union Range(Correlate(batch))
<1>1. CASE AwaitersStay /\ UNCHANGED <<flushes, store, fed, lost>>
  BY <1>1 DEF Written, store
<1>2. ASSUME UNCHANGED <<store, lost>>, NEW batch, NEW caller, Starts(batch, caller)
      PROVE  /\ fed' = fed \union {Range(batch)} /\ lost' = lost
             /\ Written' = Written \union Range(Correlate(batch))
  <2> DEFINE found == Correlate(batch)
             g == [todo |-> found, row |-> FALSE, caller |-> caller,
                   edges |-> FlattenSeq([n \in DOMAIN found |-> EdgesOf(found[n])])]
  <2>1. fed' = fed \union {Range(batch)} /\ chains' = chains /\ lost' = lost
    BY <1>2 DEF Starts, Flush, store
  <2>2. CASE found = <<>>
    <3>1. flushes' = flushes
      BY <1>2, <2>2 DEF Starts, Flush
    <3>2. Range(found) = {}
      BY <2>2 DEF Range
    <3> QED  BY <2>1, <3>1, <3>2 DEF Written
  <2>3. CASE found # <<>>
    <3>1. flushes' = flushes \union {g}
      BY <1>2, <2>3 DEF Starts, Flush
    <3>2. g.todo = found
      OBVIOUS
    <3> HIDE DEF g, found
    <3>3. Written' = Written \union Range(found)
      BY <2>1, <3>1, <3>2 DEF Written
    <3> QED  BY <2>1, <3>3 DEF found
  <2> QED  BY <2>2, <2>3
<1>3. ASSUME NEW f \in flushes
      PROVE  /\ Head(f.todo) \in Range(f.todo)
             /\ Range(f.todo) = {Head(f.todo)} \union Range(Tail(f.todo))
             /\ Len(f.todo) = 1 => Range(Tail(f.todo)) = {}
  <2>1. f.todo \in Seq(Seq(Copies)) /\ f.todo # <<>>
    BY DEF FlushesOK, Shape, FlushRecords
  <2> DEFINE s == f.todo
  <2> HIDE DEF s
  <2>2. s \in Seq(Seq(Copies)) /\ s # <<>>
    BY <2>1 DEF s
  <2>3. /\ Head(s) \in Range(s) /\ Range(s) = {Head(s)} \union Range(Tail(s))
        /\ Len(s) = 1 => Range(Tail(s)) = {}
    BY <2>2, HeadAndRest
  <2> QED  BY <2>3 DEF s
<1>4. ASSUME NEW f \in flushes, StoreChain(f)
      PROVE  Written' = Written /\ fed' = fed /\ lost' = lost
  <2> DEFINE g == [f EXCEPT !.row = TRUE]
  <2>1. /\ chains' = chains \union {Head(f.todo)} /\ flushes' = (flushes \ {f}) \union {g}
        /\ fed' = fed /\ lost' = lost
    BY <1>4 DEF StoreChain, config
  <2>2. g.todo = f.todo
    BY RowFlush DEF FlushesOK
  <2> HIDE DEF g
  <2>3. UNION {Range(h.todo) : h \in flushes'} = UNION {Range(h.todo) : h \in flushes}
    BY <2>1, <2>2
  <2> QED  BY <1>3, <2>1, <2>3 DEF Written
<1>5. ASSUME NEW f \in flushes, StoreEdges(f)
      PROVE  Written' = Written /\ fed' = fed /\ lost' = lost
  <2> DEFINE g == [f EXCEPT !.row = FALSE, !.todo = Tail(@)]
  <2>1. /\ EndFlush(f, IF Len(f.todo) = 1 THEN {} ELSE {g}) /\ chains' = chains /\ f.row
        /\ fed' = fed /\ lost' = lost
    BY <1>5 DEF StoreEdges, config
  <2>2. Head(f.todo) \in chains
    BY <2>1 DEF FlushesOK
  <2>3. CASE Len(f.todo) = 1
    <3>1. flushes' = flushes \ {f} /\ Range(f.todo) = {Head(f.todo)}
      BY <1>3, <2>1, <2>3 DEF EndFlush
    <3> QED  BY <2>1, <2>2, <3>1 DEF Written
  <2>4. CASE Len(f.todo) # 1
    <3>1. flushes' = (flushes \ {f}) \union {g}
      BY <2>1, <2>4 DEF EndFlush
    <3>2. g.todo = Tail(f.todo)
      BY <2>4, RestFlush DEF FlushesOK
    <3> HIDE DEF g
    <3>3. Range(f.todo) = {Head(f.todo)} \union Range(g.todo)
      BY <1>3, <3>2
    <3> QED  BY <2>1, <2>2, <3>1, <3>3 DEF Written
  <2> QED  BY <2>3, <2>4
<1>6. ASSUME NEW f \in flushes, FlushFails(f)
      PROVE  Written' \subseteq Written /\ fed' = fed /\ lost'
  <2>1. flushes' \subseteq flushes /\ chains' = chains /\ fed' = fed /\ lost'
    BY <1>6 DEF FlushFails, EndFlush, Losing
  <2> QED  BY <2>1 DEF Written
<1>7. CASE Crash
  <2>1. flushes' = {} /\ chains' = chains /\ fed' = fed /\ lost'
    BY <1>7 DEF Crash, Losing, store
  <2> QED  BY <2>1 DEF Written
<1> QED  BY <1>1, <1>2, <1>4, <1>5, <1>6, <1>7, FlushCases DEF Write

\* Every step keeps the chains so.
LEMMA WrittenStep ==
  ASSUME BusOK, BufferOK, FlushesOK, WrittenOK, [Next]_vars
  PROVE  WrittenOK'
<1>1. CASE Written' = Written /\ fed' = fed
  BY <1>1 DEF WrittenOK
<1>2. CASE Written' \subseteq Written /\ fed' = fed
  BY <1>2 DEF WrittenOK
<1>3. ASSUME NEW batch, NEW caller, Starts(batch, caller), fed' = fed \union {Range(batch)},
             Written' = Written \union Range(Correlate(batch))
      PROVE  WrittenOK'
  <2> DEFINE found == Correlate(batch)
  <2>1. batch \in Seq(Copies) /\ IsInjective(batch) /\ Range(batch) \intersect UNION fed = {}
    BY <1>3 DEF Starts
  <2>2. /\ found \in Seq(Seq(Copies))
        /\ \A c \in Range(found) : /\ c # <<>> /\ Causal(c) /\ IsInjective(c)
                                   /\ Range(c) \subseteq Range(batch)
        /\ \A c, d \in Range(found) : c # d => Range(c) \intersect Range(d) = {}
    BY <2>1, CorrelateFinds
  <2> HIDE DEF found
  <2>3. Range(found) \subseteq Seq(Copies)
    BY <2>2, RangeFinite
  <2>4. UNION fed' = (UNION fed) \union Range(batch)
    BY <1>3
  <2>5. ASSUME NEW c \in Written'
        PROVE  /\ c \in Seq(Copies) /\ c # <<>> /\ Causal(c) /\ IsInjective(c)
               /\ Range(c) \subseteq UNION fed'
    BY <1>3, <2>2, <2>3, <2>4 DEF WrittenOK, found
  <2>6. ASSUME NEW c \in Written', NEW d \in Written', c # d
        PROVE  Range(c) \intersect Range(d) = {}
    <3>1. \A a \in Written, b \in Range(found) : Range(a) \intersect Range(b) = {}
      BY <2>1, <2>2 DEF WrittenOK
    <3>2. (c \in Written \/ c \in Range(found)) /\ (d \in Written \/ d \in Range(found))
      BY <1>3 DEF found
    <3>3. CASE c \in Written /\ d \in Written
      BY <2>6, <3>3 DEF WrittenOK
    <3>4. CASE c \in Range(found) /\ d \in Range(found)
      BY <2>2, <2>6, <3>4
    <3> QED  BY <3>1, <3>2, <3>3, <3>4
  <2> QED  BY <2>5, <2>6 DEF WrittenOK
<1> QED  BY <1>1, <1>2, <1>3, WrittenMoves

\* What waited together stays in one chain.
LEMMA WaitingStep ==
  ASSUME BusOK, BufferOK, FlushesOK, WaitingIsCorrelated, [Next]_vars
  PROVE  WaitingIsCorrelated'
<1> SUFFICES ASSUME ~lost', NEW d \in UNION fed', NEW e \in UNION fed', d # e,
                    KeyOf[d[1]] = KeyOf[e[1]], Together(d, e)'
             PROVE  \E c \in Written' : {d, e} \subseteq Range(c)
  BY DEF WaitingIsCorrelated
<1>1. CASE Written' = Written /\ fed' = fed /\ lost' = lost
  BY <1>1 DEF WaitingIsCorrelated, Together
<1>2. ASSUME lost' = lost, NEW batch, NEW caller, Starts(batch, caller),
             fed' = fed \union {Range(batch)}, Written' = Written \union Range(Correlate(batch))
      PROVE  \E c \in Written' : {d, e} \subseteq Range(c)
  <2>1. PICK together \in fed' : {d, e} \subseteq together
    BY DEF Together
  <2>2. CASE together \in fed
    <3>1. d \in UNION fed /\ e \in UNION fed /\ Together(d, e)
      BY <2>1, <2>2 DEF Together
    <3>2. PICK c \in Written : {d, e} \subseteq Range(c)
      BY <1>2, <3>1 DEF WaitingIsCorrelated
    <3> QED  BY <1>2, <3>2
  <2>3. CASE together = Range(batch)
    <3>1. batch \in Seq(Copies) /\ IsInjective(batch)
      BY <1>2 DEF Starts
    <3>2. d \in Range(batch) /\ e \in Range(batch)
      BY <2>1, <2>3
    <3>3. PICK c \in Range(Correlate(batch)) : {d, e} \subseteq Range(c)
      BY <3>1, <3>2, CorrelateFinds
    <3> QED  BY <1>2, <3>3
  <2> QED  BY <1>2, <2>1, <2>2, <2>3
<1> QED  BY <1>1, <1>2, WrittenMoves

(***************************************************************************)
(* The edges.                                                              *)
(***************************************************************************)

StoredOK ==
  /\ chains \subseteq Seq(Copies) /\ edges \subseteq Copies \X Copies \X Copies
  /\ ChainsLinked

\* The edges inserted with a chain.
LEMMA InsertType ==
  ASSUME NEW f, Shape(f), NEW n \in 0..Len(f.edges), Insert(f, n),
         Head(f.todo) # <<>>, edges \subseteq Copies \X Copies \X Copies
  PROVE  edges \subseteq edges' /\ edges' \subseteq Copies \X Copies \X Copies
<1>1. f.edges \in Seq(Copies \X Copies) /\ f.todo \in Seq(Seq(Copies)) /\ f.todo # <<>>
  BY DEF Shape, FlushRecords
<1>2. Head(f.todo) \in Seq(Copies)
  BY <1>1, HeadAndRest
<1>3. PICK root \in Copies : root = Head(f.todo)[1]
  BY <1>2
<1>4. ASSUME NEW i \in 1..n PROVE <<root, f.edges[i][1], f.edges[i][2]>> \in Copies \X Copies \X Copies
  <2>1. f.edges[i] \in Copies \X Copies
    BY <1>1
  <2> QED  BY <2>1
<1>5. edges' = edges \union {<<root, f.edges[i][1], f.edges[i][2]>> : i \in 1..n}
  BY <1>3 DEF Insert
<1> QED  BY <1>4, <1>5

\* With all the edges of its flush a chain is linked.
LEMMA InsertLinks ==
  ASSUME NEW f, Shape(f), Insert(f, Len(f.edges)), NEW c, c = Head(f.todo),
         NEW n \in 1..(Len(c) - 1)
  PROVE  <<c[1], c[n], c[n + 1]>> \in edges'
<1>1. f.edges \in Seq(Copies \X Copies) /\ f.todo \in Seq(Seq(Copies)) /\ f.todo # <<>>
  BY DEF Shape, FlushRecords
<1>2. c \in Seq(Copies) /\ c \in Range(f.todo)
  BY <1>1, HeadAndRest
<1>3. <<c[n], c[n + 1]>> \in Range(f.edges)
  BY <1>2, EdgesType DEF Shape
<1>4. PICK i \in 1..Len(f.edges) : f.edges[i] = <<c[n], c[n + 1]>>
  <2> DEFINE s == f.edges
  <2> HIDE DEF s
  <2>1. s \in Seq(Copies \X Copies) /\ <<c[n], c[n + 1]>> \in Range(s)
    BY <1>1, <1>3 DEF s
  <2>2. DOMAIN s = 1..Len(s)
    BY <2>1
  <2>3. \E i \in 1..Len(s) : s[i] = <<c[n], c[n + 1]>>
    BY <2>1, <2>2 DEF Range
  <2> QED  BY <2>3 DEF s
<1>5. f.edges[i][1] = c[n] /\ f.edges[i][2] = c[n + 1]
  BY <1>4
<1> QED  BY <1>4, <1>5 DEF Insert

\* Every step keeps the stored chains linked.
LEMMA StoredStep ==
  ASSUME BusOK, BufferOK, FlushesOK, WrittenOK, StoredOK, [Next]_vars
  PROVE  StoredOK'
<1>0. ASSUME NEW f \in flushes
      PROVE  /\ Shape(f) /\ f.todo \in Seq(Seq(Copies)) /\ f.todo # <<>>
             /\ Head(f.todo) \in Seq(Copies) /\ Head(f.todo) # <<>>
  <2>1. Shape(f) /\ f.todo \in Seq(Seq(Copies)) /\ f.todo # <<>>
    BY DEF FlushesOK, Shape, FlushRecords
  <2>2. Head(f.todo) \in Seq(Copies) /\ Head(f.todo) \in Range(f.todo)
    BY <2>1, HeadAndRest
  <2>3. Head(f.todo) \in Written
    BY <2>2 DEF Written
  <2> QED  BY <2>1, <2>2, <2>3 DEF WrittenOK
<1>1. CASE UNCHANGED <<flushes, store, lost>>
  BY <1>1 DEF StoredOK, ChainsLinked, store
<1>2. ASSUME UNCHANGED <<store, lost>>, NEW batch, NEW caller, Starts(batch, caller)
      PROVE  StoredOK'
  <2>1. flushes \subseteq flushes'
    BY <1>2 DEF Starts, Flush
  <2> QED  BY <1>2, <2>1 DEF StoredOK, ChainsLinked, store
<1>3. ASSUME NEW f \in flushes, StoreChain(f) PROVE StoredOK'
  <2> DEFINE g == [f EXCEPT !.row = TRUE]
             c == Head(f.todo)
  <2>1. /\ chains' = chains \union {c} /\ flushes' = (flushes \ {f}) \union {g} /\ ~f.row
        /\ edges' = edges /\ lost' = lost
    BY <1>3 DEF StoreChain, config
  <2>2. g.todo = f.todo /\ g.row
    BY <1>0, RowFlush
  <2> HIDE DEF g
  <2>3. ASSUME ~lost', NEW d \in chains'
        PROVE  \/ \E h \in flushes' : h.row /\ Head(h.todo) = d
               \/ \A n \in 1..(Len(d) - 1) : <<d[1], d[n], d[n + 1]>> \in edges'
    <3>1. CASE d = c
      BY <2>1, <2>2, <3>1
    <3>2. CASE d \in chains
      BY <2>1, <2>3, <3>2 DEF StoredOK, ChainsLinked
    <3> QED  BY <2>1, <3>1, <3>2
  <2>4. chains' \subseteq Seq(Copies)
    BY <1>0, <2>1 DEF StoredOK
  <2> QED  BY <2>1, <2>3, <2>4 DEF StoredOK, ChainsLinked
<1>4. ASSUME NEW f \in flushes, StoreEdges(f) PROVE StoredOK'
  <2> DEFINE c == Head(f.todo)
  <2>1. /\ Insert(f, Len(f.edges)) /\ chains' = chains /\ lost' = lost
        /\ flushes \ {f} \subseteq flushes'
    BY <1>4 DEF StoreEdges, EndFlush, config
  <2>2. Len(f.edges) \in 0..Len(f.edges)
    <3>1. f.edges \in Seq(Copies \X Copies)
      BY <1>0 DEF Shape, FlushRecords
    <3> QED  BY <3>1
  <2>3. edges \subseteq edges' /\ edges' \subseteq Copies \X Copies \X Copies
    BY <1>0, <2>1, <2>2, InsertType DEF StoredOK
  <2>4. ASSUME ~lost', NEW d \in chains'
        PROVE  \/ \E h \in flushes' : h.row /\ Head(h.todo) = d
               \/ \A n \in 1..(Len(d) - 1) : <<d[1], d[n], d[n + 1]>> \in edges'
    <3>1. CASE d = c
      BY <1>0, <2>1, <3>1, InsertLinks
    <3>2. CASE d # c
      BY <2>1, <2>3, <2>4, <3>2 DEF StoredOK, ChainsLinked
    <3> QED  BY <3>1, <3>2
  <2> QED  BY <2>1, <2>3, <2>4 DEF StoredOK, ChainsLinked
<1>5. ASSUME NEW f \in flushes, FlushFails(f) PROVE StoredOK'
  <2>1. /\ chains' = chains /\ lost'
        /\ edges' = edges \/ \E n \in 0..(Len(f.edges) - 1) : Insert(f, n)
    BY <1>5 DEF FlushFails, Losing
  <2>2. edges' \subseteq Copies \X Copies \X Copies
    <3>1. CASE edges' = edges
      BY <3>1 DEF StoredOK
    <3>2. ASSUME NEW n \in 0..(Len(f.edges) - 1), Insert(f, n)
          PROVE  edges' \subseteq Copies \X Copies \X Copies
      <4>1. f.edges \in Seq(Copies \X Copies)
        BY <1>0 DEF Shape, FlushRecords
      <4>2. n \in 0..Len(f.edges)
        BY <4>1
      <4> QED  BY <1>0, <3>2, <4>2, InsertType DEF StoredOK
    <3> QED  BY <2>1, <3>1, <3>2
  <2> QED  BY <2>1, <2>2 DEF StoredOK, ChainsLinked
<1>6. CASE Crash
  BY <1>6 DEF Crash, Losing, StoredOK, ChainsLinked, store
<1> QED  BY <1>1, <1>2, <1>3, <1>4, <1>5, <1>6, FlushCases DEF Write

(***************************************************************************)
(* The invariant.                                                          *)
(***************************************************************************)

\* The invariant is the conjunction of the parts the steps were shown to keep.
LEMMA IInvParts ==
  IInv <=> BusOK /\ BufferOK /\ FlushesOK /\ WrittenOK /\ WaitingIsCorrelated /\ StoredOK
<1>1. ASSUME IInv
      PROVE  BusOK /\ BufferOK /\ FlushesOK /\ WrittenOK /\ WaitingIsCorrelated /\ StoredOK
  <2>1. BusOK
    BY <1>1 DEF IInv, TypeOK, BusOK, Kinds
  <2>2. BufferOK
    BY <1>1 DEF IInv, TypeOK, BufferOK, BuffersSound
  <2>3. FlushesOK
    BY <1>1 DEF IInv, TypeOK, FlushInv, FlushesOK, Shape
  <2>4. StoredOK
    BY <1>1 DEF IInv, TypeOK, StoredOK
  <2>5. ASSUME NEW c \in Written PROVE c \in Seq(Copies)
    <3>1. CASE c \in chains
      BY <2>4, <3>1 DEF StoredOK
    <3>2. ASSUME NEW f \in flushes, c \in Range(f.todo) PROVE c \in Seq(Copies)
      <4>1. f.todo \in Seq(Seq(Copies))
        BY <2>3 DEF FlushesOK, Shape, FlushRecords
      <4> QED  BY <3>2, <4>1, RangeFinite
    <3> QED  BY <3>1, <3>2 DEF Written
  <2>6. WrittenOK
    BY <1>1, <2>5 DEF IInv, FlushInv, OneChainPerCopy, WrittenOK
  <2> QED  BY <1>1, <2>1, <2>2, <2>3, <2>4, <2>6 DEF IInv, BuffersSound
<1>2. ASSUME BusOK, BufferOK, FlushesOK, WrittenOK, WaitingIsCorrelated, StoredOK
      PROVE  IInv
  <2>1. TypeOK
    BY <1>2 DEF TypeOK, BusOK, Kinds, BufferOK, FlushesOK, Shape, StoredOK
  <2>2. FlushInv
    BY <1>2 DEF FlushInv, FlushesOK, Shape, WrittenOK
  <2>3. OneChainPerCopy
    BY <1>2 DEF OneChainPerCopy, WrittenOK, BufferOK, CopyInv
  <2> QED  BY <1>2, <2>1, <2>2, <2>3 DEF IInv, BusOK, BufferOK, BuffersSound, StoredOK
<1> QED  BY <1>1, <1>2

\* The service starts with nothing buffered and nothing written.
LEMMA InitEstablishes == Init => IInv
<1> SUFFICES ASSUME Init PROVE IInv
  OBVIOUS
<1>1. /\ MaxDeliveries \in Nat /\ MaxFaults \in Nat /\ FlushAt \in Nat \ {0}
      /\ Transports \subseteq BOOLEAN
  BY EventsAssumption
<1>2. BusOK
  <2>1. CallInv
    BY DEF Init, CallInv
  <2>2. /\ state \in [Events -> {"unpublished", "pending", "acked", "dead"}]
        /\ tries \in [Events -> 0..MaxDeliveries] /\ incidents \in [Events -> Nat]
    BY <1>1 DEF Init
  <2>3. calls \subseteq Events \X Kinds /\ faults \in 0..MaxFaults
    BY <1>1 DEF Init
  <2>4. lost \in BOOLEAN /\ redis \in BOOLEAN
    BY <1>1 DEF Init
  <2> QED  BY <2>1, <2>2, <2>3, <2>4 DEF BusOK
<1>3. Range(<<>>) = {} /\ IsInjective(<<>>)
  BY DEF Range, IsInjective
<1>4. BufferOK
  BY <1>1, <1>3 DEF Init, BufferOK, CopyInv, NothingStranded
<1>5. FlushesOK /\ StoredOK /\ WaitingIsCorrelated
  BY DEF Init, FlushesOK, StoredOK, ChainsLinked, WaitingIsCorrelated
<1>6. Written = {}
  BY DEF Init, Written
<1>7. WrittenOK
  BY <1>6 DEF WrittenOK
<1> QED  BY <1>2, <1>4, <1>5, <1>7, IInvParts

\* Every step keeps the invariant.
LEMMA StepPreserves == IInv /\ [Next]_vars => IInv'
<1> SUFFICES ASSUME IInv, [Next]_vars PROVE IInv'
  OBVIOUS
<1>1. BusOK /\ BufferOK /\ FlushesOK /\ WrittenOK /\ WaitingIsCorrelated /\ StoredOK
  BY IInvParts
<1>2. \A f \in flushes : /\ f.caller \in Events \union {0}
                         /\ (f.caller # 0 => <<f.caller, "flush">> \in calls)
  BY <1>1 DEF FlushesOK, Shape, FlushRecords
<1>3. BusOK'
  BY <1>1, <1>2, BusStep
<1>4. BufferOK'
  BY <1>1, <1>3, BufferStep
<1>5. FlushesOK' /\ WrittenOK' /\ WaitingIsCorrelated' /\ StoredOK'
  BY <1>1, FlushesStep, WrittenStep, WaitingStep, StoredStep
<1>6. (IInv <=> BusOK /\ BufferOK /\ FlushesOK /\ WrittenOK /\ WaitingIsCorrelated /\ StoredOK)'
  BY IInvParts, PTL
<1> QED  BY <1>3, <1>4, <1>5, <1>6

\* The invariant holds whatever is delivered, buffered, flushed and rejected.
THEOREM Inductive == Spec => []IInv
BY InitEstablishes, StepPreserves, PTL DEF Spec

\* Every variable has its type: the buffer stays shorter than FlushAt, and the
\* call that awaits a flush is under way (correlation.listener.ts).
THEOREM TypeCorrect == Spec => []TypeOK
<1>1. IInv => TypeOK
  BY DEF IInv
<1> QED  BY <1>1, Inductive, PTL

\* What is buffered has a flush ahead, and what waited together is in one
\* chain unless a write was rejected or the process died.
THEOREM BuffersSoundCorrect == Spec => []BuffersSound
<1>1. IInv => BuffersSound
  BY DEF IInv
<1> QED  BY <1>1, Inductive, PTL

\* A stored chain runs from cause to effect, has its edges once it is written,
\* and shares no copy with another (correlation-engine.ts).
THEOREM ChainsSoundCorrect == Spec => []ChainsSound
<1>1. IInv => ChainsSound
  <2>1. IInv => ChainsCausal
    BY DEF IInv, FlushInv, Written, ChainsCausal
  <2> QED  BY <2>1 DEF IInv, ChainsSound
<1> QED  BY <1>1, Inductive, PTL

\* The call that opens an incident leaves its step only with the incident.
LEMMA OpenStep ==
  ASSUME BusOK, [Next]_vars, NEW e \in Critical,
         <<e, "open">> \in calls \ calls', <<e, "returned">> \in calls'
  PROVE  incidents'[e] > 0 \/ (~redis /\ faults' > faults)
<1>0. e \in Events
  BY EventsAssumption
<1>1. CASE <<e, "open">> \in calls'
  BY <1>1
<1>2. ASSUME NEW d \in Events, OpenIncident(d) PROVE incidents'[e] > 0
  <2>1. Goto(d, "open", "returned") /\ (d \in Critical => incidents' = [incidents EXCEPT ![d] = @ + 1])
    BY <1>2 DEF OpenIncident
  <2>2. d = e
    BY <2>1 DEF Goto
  <2> QED  BY <1>0, <2>1, <2>2 DEF BusOK
<1>3. ASSUME NEW d \in Events, CreateFails(d) PROVE ~redis /\ faults' > faults
  <2>1. /\ faults' = faults + 1
        /\ redis => calls' = calls \ {<<d, "open">>}
    BY <1>3 DEF CreateFails, Harmless, Fault
  <2>2. ~redis
    BY <2>1 DEF BusOK, CallInv
  <2> QED  BY <2>1, <2>2 DEF BusOK
<1>4. ASSUME NEW d \in Events, Publish(d) \/ DeadLetter(d) \/ Buffer(d) \/ BufferFull(d) \/ Ack(d)
      PROVE  <<e, "open">> \in calls'
  BY <1>4 DEF Publish, DeadLetter, Buffer, BufferFull, Ack, Goto, Enter, CallsOf
<1>5. ASSUME NEW d \in Events, NEW h \in {"open", "correlate"}, Deliver(d, h)
      PROVE  <<e, "open">> \in calls'
  BY <1>5 DEF Deliver, Enter
<1>6. ASSUME NEW f \in flushes, Write(f) PROVE <<e, "open">> \in calls'
  BY <1>6 DEF Write, StoreChain, StoreEdges, FlushFails, EndFlush, Goto
<1>7. ASSUME Timer \/ UNCHANGED vars PROVE <<e, "open">> \in calls'
  BY <1>7 DEF Timer, vars
<1>8. ~Crash
  BY DEF Crash
<1> QED  BY <1>1, <1>2, <1>3, <1>4, <1>5, <1>6, <1>7, <1>8 DEF Next, Handle

\* The incident listener's call returns only once its incident exists; only the
\* in-memory bus gives a rejected create up (listeners/index.ts).
THEOREM OpenedCorrect == Spec => OpenedBeforeReturn
<1>1. IInv /\ [Next]_vars =>
        [\A e \in Critical :
           <<e, "open">> \in calls \ calls' /\ <<e, "returned">> \in calls' =>
             incidents'[e] > 0 \/ (~redis /\ faults' > faults)]_vars
  BY IInvParts, OpenStep
<1> QED  BY <1>1, Inductive, PTL DEF Spec, OpenedBeforeReturn

=============================================================================

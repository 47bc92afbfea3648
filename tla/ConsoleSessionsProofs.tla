----------------------- MODULE ConsoleSessionsProofs -----------------------
(***************************************************************************)
(* Theorems about ConsoleSessions for any routes, parameters and bounds.   *)
(***************************************************************************)
EXTENDS ConsoleSessions, TLAPS

\* What the bounds have to be for a first page and a first session.
Bounds == MaxSerial \in Nat \ {0} /\ MaxSessions \in Nat \ {0} /\ MaxPolls \in Nat

\* Of one call: it is a mock's or a request as live says, only a choice has a
\* parameter, what is awaited is what was chosen last, a task that is polled
\* again may be, and a task is given samples only if their path is recorded.
CallSound(c) ==
  /\ c.step = "sample" <=> ~live
  /\ c.load \notin Chosen => c.of = None
  /\ Awaited(c) => c.of = choice[c.load]
  /\ c.step = "wait" => c.polls < MaxPolls
  /\ live /\ c.from = Sample =>
       /\ c.load \in {"run", "apply"}
       /\ <<PathOf["run"], None>> \in failures

CallsSound ==
  /\ \A l \in Loads \ Chosen : choice[l] = None
  /\ \A c \in calls : CallSound(c)

IInv == TypeOK /\ ConsoleSound /\ CallsSound

-----------------------------------------------------------------------------
(***************************************************************************)
(* Lemmas about the parts of a step.                                       *)
(***************************************************************************)

\* The fields of a call that is under way.
LEMMA CallTyped ==
  ASSUME TypeOK, Bounds, NEW c \in calls
  PROVE  /\ c.load \in Loads /\ c.id \in 1 .. serial /\ c.of \in Parameters \union {None}
         /\ c.auth \in 0 .. sessions /\ c.auth \in Data /\ c.from \in Data
         /\ c.polls \in 0 .. MaxPolls /\ c.id # None
         /\ c.step \in {"sample", "get", "post", "wait", "poll"}
  BY DEF TypeOK, CallRecords, None, Data, Nothing, Bounds

\* The vulnerabilities have one path, whoever asks for them.
LEMMA OnePath == PathOf["apply"] = PathOf["run"] /\ PathOf["run"] = "/vulnerabilities"
  BY DEF PathOf

\* What no choice is about.
LEMMA NotChosen == {"run", "apply", "export", "integrations"} \cap Chosen = {}
  BY DEF Chosen

\* The loads there always are.
LEMMA AlwaysLoads ==
  /\ {"run", "apply", "export", "integrations"} \subseteq Loads
  /\ \A r \in Visited : LoadsOn(r) \subseteq Loads
  BY DEF Loads

\* A call remains well typed while mounts, loads and sessions are counted.
LEMMA StillRecords ==
  ASSUME TypeOK, serial' \in Nat, serial' >= serial, sessions' \in Nat, sessions' >= sessions
  PROVE  calls \subseteq CallRecords'
<1>1. 1 .. serial \subseteq 1 .. serial' /\ 0 .. sessions \subseteq 0 .. sessions'
  BY DEF TypeOK
<1>2. CallRecords \subseteq CallRecords'
  BY <1>1 DEF CallRecords
<1> QED  BY <1>2 DEF TypeOK

\* An answer is shown, or discarded.
LEMMA SettleStep ==
  ASSUME IInv, Bounds, NEW c \in calls, NEW data \in Data, Settle(c, data), calls' = calls \ {c},
         UNCHANGED <<live, authVars>>, failures \subseteq failures',
         Awaited(c) /\ live =>
           /\ data \in {Nothing, Failed, Empty, Sample, token}
           /\ data = Sample => c.load # "export" /\ <<PathOf[c.load], c.of>> \in failures'
  PROVE  IInv'
<1> USE DEF IInv
<1>1. TypeOK /\ c.load \in Loads /\ c.of \in Parameters \union {None} /\ c.id # None
  BY CallTyped
<1>2. UNCHANGED <<live, token, authRequired, login, sessions, route, tab, choice, serial>>
  BY DEF Settle, authVars
<1>3. CASE Awaited(c)
  <2>1. /\ shown' = [shown EXCEPT ![c.load] = [data |-> data, of |-> c.of]]
        /\ wanted' = [wanted EXCEPT ![c.load] = None]
    BY <1>3 DEF Settle, Awaited
  <2>2. /\ shown'[c.load] = [data |-> data, of |-> c.of] /\ wanted'[c.load] = None
        /\ \A l \in Loads \ {c.load} : shown'[l] = shown[l] /\ wanted'[l] = wanted[l]
    BY <1>1, <2>1 DEF TypeOK
  <2>3. \A d \in calls' : /\ d \in calls /\ d.load \in Loads
                          /\ Awaited(d)' => Awaited(d) /\ d.load # c.load
    BY CallTyped, <1>1, <2>2 DEF Awaited
  <2>4. TypeOK'
    <3>1. calls' \subseteq CallRecords'
      BY <1>2 DEF TypeOK, CallRecords
    <3>2. shown' \in [Loads -> [data : Data, of : Parameters \union {None}]]
      BY <1>1, <2>1 DEF TypeOK
    <3>3. wanted' \in [Loads -> 0 .. serial]
      BY <1>1, <2>1 DEF TypeOK, None
    <3> QED  BY <1>2, <3>1, <3>2, <3>3 DEF TypeOK
  <2>5. CallsSound'
    BY <1>2, <2>3 DEF CallsSound, CallSound
  <2>6. SamplesFlagged'
    <3> SUFFICES ASSUME live, NEW l \in Loads, shown'[l].data = Sample
                 PROVE  /\ Degraded' /\ <<PathOf[l], shown'[l].of>> \in failures'
                        /\ l # "export"
      BY <1>2 DEF SamplesFlagged
    <3>1. <<PathOf[l], shown'[l].of>> \in failures' /\ l # "export"
      <4>1. CASE l = c.load
        BY <1>3, <2>2, <4>1
      <4>2. CASE l # c.load
        BY <2>2, <4>2 DEF ConsoleSound, SamplesFlagged
      <4> QED  BY <4>1, <4>2
    <3> QED  BY <3>1 DEF Degraded
  <2>7. OwnSession'
    <3> SUFFICES ASSUME live PROVE OwnSession'
      BY <1>2 DEF OwnSession
    <3>1. token # None
      BY <1>1, <1>3 DEF ConsoleSound, OwnSession, Awaited
    <3> QED  BY <1>2, <1>3, <2>2, <2>3, <3>1 DEF ConsoleSound, OwnSession
  <2>8. LatestChoice'
    <3> SUFFICES ASSUME NEW l \in Loads
                 PROVE  /\ wanted'[l] = None =>
                             shown'[l].data = Nothing \/ shown'[l].of = choice[l]
                        /\ wanted'[l] # None =>
                             \E d \in calls' : d.load = l /\ Awaited(d)' /\ d.of = choice[l]
      BY <1>2 DEF LatestChoice
    <3>1. CASE l = c.load
      BY <1>3, <2>2, <3>1 DEF CallsSound, CallSound
    <3>2. CASE l # c.load
      BY <1>1, <2>2, <3>2 DEF ConsoleSound, LatestChoice, Awaited
    <3> QED  BY <3>1, <3>2
  <2> QED
    BY <1>2, <2>4, <2>5, <2>6, <2>7, <2>8 DEF ConsoleSound, RequiredOnlyWithout
<1>4. CASE ~Awaited(c)
  <2>1. UNCHANGED <<shown, wanted>>
    BY <1>4 DEF Settle, Awaited
  <2>2. \A d \in calls' : d \in calls /\ (Awaited(d)' <=> Awaited(d))
    BY <2>1 DEF Awaited
  <2>3. TypeOK'
    BY <1>2, <2>1 DEF TypeOK, CallRecords
  <2>4. CallsSound'
    BY <1>2, <2>2 DEF CallsSound, CallSound
  <2>5. SamplesFlagged' /\ OwnSession'
    BY <1>2, <2>1, <2>2 DEF ConsoleSound, SamplesFlagged, OwnSession, Degraded
  <2>6. LatestChoice'
    <3>1. \A d \in calls : Awaited(d) => d \in calls' /\ Awaited(d)'
      BY <1>4, <2>1 DEF Awaited
    <3> QED  BY <1>2, <2>1, <3>1 DEF ConsoleSound, LatestChoice
  <2> QED
    BY <1>2, <2>3, <2>4, <2>5, <2>6 DEF ConsoleSound, RequiredOnlyWithout
<1> QED  BY <1>3, <1>4

\* A call goes on as one or several others of the same load.
LEMMA ReplaceStep ==
  ASSUME IInv, Bounds, NEW c \in calls, NEW N \in SUBSET CallRecords, N # {},
         calls' = (calls \ {c}) \union N,
         UNCHANGED <<live, authVars, pageVars>>, failures \subseteq failures',
         \A n \in N :
           /\ n.load = c.load /\ n.id = c.id /\ n.of = c.of
           /\ n.step = "sample" <=> ~live
           /\ n.step = "wait" => n.polls < MaxPolls
           /\ live /\ n.from = Sample =>
                n.load \in {"run", "apply"} /\ <<PathOf["run"], None>> \in failures'
           /\ live /\ Awaited(c) => n.auth = token /\ n.from \in {Nothing, Sample, token}
  PROVE  IInv'
<1> USE DEF IInv
<1>1. UNCHANGED <<live, token, authRequired, login, sessions, route, tab, choice, wanted,
                  shown, serial>>
  BY DEF authVars, pageVars
<1>2. \A n \in N : n \in calls' /\ (Awaited(n)' <=> Awaited(c))
  BY <1>1 DEF Awaited
<1>3. \A d \in calls' : \/ d \in calls /\ (Awaited(d)' <=> Awaited(d))
                        \/ d \in N
  BY <1>1 DEF Awaited
<1>4. TypeOK'
  BY <1>1 DEF TypeOK, CallRecords
<1>5. CallsSound'
  BY <1>1, <1>2, <1>3 DEF CallsSound, CallSound
<1>6. SamplesFlagged' /\ RequiredOnlyWithout'
  BY <1>1 DEF ConsoleSound, SamplesFlagged, RequiredOnlyWithout, Degraded
<1>7. OwnSession'
  BY <1>1, <1>2, <1>3 DEF ConsoleSound, OwnSession
<1>8. LatestChoice'
  <2> SUFFICES ASSUME NEW l \in Loads, wanted[l] # None
               PROVE  \E d \in calls' : d.load = l /\ Awaited(d)' /\ d.of = choice[l]
    BY <1>1 DEF ConsoleSound, LatestChoice
  <2>1. PICK d \in calls : d.load = l /\ Awaited(d) /\ d.of = choice[l]
    BY DEF ConsoleSound, LatestChoice
  <2>2. CASE d = c
    <3>1. PICK n \in N : TRUE
      OBVIOUS
    <3> QED  BY <1>2, <2>1, <2>2, <3>1
  <2>3. CASE d # c
    BY <1>1, <2>1, <2>3 DEF Awaited
  <2> QED  BY <2>2, <2>3
<1> QED  BY <1>4, <1>5, <1>6, <1>7, <1>8 DEF ConsoleSound

\* No call is awaited by a page that has just come or gone.
LEMMA NewPage ==
  ASSUME TypeOK, Bounds, NEW d \in calls,
         \A l \in Loads : wanted'[l] \in {None, serial + 1}
  PROVE  ~Awaited(d)'
<1>1. d.load \in Loads /\ d.id \in 1 .. serial /\ serial \in Nat
  BY CallTyped DEF TypeOK
<1> QED  BY <1>1 DEF Awaited, None

\* A page is mounted.
LEMMA MountStep ==
  ASSUME IInv, Bounds, NEW r \in Visited, NEW left \in SUBSET calls, Mount(r, left),
         live' = live, login' \in BOOLEAN, sessions' \in 0 .. MaxSessions, sessions' >= sessions,
         token' \in 0 .. sessions', live => token' # None, authRequired' = FALSE,
         left = {} \/ failures \subseteq failures'
  PROVE  IInv'
<1> USE DEF IInv
<1> DEFINE N == {Started(l, serial + 1, None) : l \in LoadsOn(r)}
<1>1. /\ serial \in Nat /\ serial' = serial + 1 /\ serial' \in 1 .. MaxSerial /\ serial' # None
      /\ route' = r /\ tab' = FALSE
      /\ choice' = [l \in Loads |-> None] /\ shown' = [l \in Loads |-> Blank]
      /\ wanted' = [l \in Loads |-> IF l \in LoadsOn(r) THEN serial + 1 ELSE None]
      /\ calls' = left \union N
  BY DEF Mount, TypeOK, Bounds, None
<1>2. LoadsOn(r) \subseteq Loads
  BY AlwaysLoads
<1>3. /\ \A n \in N : /\ n.load \in LoadsOn(r) /\ n.id = serial + 1 /\ n.of = None
                      /\ n.step = IF live THEN "get" ELSE "sample"
                      /\ n.auth = token' /\ n.from = Nothing
                      /\ n \in CallRecords'
      /\ \A l \in LoadsOn(r) : \E n \in N : n.load = l
  <2>1. ASSUME NEW l \in LoadsOn(r)
        PROVE  LET n == Started(l, serial + 1, None)
               IN  /\ n.load = l /\ n.id = serial + 1 /\ n.of = None
                   /\ n.step = IF live THEN "get" ELSE "sample"
                   /\ n.auth = token' /\ n.from = Nothing
                   /\ n \in CallRecords'
    BY <1>1, <1>2 DEF CallRecords, Started, Call, Data, Nothing, Bounds
  <2> QED  BY <2>1
<1> HIDE DEF N
<1>4. /\ \A d \in left : d \in calls /\ ~Awaited(d)'
      /\ \A n \in N : n \in calls' /\ Awaited(n)'
  <2>1. \A l \in Loads : wanted'[l] \in {None, serial + 1}
    BY <1>1
  <2>2. \A d \in left : d \in calls /\ ~Awaited(d)'
    BY <2>1, NewPage
  <2> QED  BY <1>1, <1>2, <1>3, <2>2 DEF Awaited
<1>5. TypeOK'
  <2>1. left \subseteq CallRecords'
    BY <1>1, StillRecords DEF TypeOK
  <2>2. shown' \in [Loads -> [data : Data, of : Parameters \union {None}]]
    BY <1>1 DEF Blank, Data, Nothing, Bounds
  <2>3. wanted' \in [Loads -> 0 .. serial']
    BY <1>1 DEF None
  <2> QED  BY <1>1, <1>3, <2>1, <2>2, <2>3 DEF TypeOK
<1>6. CallsSound'
  <2>1. ASSUME NEW d \in left PROVE CallSound(d)'
    BY <1>4, <2>1 DEF CallsSound, CallSound
  <2>2. ASSUME NEW n \in N PROVE CallSound(n)'
    BY <1>1, <1>2, <1>3 DEF CallSound, Nothing, Sample
  <2> QED  BY <1>1, <2>1, <2>2 DEF CallsSound
<1>7. SamplesFlagged' /\ RequiredOnlyWithout'
  BY <1>1 DEF SamplesFlagged, RequiredOnlyWithout, Blank, Nothing, Sample
<1>8. OwnSession'
  BY <1>1, <1>3, <1>4 DEF OwnSession, Blank
<1>9. LatestChoice'
  <2>1. \A l \in Loads : choice'[l] = None /\ shown'[l].of = None
                         /\ (wanted'[l] # None => l \in LoadsOn(r))
    BY <1>1 DEF Blank
  <2> QED  BY <1>3, <1>4, <2>1 DEF LatestChoice
<1> QED  BY <1>5, <1>6, <1>7, <1>8, <1>9 DEF ConsoleSound

\* The page goes away.
LEMMA UnmountStep ==
  ASSUME IInv, Bounds, Unmount, calls' \in SUBSET calls, UNCHANGED <<live, sessions>>,
         login' \in BOOLEAN, authRequired' \in BOOLEAN, token' \in 0 .. sessions,
         authRequired' => live /\ token' = None,
         calls' = {} \/ failures \subseteq failures'
  PROVE  IInv'
<1> USE DEF IInv
<1>1. /\ UNCHANGED <<route, serial>> /\ tab' = FALSE
      /\ choice' = [l \in Loads |-> None] /\ shown' = [l \in Loads |-> Blank]
      /\ wanted' = [l \in Loads |-> None]
  BY DEF Unmount
<1>2. \A d \in calls' : d \in calls /\ ~Awaited(d)'
  BY <1>1, NewPage
<1>3. TypeOK'
  <2>1. calls' \subseteq CallRecords'
    BY <1>1 DEF TypeOK, CallRecords
  <2>2. shown' \in [Loads -> [data : Data, of : Parameters \union {None}]]
    BY <1>1 DEF Blank, Data, Nothing, Bounds
  <2>3. wanted' \in [Loads -> 0 .. serial']
    BY <1>1 DEF None, TypeOK
  <2> QED  BY <1>1, <2>1, <2>2, <2>3 DEF TypeOK
<1>4. CallsSound'
  BY <1>1, <1>2 DEF CallsSound, CallSound
<1>5. ConsoleSound'
  BY <1>1, <1>2 DEF ConsoleSound, SamplesFlagged, OwnSession, LatestChoice,
     RequiredOnlyWithout, Blank, Nothing, Sample
<1> QED  BY <1>3, <1>4, <1>5

\* One more load begins.
LEMMA LoadStep ==
  ASSUME IInv, Bounds, NEW l \in Loads, NEW p \in Parameters \union {None}, Load(l, p),
         l \notin Chosen => p = None,
         NEW step \in {"sample", "get", "post"}, step = "sample" <=> ~live,
         NEW kind \in {"read", "remediation.apply"}, NEW from \in Data,
         NEW n, n = Call(l, serial + 1, p, step, kind, token, from, 0),
         calls' = calls \union {n},
         live => token # None /\ from \in {Nothing, Sample, token},
         live /\ from = Sample => l \in {"run", "apply"} /\ <<PathOf["run"], None>> \in failures,
         tab' \in BOOLEAN, shown' = shown \/ shown' = [shown EXCEPT ![l] = Blank]
  PROVE  IInv'
<1> USE DEF IInv
<1>1. /\ UNCHANGED <<live, token, authRequired, login, sessions, failures, route>>
      /\ serial \in Nat /\ serial' = serial + 1 /\ serial' \in 1 .. MaxSerial
      /\ choice' = [choice EXCEPT ![l] = p] /\ wanted' = [wanted EXCEPT ![l] = serial + 1]
  BY DEF Load, authVars, TypeOK, Bounds
<1>2. /\ choice'[l] = p /\ wanted'[l] = serial + 1 /\ serial + 1 # None
      /\ \A m \in Loads \ {l} : /\ choice'[m] = choice[m] /\ wanted'[m] = wanted[m]
                                /\ shown'[m] = shown[m]
      /\ shown'[l] \in {shown[l], Blank}
  BY <1>1 DEF TypeOK, None
<1>3. /\ n.load = l /\ n.of = p /\ n.step = step /\ n.auth = token /\ n.from = from
      /\ Awaited(n)' /\ n \in CallRecords'
  <2>1. n.load = l /\ n.of = p /\ n.step = step /\ n.auth = token /\ n.from = from
        /\ n.id = serial + 1
    BY DEF Call
  <2>2. n \in CallRecords'
    BY <1>1 DEF CallRecords, Call, TypeOK, Bounds, None
  <2> QED  BY <1>2, <2>1, <2>2 DEF Awaited
<1>4. \A d \in calls : IF d.load = l THEN ~Awaited(d)' ELSE Awaited(d)' <=> Awaited(d)
  <2>1. ASSUME NEW d \in calls PROVE d.load \in Loads /\ d.id \in 1 .. serial
    BY CallTyped
  <2> QED  BY <1>1, <1>2, <2>1 DEF Awaited
<1>5. TypeOK'
  <2>1. calls' \subseteq CallRecords'
    <3>1. calls \subseteq CallRecords'
      BY <1>1, StillRecords DEF TypeOK
    <3> QED  BY <1>3, <3>1
  <2>2. shown' \in [Loads -> [data : Data, of : Parameters \union {None}]]
    BY <1>1 DEF TypeOK, Blank, Data, Nothing, Bounds
  <2>3. wanted' \in [Loads -> 0 .. serial']
    BY <1>1 DEF TypeOK
  <2>4. choice' \in [Loads -> Parameters \union {None}]
    BY <1>1 DEF TypeOK
  <2> QED  BY <1>1, <2>1, <2>2, <2>3, <2>4 DEF TypeOK
<1>6. CallsSound'
  <2>1. ASSUME NEW d \in calls PROVE CallSound(d)'
    <3>1. d.load \in Loads
      BY CallTyped
    <3> QED  BY <1>1, <1>2, <1>4, <3>1 DEF CallsSound, CallSound
  <2>2. CallSound(n)'
    BY <1>1, <1>2, <1>3 DEF CallSound
  <2>3. \A m \in Loads \ Chosen : choice'[m] = None
    BY <1>2 DEF CallsSound
  <2>4. \A d \in calls' : CallSound(d)'
    BY <1>3, <2>1, <2>2
  <2> QED  BY <2>3, <2>4 DEF CallsSound
<1>7. SamplesFlagged'
  BY <1>1, <1>2 DEF ConsoleSound, SamplesFlagged, Degraded, Blank, Nothing, Sample
<1>8. OwnSession'
  <2> SUFFICES ASSUME live PROVE OwnSession'
    BY <1>1 DEF OwnSession
  <2>1. \A m \in Loads : shown'[m].data \in {Nothing, Failed, Empty, Sample, token}
    BY <1>2 DEF ConsoleSound, OwnSession, Blank
  <2> QED  BY <1>1, <1>3, <1>4, <2>1 DEF ConsoleSound, OwnSession
<1>9. LatestChoice'
  <2>1. ASSUME NEW m \in Loads, m # l, wanted[m] # None
        PROVE  \E d \in calls' : d.load = m /\ Awaited(d)' /\ d.of = choice[m]
    <3>1. PICK d \in calls : d.load = m /\ Awaited(d) /\ d.of = choice[m]
      BY <2>1 DEF ConsoleSound, LatestChoice
    <3> QED  BY <1>3, <1>4, <2>1, <3>1
  <2>2. /\ wanted'[l] # None
        /\ \E d \in calls' : d.load = l /\ Awaited(d)' /\ d.of = choice'[l]
    BY <1>2, <1>3
  <2> QED  BY <1>2, <2>1, <2>2 DEF ConsoleSound, LatestChoice
<1>10. RequiredOnlyWithout'
  BY <1>1 DEF ConsoleSound, RequiredOnlyWithout
<1> QED  BY <1>5, <1>6, <1>7, <1>8, <1>9, <1>10 DEF ConsoleSound

\* A call is over whose outcome another call of the same load still awaits.
LEMMA DropStep ==
  ASSUME IInv, Bounds, NEW c \in calls, NEW d \in calls \ {c}, d.load = c.load, d.id = c.id,
         calls' = calls \ {c}, UNCHANGED <<live, authVars, failures, pageVars>>
  PROVE  IInv'
<1> USE DEF IInv
<1>1. UNCHANGED <<live, token, authRequired, login, sessions, route, tab, choice, wanted,
                  shown, serial, failures>>
  BY DEF authVars, pageVars
<1>2. \A e \in calls' : e \in calls /\ (Awaited(e)' <=> Awaited(e))
  BY <1>1 DEF Awaited
<1>3. TypeOK'
  BY <1>1 DEF TypeOK, CallRecords
<1>4. CallsSound'
  BY <1>1, <1>2 DEF CallsSound, CallSound
<1>5. SamplesFlagged' /\ OwnSession' /\ RequiredOnlyWithout'
  BY <1>1, <1>2 DEF ConsoleSound, SamplesFlagged, OwnSession, RequiredOnlyWithout, Degraded
<1>6. LatestChoice'
  <2> SUFFICES ASSUME NEW l \in Loads, wanted[l] # None
               PROVE  \E e \in calls' : e.load = l /\ Awaited(e)' /\ e.of = choice[l]
    BY <1>1 DEF ConsoleSound, LatestChoice
  <2>1. PICK e \in calls : e.load = l /\ Awaited(e) /\ e.of = choice[l]
    BY DEF ConsoleSound, LatestChoice
  <2>2. CASE e = c
    <3>1. Awaited(d) /\ d \in calls'
      BY <2>1, <2>2 DEF Awaited
    <3>2. d.of = choice[l]
      BY <2>1, <2>2, <3>1 DEF CallsSound, CallSound
    <3> QED  BY <1>2, <2>1, <2>2, <3>1, <3>2
  <2>3. CASE e # c
    BY <1>2, <2>1, <2>3
  <2> QED  BY <2>2, <2>3
<1> QED  BY <1>3, <1>4, <1>5, <1>6 DEF ConsoleSound

\* The Apply tab is closed, and its loads are cancelled.
LEMMA CloseTabStep ==
  ASSUME IInv, Bounds, CloseTab
  PROVE  IInv'
<1> USE DEF IInv
<1>1. /\ UNCHANGED <<live, token, authRequired, login, sessions, failures, route, choice,
                     calls, serial>>
      /\ tab' = FALSE
  BY DEF CloseTab, authVars
<1>2. \A l \in Loads :
        IF l \in {"integrations", "apply"} THEN wanted'[l] = None /\ shown'[l] = Blank
        ELSE wanted'[l] = wanted[l] /\ shown'[l] = shown[l]
  BY DEF CloseTab, TypeOK
<1>3. \A d \in calls : Awaited(d)' <=> Awaited(d) /\ d.load \notin {"integrations", "apply"}
  BY <1>1, <1>2, CallTyped DEF Awaited
<1>4. TypeOK'
  <2>1. wanted' \in [Loads -> 0 .. serial]
    <3>1. PICK w : w = [wanted EXCEPT !["integrations"] = None]
      OBVIOUS
    <3>2. None \in 0 .. serial
      BY DEF TypeOK, None, Bounds
    <3>4. w \in [Loads -> 0 .. serial]
      BY <3>1, <3>2 DEF TypeOK
    <3>3. wanted' = [w EXCEPT !["apply"] = None]
      BY <3>1 DEF CloseTab
    <3> QED  BY <3>2, <3>3, <3>4
  <2>2. shown' \in [Loads -> [data : Data, of : Parameters \union {None}]]
    <3>1. PICK w : w = [shown EXCEPT !["integrations"] = Blank]
      OBVIOUS
    <3>2. Blank \in [data : Data, of : Parameters \union {None}]
      BY DEF Blank, Data, Nothing, TypeOK, Bounds
    <3>3. w \in [Loads -> [data : Data, of : Parameters \union {None}]]
      BY <3>1, <3>2 DEF TypeOK
    <3>4. shown' = [w EXCEPT !["apply"] = Blank]
      BY <3>1 DEF CloseTab
    <3> QED  BY <3>2, <3>3, <3>4
  <2>3. CallRecords' = CallRecords
    BY <1>1 DEF CallRecords
  <2> QED  BY <1>1, <2>1, <2>2, <2>3 DEF TypeOK
<1>5. CallsSound'
  BY <1>1, <1>3 DEF CallsSound, CallSound
<1>6. SamplesFlagged'
  BY <1>1, <1>2 DEF ConsoleSound, SamplesFlagged, Degraded, Blank, Nothing, Sample
<1>7. OwnSession'
  BY <1>1, <1>2, <1>3 DEF ConsoleSound, OwnSession, Blank
<1>8. LatestChoice'
  BY <1>1, <1>2, <1>3 DEF ConsoleSound, LatestChoice, Blank
<1>9. RequiredOnlyWithout'
  BY <1>1 DEF ConsoleSound, RequiredOnlyWithout
<1> QED  BY <1>4, <1>5, <1>6, <1>7, <1>8, <1>9 DEF ConsoleSound

\* A login is submitted or fails, or the user of the samples logs out.
LEMMA SameView ==
  ASSUME IInv, Bounds, UNCHANGED <<live, sessions, failures, pageVars, calls>>,
         login' \in BOOLEAN,
         \/ UNCHANGED <<token, authRequired>>
         \/ ~live /\ token' = None /\ authRequired' = FALSE
  PROVE  IInv'
<1> USE DEF IInv
<1>1. UNCHANGED <<live, sessions, failures, route, tab, choice, wanted, shown, calls, serial>>
  BY DEF pageVars
<1>2. \A d \in calls : Awaited(d)' <=> Awaited(d)
  BY <1>1 DEF Awaited
<1>3. TypeOK'
  <2>1. CallRecords' = CallRecords
    BY <1>1 DEF CallRecords
  <2>2. token' \in 0 .. sessions /\ authRequired' \in BOOLEAN
    <3>1. token \in 0 .. sessions /\ authRequired \in BOOLEAN /\ 0 \in 0 .. sessions
      BY DEF TypeOK, Bounds
    <3> QED  BY <3>1 DEF None
  <2> QED  BY <1>1, <2>1, <2>2 DEF TypeOK
<1>4. CallsSound'
  BY <1>1, <1>2 DEF CallsSound, CallSound
<1>5. ConsoleSound'
  BY <1>1, <1>2 DEF ConsoleSound, SamplesFlagged, OwnSession, LatestChoice,
     RequiredOnlyWithout, Degraded
<1> QED  BY <1>3, <1>4, <1>5

-----------------------------------------------------------------------------
(***************************************************************************)
(* The first page, and the steps of Next.                                  *)
(***************************************************************************)

LEMMA InitIInv ==
  ASSUME Bounds, Init
  PROVE  IInv
<1> DEFINE N == IF ~Mounted THEN {}
                ELSE {Call(l, 1, None, IF live THEN "get" ELSE "sample", "read", token,
                           Nothing, 0) : l \in LoadsOn(route)}
<1>1. /\ live \in BOOLEAN /\ token \in {None, 1} /\ sessions = token
      /\ authRequired = FALSE /\ login = FALSE /\ failures = {}
      /\ route \in Visited /\ tab = FALSE
      /\ choice = [l \in Loads |-> None] /\ shown = [l \in Loads |-> Blank]
      /\ wanted = [l \in Loads |-> IF Mounted /\ l \in LoadsOn(route) THEN 1 ELSE None]
      /\ calls = N /\ serial = 1
  BY DEF Init
<1>2. LoadsOn(route) \subseteq Loads
  BY <1>1, AlwaysLoads
<1>3. /\ \A n \in N : /\ Mounted /\ n.load \in LoadsOn(route) /\ n.id = 1 /\ n.of = None
                      /\ n.step = IF live THEN "get" ELSE "sample"
                      /\ n.auth = token /\ n.from = Nothing
                      /\ n \in CallRecords
      /\ Mounted => \A l \in LoadsOn(route) : \E n \in N : n.load = l
  <2>1. ASSUME NEW l \in LoadsOn(route)
        PROVE  LET n == Call(l, 1, None, IF live THEN "get" ELSE "sample", "read", token,
                             Nothing, 0)
               IN  /\ n.load = l /\ n.id = 1 /\ n.of = None
                   /\ n.step = IF live THEN "get" ELSE "sample"
                   /\ n.auth = token /\ n.from = Nothing
                   /\ n \in CallRecords
    BY <1>1, <1>2 DEF CallRecords, Call, Data, Nothing, None, Bounds
  <2> QED  BY <2>1
<1> HIDE DEF N
<1>4. TypeOK
  <2>1. shown \in [Loads -> [data : Data, of : Parameters \union {None}]]
    BY <1>1 DEF Blank, Data, Nothing, Bounds
  <2>2. wanted \in [Loads -> 0 .. serial]
    BY <1>1 DEF None
  <2>3. /\ sessions \in 0 .. MaxSessions /\ token \in 0 .. sessions
        /\ serial \in 1 .. MaxSerial
    BY <1>1 DEF None, Bounds
  <2>4. choice \in [Loads -> Parameters \union {None}]
    BY <1>1
  <2> QED  BY <1>1, <1>3, <2>1, <2>2, <2>3, <2>4 DEF TypeOK
<1>5. CallsSound
  BY <1>1, <1>2, <1>3 DEF CallsSound, CallSound, Nothing, Sample
<1>6. SamplesFlagged /\ RequiredOnlyWithout
  BY <1>1 DEF SamplesFlagged, RequiredOnlyWithout, Blank, Nothing, Sample
<1>7. OwnSession
  BY <1>1, <1>3 DEF OwnSession, Blank, Mounted
<1>8. LatestChoice
  <2>1. \A l \in Loads : /\ choice[l] = None /\ shown[l].data = Nothing
                         /\ wanted[l] # None => Mounted /\ l \in LoadsOn(route)
    BY <1>1 DEF Blank
  <2>2. \A n \in N : n \in calls /\ Awaited(n)
    BY <1>1, <1>2, <1>3 DEF Awaited
  <2> QED  BY <1>3, <2>1, <2>2 DEF LatestChoice
<1> QED  BY <1>4, <1>5, <1>6, <1>7, <1>8 DEF IInv, ConsoleSound

\* Sessions begin and end, and pages with them.
LEMMA SessionSteps ==
  ASSUME IInv, Bounds,
         \/ SubmitLogin \/ LoggedIn \/ LoginFailed \/ Logout \/ Reload
         \/ \E r \in Visited : Navigate(r)
  PROVE  IInv'
<1>1. TypeOK /\ (live /\ authRequired => token = None) /\ (authRequired => live)
  BY DEF IInv, ConsoleSound, RequiredOnlyWithout
<1>2. CASE SubmitLogin
  BY <1>2, SameView DEF SubmitLogin
<1>3. CASE LoggedIn
  <2>1. /\ Mount(route, calls) /\ UNCHANGED <<live, failures>> /\ route \in Visited
        /\ login' = FALSE /\ authRequired' = FALSE
        /\ sessions' = sessions + 1 /\ token' = sessions + 1 /\ sessions < MaxSessions
    BY <1>1, <1>3 DEF LoggedIn, TypeOK
  <2>2. /\ sessions' \in 0 .. MaxSessions /\ sessions' >= sessions
        /\ token' \in 0 .. sessions' /\ token' # None
    BY <1>1, <2>1 DEF TypeOK, None, Bounds
  <2> QED  BY <2>1, <2>2, MountStep
<1>4. CASE LoginFailed
  BY <1>4, SameView DEF LoginFailed
<1>5. CASE Logout
  <2>1. CASE live
    <3>1. /\ Unmount /\ UNCHANGED <<live, login, sessions, failures, calls>>
          /\ token' = None /\ authRequired' = FALSE
      BY <1>5, <2>1 DEF Logout
    <3>2. login' \in BOOLEAN /\ token' \in 0 .. sessions
      BY <1>1, <3>1 DEF TypeOK, None
    <3> QED  BY <3>1, <3>2, UnmountStep
  <2>2. CASE ~live
    BY <1>1, <1>5, <2>2, SameView DEF Logout, TypeOK
  <2> QED  BY <2>1, <2>2
<1>6. CASE Reload
  <2>1. PICK kept \in {token, None} :
          /\ token' = kept
          /\ IF live /\ kept = None THEN Unmount /\ calls' = {} ELSE Mount(route, {})
    BY <1>6 DEF Reload
  <2>2. /\ authRequired' = FALSE /\ login' = FALSE /\ UNCHANGED <<live, sessions>>
        /\ token' \in 0 .. sessions
    BY <1>1, <1>6, <2>1 DEF Reload, TypeOK, None
  <2>3. CASE live /\ kept = None
    BY <2>1, <2>2, <2>3, UnmountStep
  <2>4. CASE ~(live /\ kept = None)
    <3>1. Mount(route, {}) /\ (live => token' # None)
      BY <2>1, <2>4
    <3>2. /\ route \in Visited /\ {} \in SUBSET calls
          /\ live' = live /\ login' \in BOOLEAN /\ authRequired' = FALSE
          /\ sessions' \in 0 .. MaxSessions /\ sessions' >= sessions
          /\ token' \in 0 .. sessions'
      <4>1. sessions \in 0 .. MaxSessions /\ sessions >= sessions /\ route \in Visited
        BY <1>1 DEF TypeOK, Bounds
      <4> QED  BY <2>2, <4>1
    <3> QED  BY <3>1, <3>2, MountStep
  <2> QED  BY <2>3, <2>4
<1>7. ASSUME NEW r \in Visited, Navigate(r) PROVE IInv'
  <2>1. /\ Mount(r, calls) /\ UNCHANGED <<live, login, sessions, failures, authRequired>>
        /\ token' = token /\ (~live \/ token # None)
    BY <1>7 DEF Navigate, Mounted
  <2>2. /\ live => token' # None
        /\ authRequired' = FALSE /\ login' \in BOOLEAN
        /\ sessions' \in 0 .. MaxSessions /\ sessions' >= sessions
        /\ token' \in 0 .. sessions'
    BY <1>1, <2>1 DEF TypeOK
  <2> QED  BY <2>1, <2>2, MountStep
<1> QED  BY <1>2, <1>3, <1>4, <1>5, <1>6, <1>7

\* Loads begin.
LEMMA LoadSteps ==
  ASSUME IInv, Bounds,
         \/ \E l \in Chosen \intersect Loads, p \in Parameters : Choose(l, p)
         \/ Export \/ RunAgain \/ OpenTab \/ Submit
  PROVE  IInv'
<1>1. /\ TypeOK /\ Nothing \in Data /\ Nothing # Sample /\ tab \in BOOLEAN
      /\ {"run", "apply", "export", "integrations"} \subseteq Loads \ Chosen
      /\ live => (token = None => \A l \in Loads : shown[l] = Blank /\ wanted[l] = None)
  BY AlwaysLoads, NotChosen
  DEF IInv, ConsoleSound, OwnSession, TypeOK, Data, Nothing, Sample, Bounds
<1>2. ASSUME NEW l \in Chosen \intersect Loads, NEW p \in Parameters, Choose(l, p)
      PROVE  IInv'
  <2>1. /\ live => token # None
        /\ UNCHANGED <<token, tab, shown>> /\ Load(l, p)
    BY <1>1, <1>2 DEF Choose, Load, authVars
  <2> DEFINE n == Call(l, serial + 1, p, IF live THEN "get" ELSE "sample", "read", token,
                       Nothing, 0)
  <2>2. calls' = calls \union {n}
    BY <1>2, <2>1 DEF Choose, Started
  <2> QED  BY <1>1, <2>1, <2>2, LoadStep
<1>3. CASE Export
  <2>1. /\ live => token # None
        /\ tab' = tab /\ Load("export", None)
        /\ shown' = [shown EXCEPT !["export"] = Blank]
    BY <1>3 DEF Export, Mounted
  <2>2. PICK step \in {"get", "sample"} : step = IF live THEN "get" ELSE "sample"
    OBVIOUS
  <2>3. PICK n : n = Call("export", serial + 1, None, step, "read", token, Nothing, 0)
    OBVIOUS
  <2>4. calls' = calls \union {n}
    BY <1>3, <2>2, <2>3 DEF Export
  <2> QED  BY <1>1, <2>1, <2>2, <2>3, <2>4, LoadStep
<1>4. CASE RunAgain
  <2>1. /\ live => token # None
        /\ UNCHANGED <<token, tab, shown>> /\ Load("run", None)
    BY <1>4 DEF RunAgain, Mounted, Load, authVars
  <2> DEFINE n == Call("run", serial + 1, None, IF live THEN "get" ELSE "sample", "read",
                       token, Nothing, 0)
  <2>2. calls' = calls \union {n}
    BY <1>4, <2>1 DEF RunAgain, Started
  <2> QED  BY <1>1, <2>1, <2>2, LoadStep
<1>5. CASE OpenTab
  <2>1. /\ live => token # None
        /\ UNCHANGED <<token, shown>> /\ tab' = TRUE /\ Load("integrations", None)
    BY <1>5 DEF OpenTab, Mounted, Load, authVars
  <2> DEFINE n == Call("integrations", serial + 1, None, IF live THEN "get" ELSE "sample",
                       "read", token, Nothing, 0)
  <2>2. calls' = calls \union {n}
    BY <1>5, <2>1 DEF OpenTab, Started
  <2> QED  BY <1>1, <2>1, <2>2, LoadStep
<1>6. CASE Submit
  <2> DEFINE from == shown["run"].data
  <2>1. /\ Load("apply", None) /\ tab' = tab
        /\ shown' = [shown EXCEPT !["apply"] = Blank]
        /\ calls' = calls \union
             {Call("apply", serial + 1, None, IF live THEN "post" ELSE "sample",
                   "remediation.apply", token, from, 0)}
    BY <1>6 DEF Submit
  <2>2. from \in Data \ {Nothing, Failed, Empty} /\ wanted["run"] = None
    BY <1>1, <1>6 DEF Submit, RunShown, TypeOK
  <2>3. live => token # None /\ from \in {Sample, token}
    BY <1>1, <2>2 DEF IInv, ConsoleSound, OwnSession, Blank
  <2>4. shown["run"].of = None
    BY <1>1, <2>2 DEF IInv, ConsoleSound, LatestChoice, CallsSound
  <2>5. live /\ from = Sample => <<PathOf["run"], None>> \in failures
    BY <1>1, <2>4 DEF IInv, ConsoleSound, SamplesFlagged
  <2> HIDE DEF from
  <2> QED  BY <1>1, <2>1, <2>2, <2>3, <2>5, LoadStep
<1> QED  BY <1>2, <1>3, <1>4, <1>5, <1>6

\* Requests are answered, and timers run out.
LEMMA AnsweredStep ==
  ASSUME IInv, Bounds, Answered
  PROVE  IInv'
<1>1. PICK c \in calls :
        \/ SampleServed(c) \/ Brought(c) \/ Fallback(c) \/ Unauthorised(c) \/ Unsupported(c)
        \/ RunListed(c) \/ TaskDone(c) \/ TaskFailed(c) \/ TaskRuns(c) \/ Poll(c)
  BY DEF Answered
<1>2. /\ TypeOK /\ CallSound(c) /\ c \in CallRecords
      /\ c.load \in Loads /\ c.id \in 1 .. serial /\ c.of \in Parameters \union {None}
      /\ c.auth \in 0 .. sessions /\ c.auth \in Data /\ c.from \in Data
      /\ c.polls \in 0 .. MaxPolls
  BY CallTyped DEF IInv, CallsSound, TypeOK
<1>3. live /\ Awaited(c) => c.auth = token /\ c.from \in {Nothing, Sample, token}
  BY DEF IInv, ConsoleSound, OwnSession
<1>4. /\ Sample \in Data /\ Failed \in Data /\ Empty \in Data
      /\ Sample # Failed /\ Sample # Empty /\ Sample # c.auth
  BY <1>2 DEF Sample, Failed, Empty, Data, Nothing, TypeOK, Bounds
<1>5. c.step # "sample" => live
  BY <1>2 DEF CallSound
<1>6. c.load \in {"run", "apply"} => c.of = None
  BY <1>2, NotChosen DEF CallSound
<1>7. ASSUME NEW path PROVE RecordFailure(path) => failures \subseteq failures' /\ path \in failures'
  BY DEF RecordFailure
<1>8. CASE SampleServed(c)
  BY <1>2, <1>4, <1>8, SettleStep DEF SampleServed, CallSound
<1>9. CASE Brought(c)
  BY <1>2, <1>3, <1>4, <1>9, SettleStep DEF Brought
<1>10. CASE Fallback(c)
  <2>1. /\ failures \subseteq failures' /\ <<PathOf[c.load], c.of>> \in failures'
        /\ calls' = calls \ {c} /\ UNCHANGED <<live, authVars>>
        /\ Settle(c, IF c.load = "export" THEN Failed ELSE Sample)
    BY <1>7, <1>10 DEF Fallback, PathFor
  <2> QED  BY <1>4, <2>1, SettleStep
<1>11. CASE Unauthorised(c)
  <2>1. /\ failures \subseteq failures' /\ calls' = calls \ {c} /\ SessionExpired /\ live
    BY <1>5, <1>7, <1>11 DEF Unauthorised
  <2> QED  BY <1>2, <2>1, UnmountStep DEF SessionExpired, TypeOK, None
<1>12. CASE Unsupported(c)
  BY <1>4, <1>12, SettleStep DEF Unsupported
<1>13. CASE RunListed(c)
  <2>1. c.step = "get" /\ c.load = "run" /\ live /\ c.of = None /\ UNCHANGED <<live, authVars>>
    BY <1>5, <1>6, <1>13 DEF RunListed
  <2>2. ASSUME NEW data \in Data, Listed(c, data), failures \subseteq failures',
               Awaited(c) => data \in {Sample, token},
               data = Sample => <<PathOf["run"], None>> \in failures'
        PROVE  IInv'
    <3>1. CASE authRequired
      BY <1>4, <2>1, <2>2, <3>1, SettleStep DEF Listed
    <3>2. CASE ~authRequired
      <4> DEFINE N == {Call("run", c.id, None, "post", kind, token, data, 0) :
                         kind \in {"triage.findings", "remediation.propose"}}
      <4>1. calls' = (calls \ {c}) \union N /\ UNCHANGED pageVars
        BY <2>2, <3>2 DEF Listed
      <4>2. /\ N # {}
            /\ \A n \in N : /\ n.load = "run" /\ n.id = c.id /\ n.of = None /\ n.step = "post"
                            /\ n.auth = token /\ n.from = data
                            /\ n \in CallRecords
        <5>1. ASSUME NEW kind \in {"triage.findings", "remediation.propose"}
              PROVE  LET n == Call("run", c.id, None, "post", kind, token, data, 0)
                     IN  /\ n.load = "run" /\ n.id = c.id /\ n.of = None /\ n.step = "post"
                         /\ n.auth = token /\ n.from = data
                         /\ n \in CallRecords
          BY <1>2, <2>1 DEF Call, CallRecords, TypeOK, Bounds
        <5> QED  BY <5>1
      <4> HIDE DEF N
      <4> QED  BY <2>1, <2>2, <4>1, <4>2, ReplaceStep
    <3> QED  BY <3>1, <3>2
  <2>3. CASE Listed(c, c.auth) /\ UNCHANGED failures
    BY <1>2, <1>3, <1>4, <2>1, <2>2, <2>3
  <2>4. CASE calls' = calls \ {c} /\ Settle(c, Empty) /\ UNCHANGED failures
    BY <1>4, <2>1, <2>4, SettleStep
  <2>5. CASE Listed(c, Sample) /\ RecordFailure(PathFor(c))
    <3>1. PathFor(c) = <<PathOf["run"], None>>
      BY <2>1 DEF PathFor
    <3> QED  BY <1>4, <1>7, <2>2, <2>5, <3>1
  <2> QED  BY <1>13, <2>3, <2>4, <2>5 DEF RunListed
<1>14. CASE TaskDone(c)
  <2>1. calls' = calls \ {c} /\ UNCHANGED <<live, authVars, failures>>
    BY <1>14 DEF TaskDone
  <2>2. CASE \E d \in calls' : d.load = c.load /\ d.id = c.id
    BY <1>14, <2>1, <2>2, DropStep DEF TaskDone
  <2>3. CASE ~\E d \in calls' : d.load = c.load /\ d.id = c.id
    <3>1. Settle(c, c.from)
      BY <1>14, <2>3 DEF TaskDone
    <3>2. live /\ c.from = Sample => /\ c.load # "export"
                                     /\ <<PathOf[c.load], c.of>> \in failures
      BY <1>2, <1>6, OnePath DEF CallSound
    <3> QED  BY <1>2, <1>3, <2>1, <3>1, <3>2, SettleStep
  <2> QED  BY <2>2, <2>3
<1>15. CASE TaskFailed(c)
  <2>1. failures \subseteq failures'
    BY <1>7, <1>15 DEF TaskFailed
  <2> QED  BY <1>4, <1>15, <2>1, SettleStep DEF TaskFailed
<1>16. CASE TaskRuns(c)
  <2>1. /\ live /\ c.polls < MaxPolls /\ UNCHANGED <<live, authVars, failures, pageVars>>
        /\ calls' = (calls \ {c}) \union {[c EXCEPT !.step = "wait"]}
    BY <1>5, <1>16 DEF TaskRuns
  <2>2. PICK n : n = [c EXCEPT !.step = "wait"]
    OBVIOUS
  <2>3. /\ n \in CallRecords /\ n.load = c.load /\ n.id = c.id /\ n.of = c.of
        /\ n.step = "wait" /\ n.auth = c.auth /\ n.from = c.from /\ n.polls = c.polls
    BY <1>2, <2>2 DEF CallRecords
  <2>4. /\ {n} \in SUBSET CallRecords /\ {n} # {} /\ calls' = (calls \ {c}) \union {n}
        /\ live /\ n.from = Sample =>
             n.load \in {"run", "apply"} /\ <<PathOf["run"], None>> \in failures'
    BY <1>2, <2>1, <2>2, <2>3 DEF CallSound
  <2>5. UNCHANGED <<live, authVars, pageVars>> /\ failures \subseteq failures'
    BY <2>1
  <2>6. live /\ Awaited(c) => n.auth = token /\ n.from \in {Nothing, Sample, token}
    BY <1>3, <2>3
  <2>7. \A m \in {n} :
          /\ m.load = c.load /\ m.id = c.id /\ m.of = c.of
          /\ m.step = "sample" <=> ~live
          /\ m.step = "wait" => m.polls < MaxPolls
          /\ live /\ m.from = Sample =>
               m.load \in {"run", "apply"} /\ <<PathOf["run"], None>> \in failures'
          /\ live /\ Awaited(c) => m.auth = token /\ m.from \in {Nothing, Sample, token}
    BY <2>1, <2>3, <2>4, <2>6
  <2> QED  BY <2>4, <2>5, <2>7, ReplaceStep
<1>17. CASE Poll(c)
  <2>1. c.step = "wait" /\ live /\ c.polls < MaxPolls /\ UNCHANGED <<live, authVars, failures>>
    BY <1>2, <1>5, <1>17 DEF Poll, CallSound
  <2>2. CASE authRequired
    BY <1>4, <1>17, <2>1, <2>2, SettleStep DEF Poll
  <2>3. CASE ~authRequired
    <3>1. PICK n : n = [c EXCEPT !.step = "poll", !.auth = token, !.polls = c.polls + 1]
      OBVIOUS
    <3>2. calls' = (calls \ {c}) \union {n} /\ UNCHANGED pageVars
      BY <1>17, <2>3, <3>1 DEF Poll
    <3>3. /\ n \in CallRecords /\ n.load = c.load /\ n.id = c.id /\ n.of = c.of
          /\ n.step = "poll" /\ n.auth = token /\ n.from = c.from
      <4>1. token \in 0 .. sessions /\ c.polls + 1 \in 0 .. MaxPolls
        BY <1>2, <2>1 DEF TypeOK, Bounds
      <4>2. n = [load |-> c.load, id |-> c.id, of |-> c.of, step |-> "poll", kind |-> c.kind,
                 auth |-> token, from |-> c.from, polls |-> c.polls + 1]
        BY <1>2, <3>1 DEF CallRecords
      <4>3. c.kind \in {"read", "triage.findings", "remediation.propose", "remediation.apply"}
        BY <1>2 DEF CallRecords
      <4> QED  BY <1>2, <4>1, <4>2, <4>3 DEF CallRecords
    <3>4. /\ {n} \in SUBSET CallRecords /\ {n} # {}
          /\ live /\ n.from = Sample =>
               n.load \in {"run", "apply"} /\ <<PathOf["run"], None>> \in failures'
      BY <1>2, <2>1, <3>3 DEF CallSound
    <3> QED  BY <1>3, <2>1, <3>2, <3>3, <3>4, ReplaceStep
  <2> QED  BY <2>2, <2>3
<1> QED
  BY <1>1, <1>8, <1>9, <1>10, <1>11, <1>12, <1>13, <1>14, <1>15, <1>16, <1>17

LEMMA NextIInv ==
  ASSUME IInv, Bounds, [Next]_vars
  PROVE  IInv'
<1>1. CASE UNCHANGED vars
  BY <1>1, SameView DEF vars, pageVars, IInv, TypeOK
<1>2. CASE Next
  BY <1>2, SessionSteps, LoadSteps, CloseTabStep, AnsweredStep DEF Next
<1> QED  BY <1>1, <1>2

\* What the console shows was brought in the session that is there now, or is
\* a sample that the shell counts, and belongs to what was chosen last; no
\* page waits for nothing, and no login is required of who is logged in: for
\* any routes, parameters, bounds, and orders of answers, logins and 401s
\* (useFetch.ts:18-33, api.ts:83-177, auth.ts:25-72).
THEOREM ConsoleCorrect ==
  ASSUME Bounds
  PROVE  Spec => []ConsoleSound
<1>1. Init => IInv
  BY InitIInv
<1>2. IInv /\ [Next]_vars => IInv'
  BY NextIInv
<1>3. IInv => ConsoleSound
  BY DEF IInv
<1> QED  BY <1>1, <1>2, <1>3, PTL DEF Spec

=============================================================================

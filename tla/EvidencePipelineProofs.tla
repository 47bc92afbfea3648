----------------------- MODULE EvidencePipelineProofs -----------------------
(***************************************************************************)
(* Theorems about EvidencePipeline for any number of events, findings,     *)
(* controls, deliveries and faults.                                        *)
(***************************************************************************)
EXTENDS EvidencePipeline, DataLemmas

(***************************************************************************)
(* The agenda.                                                             *)
(***************************************************************************)

\* The steps of a batch whose evidence is about the things in A.
StepsAbout(A) == {s \in Steps : s.kind = "attach" => s.about \in A}

\* What the steps of a kind are.
LEMMA StepsTyped ==
  ASSUME NEW A \in SUBSET (Findings \union Artefacts), NEW c \in Controls
  PROVE  /\ \A f \in Findings : Step("track", c, f) \in StepsAbout(A)
         /\ \A a \in Findings \union {"scan"} : Step("violate", c, a) \in StepsAbout(A)
         /\ \A a \in A : Step("attach", c, a) \in StepsAbout(A)
<1>1. ASSUME NEW f \in Findings PROVE Step("track", c, f) \in StepsAbout(A)
  <2>1. <<c, f>> \in Pairs /\ Step("track", c, f) = Step("track", <<c, f>>[1], <<c, f>>[2])
    BY DEF Pairs
  <2>2. Step("track", c, f) \in Steps
    BY <2>1 DEF Steps
  <2> QED  BY <2>2 DEF StepsAbout, Step
<1>2. ASSUME NEW a \in Findings \union {"scan"} PROVE Step("violate", c, a) \in StepsAbout(A)
  <2>1. <<c, "sbom">> \in Refs /\ Step("violate", c, a) = Step("violate", <<c, "sbom">>[1], a)
    BY DEF Refs, Artefacts
  <2>2. Step("violate", c, a) \in Steps
    BY <2>1 DEF Steps
  <2> QED  BY <2>2 DEF StepsAbout, Step
<1>3. ASSUME NEW a \in A PROVE Step("attach", c, a) \in StepsAbout(A)
  <2>1. <<c, a>> \in Refs /\ Step("attach", c, a) = Step("attach", <<c, a>>[1], <<c, a>>[2])
    BY DEF Refs
  <2>2. Step("attach", c, a) \in Steps
    BY <2>1 DEF Steps
  <2> QED  BY <2>2 DEF StepsAbout, Step
<1> QED  BY <1>1, <1>2, <1>3

\* What the kind of a step says about it.
LEMMA StepsKnown ==
  ASSUME NEW s \in Steps
  PROVE  /\ s.kind \in {"track", "violate", "attach"}
         /\ s.kind = "track" => <<s.control, s.about>> \in Pairs
         /\ s.kind = "attach" => <<s.control, s.about>> \in Refs
         /\ s = Step(s.kind, s.control, s.about)
<1>1. CASE \E p \in Pairs : s = Step("track", p[1], p[2])
  BY <1>1 DEF Step, Pairs
<1>2. CASE \E r \in Refs, a \in Findings \union {"scan"} : s = Step("violate", r[1], a)
  BY <1>2 DEF Step
<1>3. CASE \E r \in Refs : s = Step("attach", r[1], r[2])
  BY <1>3 DEF Step, Refs
<1> QED  BY <1>1, <1>2, <1>3 DEF Steps

\* The controls a batch fails.
LEMMA ControlSeqType ==
  ASSUME NEW findings \in Seq(Findings)
  PROVE  ControlSeq(findings) \in Seq(Controls)
<1> DEFINE F == Range(findings)
           C == {ControlsOf[f] : f \in F}
<1>1. IsFiniteSet(F) /\ F \subseteq Findings
  BY RangeFinite
<1>2. IsFiniteSet(C)
  <2>1. [f \in F |-> ControlsOf[f]] \in Surjection(F, C)
    BY DEF Surjection
  <2> HIDE DEF C, F
  <2> QED  BY <1>1, <2>1, FS_Surjection
<1>3. IsFiniteSet(UNION C) /\ UNION C \subseteq Controls
  <2>1. \A T \in C : IsFiniteSet(T)
    BY <1>1, EventsAssumption
  <2>2. UNION C \subseteq Controls
    BY <1>1 DEF Controls
  <2> HIDE DEF C, F
  <2> QED  BY <1>2, <2>1, <2>2, FS_UNION
<1>4. SetToSeq(UNION C) \in Seq(UNION C)
  BY <1>3, SetToSeqType
<1>5. SetToSeq(UNION C) \in Seq(Controls)
  <2> DEFINE D == UNION C
             s == SetToSeq(D)
  <2>1. s \in Seq(D) /\ D \subseteq Controls
    BY <1>3, <1>4
  <2> HIDE DEF D, s
  <2>2. s \in Seq(Controls)
    BY <2>1
  <2> QED  BY <2>2 DEF D, s
<1> QED  BY <1>5 DEF ControlSeq

\* The steps of one evaluated batch.
LEMMA PipelineType ==
  ASSUME NEW findings \in Seq(Findings), NEW subject \in Findings \union {"scan"},
         NEW A \in SUBSET (Findings \union Artefacts), NEW artefacts \in Seq(A),
         Len(artefacts) \in {1, 2}
  PROVE  Pipeline(findings, subject, artefacts) \in Seq(StepsAbout(A))
<1> DEFINE S == StepsAbout(A)
           controls == ControlSeq(findings)
           about(k) == StepsFor("attach", <<controls[k]>>, artefacts[1]) \o
                       IF Len(artefacts) = 1 THEN <<>>
                       ELSE StepsFor("attach", <<controls[k]>>, artefacts[2])
           tracks == [k \in 1..Len(findings) |->
                       StepsFor("track", ControlSeq(<<findings[k]>>), findings[k])]
           attaches == [k \in 1..Len(controls) |-> about(k)]
<1>0. ASSUME NEW kind, NEW cs \in Seq(Controls), NEW a,
             \A c \in Controls : Step(kind, c, a) \in S
      PROVE  StepsFor(kind, cs, a) \in Seq(S)
  BY <1>0 DEF StepsFor
<1>1. controls \in Seq(Controls)
  BY ControlSeqType
<1>2. \A c \in Controls :
        /\ \A f \in Findings : Step("track", c, f) \in S
        /\ \A a \in Findings \union {"scan"} : Step("violate", c, a) \in S
        /\ \A a \in A : Step("attach", c, a) \in S
  BY StepsTyped
<1> HIDE DEF S, controls
<1>3. tracks \in Seq(Seq(S))
  <2>1. ASSUME NEW k \in 1..Len(findings)
        PROVE  StepsFor("track", ControlSeq(<<findings[k]>>), findings[k]) \in Seq(S)
    <3>1. findings[k] \in Findings /\ <<findings[k]>> \in Seq(Findings)
      OBVIOUS
    <3>2. ControlSeq(<<findings[k]>>) \in Seq(Controls)
      BY <3>1, ControlSeqType
    <3> QED  BY <1>0, <1>2, <3>1, <3>2
  <2> QED  BY <2>1
<1>4. StepsFor("violate", controls, subject) \in Seq(S)
  BY <1>0, <1>1, <1>2
<1>5. attaches \in Seq(Seq(S))
  <2>1. ASSUME NEW k \in 1..Len(controls) PROVE about(k) \in Seq(S)
    <3>1. <<controls[k]>> \in Seq(Controls)
      BY <1>1
    <3>2. artefacts[1] \in A /\ (Len(artefacts) # 1 => artefacts[2] \in A)
      OBVIOUS
    <3>3. StepsFor("attach", <<controls[k]>>, artefacts[1]) \in Seq(S)
      BY <1>0, <1>2, <3>1, <3>2
    <3>4. Len(artefacts) # 1 => StepsFor("attach", <<controls[k]>>, artefacts[2]) \in Seq(S)
      BY <1>0, <1>2, <3>1, <3>2
    <3> QED  BY <3>3, <3>4
  <2> HIDE DEF about
  <2> QED  BY <1>1, <2>1
<1>6. FlattenSeq(tracks) \in Seq(S) /\ FlattenSeq(attaches) \in Seq(S)
  BY <1>3, <1>5, FlattenType
<1>7. Pipeline(findings, subject, artefacts) =
        FlattenSeq(tracks) \o StepsFor("violate", controls, subject) \o FlattenSeq(attaches)
  BY DEF Pipeline, controls
<1> HIDE DEF tracks, attaches
<1>8. Pipeline(findings, subject, artefacts) \in Seq(S)
  BY <1>4, <1>6, <1>7
<1> QED  BY <1>8 DEF S

\* The agenda of an event; the evidence of a scan is about its two artefacts.
LEMMA AgendaType ==
  ASSUME NEW e \in Events
  PROVE  /\ Agenda(e) \in Seq(Steps)
         /\ e \in ScanEvents => Agenda(e) \in Seq(StepsAbout(Artefacts))
<1>1. Batch[e] \in Seq(Findings)
  <2>1. Batch[e] \in Seq(Range(Batch[e])) /\ Range(Batch[e]) \subseteq Findings
    BY EventsAssumption DEF Findings
  <2> DEFINE R == Range(Batch[e])
  <2> HIDE DEF R
  <2>2. \A s \in Seq(R) : R \subseteq Findings => s \in Seq(Findings)
    OBVIOUS
  <2> QED  BY <2>1, <2>2 DEF R
<1>2. \A A : StepsAbout(A) \subseteq Steps
  BY DEF StepsAbout
<1>3. CASE e \in ScanEvents
  <2>1. <<"sbom", "report">> \in Seq(Artefacts) /\ Len(<<"sbom", "report">>) \in {1, 2}
    BY DEF Artefacts
  <2>2. Pipeline(Batch[e], "scan", <<"sbom", "report">>) \in Seq(StepsAbout(Artefacts))
    BY <1>1, <2>1, PipelineType
  <2>3. Agenda(e) \in Seq(StepsAbout(Artefacts))
    BY <1>3, <2>2 DEF Agenda, ScanAgenda
  <2> QED  BY <1>2, <2>3
<1>4. CASE e \notin ScanEvents
  <2> DEFINE parts == [k \in 1..Len(Batch[e]) |->
                        Pipeline(<<Batch[e][k]>>, Batch[e][k], <<Batch[e][k]>>)]
  <2>1. ASSUME NEW k \in 1..Len(Batch[e])
        PROVE  Pipeline(<<Batch[e][k]>>, Batch[e][k], <<Batch[e][k]>>) \in Seq(Steps)
    <3> DEFINE f == Batch[e][k]
    <3>1. f \in Findings
      BY <1>1
    <3> HIDE DEF f
    <3>2. <<f>> \in Seq(Findings) /\ Len(<<f>>) = 1 /\ Findings \in SUBSET (Findings \union Artefacts)
      BY <3>1
    <3>3. Pipeline(<<f>>, f, <<f>>) \in Seq(StepsAbout(Findings))
      BY <3>1, <3>2, PipelineType
    <3>4. Pipeline(<<f>>, f, <<f>>) \in Seq(Steps)
      BY <1>2, <3>3
    <3> QED  BY <3>4 DEF f
  <2>2. parts \in Seq(Seq(Steps))
    BY <1>1, <2>1
  <2>3. FlattenSeq(parts) \in Seq(Steps)
    BY <2>2, FlattenType
  <2> QED  BY <1>4, <2>3 DEF Agenda, InfrastructureAgenda
<1> QED  BY <1>3, <1>4

(***************************************************************************)
(* Type correctness.                                                       *)
(***************************************************************************)

\* The steps of an agenda, and what remains after each of them.
LEMMA AgendaRest ==
  ASSUME NEW e \in Events, NEW n \in 0..Len(Agenda(e))
  PROVE  /\ Agenda(e) \in Seq(Steps) /\ Len(Agenda(e)) \in Nat
         /\ AgendaAfter(e, n) \in Seq(Steps) /\ Len(AgendaAfter(e, n)) = Len(Agenda(e)) - n
         /\ AgendaAfter(e, n) = <<>> <=> n = Len(Agenda(e))
         /\ n < Len(Agenda(e)) => /\ Head(AgendaAfter(e, n)) = Agenda(e)[n + 1]
                                  /\ Agenda(e)[n + 1] \in Steps
                                  /\ Tail(AgendaAfter(e, n)) = AgendaAfter(e, n + 1)
<1> DEFINE s == Agenda(e)
<1>1. s \in Seq(Steps)
  BY AgendaType
<1>2. AgendaAfter(e, n) = SubSeq(s, n + 1, Len(s)) /\ AgendaAfter(e, n + 1) = SubSeq(s, n + 2, Len(s))
  BY DEF AgendaAfter
<1> HIDE DEF s
<1>3. n \in 0..Len(s)
  BY DEF s
<1>4. Len(s) \in Nat /\ (n < Len(s) => s[n + 1] \in Steps)
  BY <1>1, <1>3
<1>5. LET rest == SubSeq(s, n + 1, Len(s)) IN
      /\ rest \in Seq(Steps) /\ Len(rest) = Len(s) - n
      /\ rest = <<>> <=> n = Len(s)
      /\ n < Len(s) => Head(rest) = s[n + 1] /\ Tail(rest) = SubSeq(s, n + 2, Len(s))
  BY <1>1, <1>3, RestOfSeq
<1> QED  BY <1>1, <1>2, <1>4, <1>5 DEF s

\* Where a handler call is in its agenda.
LEMMA Position ==
  ASSUME TypeOK, NEW e \in Events
  PROVE  /\ Behind(e) \in 0..Len(Agenda(e)) /\ agenda[e] = AgendaAfter(e, Behind(e))
         /\ agenda[e] = <<>> <=> Behind(e) = Len(Agenda(e))
         /\ agenda[e] # <<>> => /\ Head(agenda[e]) = Agenda(e)[Behind(e) + 1]
                               /\ Head(agenda[e]) \in Steps
                               /\ Behind(e) < Len(Agenda(e))
                               /\ Tail(agenda[e]) = AgendaAfter(e, Behind(e) + 1)
<1>1. PICK n \in 0..Len(Agenda(e)) : agenda[e] = AgendaAfter(e, n)
  BY DEF TypeOK
<1>2. Len(Agenda(e)) \in Nat /\ Len(agenda[e]) = Len(Agenda(e)) - n
  BY <1>1, AgendaRest
<1>3. Behind(e) = n
  BY <1>2 DEF Behind
<1> QED  BY <1>1, <1>2, <1>3, AgendaRest

\* The initial state is well typed.
LEMMA TypeInit == Init => TypeOK
<1> SUFFICES ASSUME Init PROVE TypeOK
  OBVIOUS
<1>1. ASSUME NEW e \in Events
      PROVE  agenda[e] \in {AgendaAfter(e, n) : n \in 0..Len(Agenda(e))}
  <2>1. Len(Agenda(e)) \in 0..Len(Agenda(e)) /\ AgendaAfter(e, Len(Agenda(e))) = <<>>
    <3>1. Len(Agenda(e)) \in Nat
      BY AgendaType
    <3> QED  BY <3>1, AgendaRest
  <2> QED  BY <2>1 DEF Init
<1>2. database \in Databases /\ sent \subseteq Steps /\ faults \in 0..MaxFaults
  BY EventsAssumption DEF Init
<1>3. /\ agenda \in [Events -> Seq(Steps)] /\ publishing \in [Events -> BOOLEAN]
      /\ state \in [Events -> {"unpublished", "pending", "running", "acked", "dead"}]
      /\ tries \in [Events -> 0..MaxDeliveries]
  BY EventsAssumption DEF Init
<1>4. open \subseteq Pairs /\ poams \in [Pairs -> Nat] /\ rows \in [Refs -> Nat]
  BY DEF Init
<1> QED  BY <1>1, <1>2, <1>3, <1>4 DEF TypeOK, Init

\* What an event's step may do to its agenda.
Stays(e) == agenda' = agenda
Moves(e) == agenda[e] # <<>> /\ agenda' = [agenda EXCEPT ![e] = Tail(@)]
Clears(e) == agenda' = [agenda EXCEPT ![e] = <<>>]
Starts(e) == agenda' = [agenda EXCEPT ![e] = Agenda(e)]

\* Each of them leaves a typed agenda.
LEMMA AgendaTypeStep ==
  ASSUME TypeOK, NEW e \in Events, Stays(e) \/ Moves(e) \/ Clears(e) \/ Starts(e)
  PROVE  /\ agenda' \in [Events -> Seq(Steps)]
         /\ \A d \in Events : agenda'[d] \in {AgendaAfter(d, n) : n \in 0..Len(Agenda(d))}
<1> DEFINE Rests(d) == {AgendaAfter(d, n) : n \in 0..Len(Agenda(d))}
<1>0. /\ agenda \in [Events -> Seq(Steps)] /\ \A d \in Events : agenda[d] \in Rests(d)
  BY DEF TypeOK
<1>1. \A d \in Events : Rests(d) \subseteq Seq(Steps)
  BY AgendaRest
<1>2. <<>> \in Rests(e) /\ Agenda(e) \in Rests(e)
  <2>1. Len(Agenda(e)) \in Nat /\ Agenda(e) \in Seq(Steps)
    BY AgendaType
  <2>2. AgendaAfter(e, Len(Agenda(e))) = <<>>
    BY <2>1, AgendaRest
  <2>3. AgendaAfter(e, 0) = Agenda(e)
    BY <2>1 DEF AgendaAfter
  <2> QED  BY <2>1, <2>2, <2>3
<1>3. agenda[e] # <<>> => Tail(agenda[e]) \in Rests(e)
  <2> SUFFICES ASSUME agenda[e] # <<>> PROVE Tail(agenda[e]) \in Rests(e)
    OBVIOUS
  <2>1. Behind(e) + 1 \in 0..Len(Agenda(e)) /\ Tail(agenda[e]) = AgendaAfter(e, Behind(e) + 1)
    BY Position, AgendaType
  <2> QED  BY <2>1
<1> HIDE DEF Rests
<1>4. /\ agenda' \in [Events -> UNION {Rests(d) : d \in Events}]
      /\ \A d \in Events : agenda'[d] \in Rests(d)
  BY <1>0, <1>2, <1>3 DEF Stays, Moves, Clears, Starts
<1> QED  BY <1>1, <1>4 DEF Rests

\* What the head of an agenda is about.
LEMMA AtStep ==
  ASSUME TypeOK, NEW e \in Events, NEW kind, At(e, kind)
  PROVE  /\ state[e] = "running" /\ agenda[e] # <<>> /\ ~publishing[e]
         /\ Head(agenda[e]) \in Steps /\ Head(agenda[e]).kind = kind
         /\ kind = "track" => Subject(e) \in Pairs
         /\ kind = "attach" => Subject(e) \in Refs
         /\ Head(agenda[e]) = Step(kind, Subject(e)[1], Subject(e)[2])
<1>1. /\ state[e] = "running" /\ agenda[e] # <<>> /\ ~publishing[e]
      /\ Head(agenda[e]) \in Steps /\ Head(agenda[e]).kind = kind
  BY Position DEF At
<1> QED  BY <1>1, StepsKnown DEF Subject

\* Every step leaves the agendas typed.
LEMMA AgendaStep ==
  ASSUME TypeOK, [Next]_vars
  PROVE  /\ agenda' \in [Events -> Seq(Steps)]
         /\ \A d \in Events : agenda'[d] \in {AgendaAfter(d, n) : n \in 0..Len(Agenda(d))}
<1>1. ASSUME NEW e \in Events, Publish(e) \/ Deliver(e) \/ DeadLetter(e) \/ Handle(e)
      PROVE  Stays(e) \/ Moves(e) \/ Clears(e) \/ Starts(e)
  <2>1. publishing[e] => agenda[e] # <<>>
    BY DEF TypeOK
  <2> QED
    BY <1>1, <2>1 DEF Publish, Deliver, DeadLetter, Handle, AlreadyTracked, Track, Violate,
       AlreadyAttached, Attach, AttachRejected, Sent, SendFails, Ack, At, Advance, Throw,
       Stays, Moves, Clears, Starts
<1>2. CASE Crash
  <2>1. \A d \in Events : /\ Len(Agenda(d)) \in 0..Len(Agenda(d))
                          /\ AgendaAfter(d, Len(Agenda(d))) = <<>>
    <3> SUFFICES ASSUME NEW d \in Events
                 PROVE  Len(Agenda(d)) \in 0..Len(Agenda(d)) /\ AgendaAfter(d, Len(Agenda(d))) = <<>>
      OBVIOUS
    <3>1. Len(Agenda(d)) \in Nat
      BY AgendaType
    <3> QED  BY <3>1, AgendaRest
  <2> QED  BY <1>2, <2>1 DEF Crash
<1>3. CASE UNCHANGED agenda
  BY <1>3 DEF TypeOK
<1> QED
  BY <1>1, <1>2, <1>3, AgendaTypeStep DEF Next, Resolve, vars

\* Every step keeps the types.
LEMMA TypeStep == TypeOK /\ [Next]_vars => TypeOK'
<1> SUFFICES ASSUME TypeOK, [Next]_vars PROVE TypeOK'
  OBVIOUS
<1> DEFINE BusOK == /\ state \in [Events -> {"unpublished", "pending", "running", "acked", "dead"}]
                    /\ tries \in [Events -> 0..MaxDeliveries]
                    /\ publishing \in [Events -> BOOLEAN]
                    /\ \A e \in Events : agenda[e] # <<>> => state[e] = "running"
                    /\ \A e \in Events : publishing[e] => agenda[e] # <<>>
                    /\ database \in Databases /\ faults \in 0..MaxFaults
           StoresOK == /\ open \subseteq Pairs /\ poams \in [Pairs -> Nat] /\ rows \in [Refs -> Nat]
                       /\ sent \subseteq Steps
<1>0. BusOK /\ StoresOK /\ MaxFaults \in Nat /\ MaxDeliveries \in Nat
      /\ agenda \in [Events -> Seq(Steps)]
  BY EventsAssumption DEF TypeOK
<1> SUFFICES BusOK' /\ StoresOK'
  BY AgendaStep DEF TypeOK
<1>1. ASSUME NEW e \in Events, Publish(e) \/ Deliver(e) \/ DeadLetter(e) PROVE BusOK' /\ StoresOK'
  <2>1. ASSUME Publish(e) PROVE BusOK' /\ StoresOK'
    BY <1>0, <2>1 DEF Publish, stores, config
  <2>2. ASSUME Deliver(e) PROVE BusOK' /\ StoresOK'
    BY <1>0, <2>2 DEF Deliver, stores, config
  <2>3. ASSUME DeadLetter(e) PROVE BusOK' /\ StoresOK'
    BY <1>0, <2>3 DEF DeadLetter, stores, config
  <2> QED  BY <1>1, <2>1, <2>2, <2>3
<1>2. ASSUME NEW e \in Events, Ack(e) PROVE BusOK' /\ StoresOK'
  <2>1. /\ agenda[e] = <<>> /\ agenda' = agenda /\ publishing' = publishing /\ tries' = tries
        /\ \E s \in {"acked", "pending"} : state' = [state EXCEPT ![e] = s]
        /\ database' = database /\ (faults' = faults \/ (faults < MaxFaults /\ faults' = faults + 1))
    BY <1>2 DEF Ack, config, Fault
  <2>2. BusOK'
    BY <1>0, <2>1
  <2> QED  BY <1>0, <1>2, <2>2 DEF Ack, stores
<1>3. ASSUME NEW e \in Events, AlreadyTracked(e) \/ AlreadyAttached(e) PROVE BusOK' /\ StoresOK'
  BY <1>0, <1>3 DEF AlreadyTracked, AlreadyAttached, At, Advance, bus, stores, config
<1>4. ASSUME NEW e \in Events, Track(e) PROVE BusOK' /\ StoresOK'
  <2>1. Subject(e) \in Pairs
    BY <1>4, AtStep DEF Track
  <2> QED  BY <1>0, <1>4, <2>1 DEF Track, At, BeginPublish, bus, config
<1>5. ASSUME NEW e \in Events, Violate(e) PROVE BusOK' /\ StoresOK'
  BY <1>0, <1>5 DEF Violate, At, BeginPublish, bus, stores, config
<1>6. ASSUME NEW e \in Events, Attach(e) PROVE BusOK' /\ StoresOK'
  <2>1. Subject(e) \in Refs
    BY <1>6, AtStep DEF Attach
  <2> QED  BY <1>0, <1>6, <2>1 DEF Attach, At, BeginPublish, bus, config
<1>7. ASSUME NEW e \in Events, AttachRejected(e) PROVE BusOK' /\ StoresOK'
  BY <1>0, <1>7 DEF AttachRejected, Throw, stores, config
<1>8. ASSUME NEW e \in Events, Sent(e) PROVE BusOK' /\ StoresOK'
  <2>1. Head(agenda[e]) \in Steps
    BY <1>0, <1>8, Position DEF Sent
  <2> QED  BY <1>0, <1>8, <2>1 DEF Sent, Advance, bus, stores, config
<1>9. ASSUME NEW e \in Events, SendFails(e) PROVE BusOK' /\ StoresOK'
  <2>1. Head(agenda[e]) \in Steps
    BY <1>0, <1>9, Position DEF SendFails
  <2> QED  BY <1>0, <1>9, <2>1 DEF SendFails, Throw, Fault, stores
<1>10. CASE Crash
  BY <1>0, <1>10 DEF Crash, Fault
<1>11. ASSUME NEW p \in Pairs, Resolve(p) PROVE BusOK' /\ StoresOK'
  BY <1>0, <1>11 DEF Resolve, bus, config
<1>12. CASE UNCHANGED vars
  BY <1>0, <1>12 DEF vars
<1> HIDE DEF BusOK, StoresOK
<1> QED
  BY <1>1, <1>2, <1>3, <1>4, <1>5, <1>6, <1>7, <1>8, <1>9, <1>10, <1>11, <1>12 DEF Next, Handle

\* Every variable keeps its type: what a call has left to do is the rest of
\* its event's agenda.
THEOREM TypeCorrect == Spec => []TypeOK
  BY TypeInit, TypeStep, PTL DEF Spec

(***************************************************************************)
(* What an acknowledged event has achieved.                                *)
(***************************************************************************)

\* No trace is wiped: every step but a crash.
Grow == /\ \A p \in Pairs : poams'[p] >= poams[p]
        /\ \A r \in Refs : rows'[r] >= rows[r]
        /\ sent \subseteq sent'

\* A call's steps are done up to where it is, and so is what it announces.
Traced(e) ==
  /\ state[e] = "running" => \A k \in 1..Behind(e) : Done(Agenda(e)[k])
  /\ publishing[e] /\ Head(agenda[e]).kind # "violate" => Done(Head(agenda[e]))

\* TraceInv, event by event.
LEMMA TraceParts == TraceInv <=> (\A p \in open : poams[p] > 0) /\ \A e \in Events : Traced(e)
  BY DEF TraceInv, Traced

\* A step that was done stays done.
LEMMA DoneStays ==
  ASSUME TypeOK, TypeOK', Grow, NEW s \in Steps, Done(s)
  PROVE  Done(s)'
<1>1. s.kind = "track" => poams'[<<s.control, s.about>>] > 0
  <2> SUFFICES ASSUME s.kind = "track" PROVE poams'[<<s.control, s.about>>] > 0
    OBVIOUS
  <2> DEFINE p == <<s.control, s.about>>
  <2>1. p \in Pairs /\ poams[p] > 0
    BY StepsKnown DEF Done
  <2> HIDE DEF p
  <2>2. poams[p] \in Nat /\ poams'[p] \in Nat /\ poams'[p] >= poams[p]
    BY <2>1 DEF TypeOK, Grow
  <2>3. poams'[p] > 0
    BY <2>1, <2>2
  <2> QED  BY <2>3 DEF p
<1>2. s.kind = "attach" => rows'[<<s.control, s.about>>] > 0
  <2> SUFFICES ASSUME s.kind = "attach" PROVE rows'[<<s.control, s.about>>] > 0
    OBVIOUS
  <2> DEFINE r == <<s.control, s.about>>
  <2>1. r \in Refs /\ rows[r] > 0
    BY StepsKnown DEF Done
  <2> HIDE DEF r
  <2>2. rows[r] \in Nat /\ rows'[r] \in Nat /\ rows'[r] >= rows[r]
    BY <2>1 DEF TypeOK, Grow
  <2>3. rows'[r] > 0
    BY <2>1, <2>2
  <2> QED  BY <2>3 DEF r
<1>3. s.kind = "violate" => s \in sent'
  BY DEF Done, Grow
<1> QED  BY <1>1, <1>2, <1>3, StepsKnown DEF Done

\* A call that a step leaves alone stays traced.
LEMMA TracedStays ==
  ASSUME TypeOK, TypeOK', Grow, NEW e \in Events, Traced(e),
         state'[e] = state[e], agenda'[e] = agenda[e], publishing'[e] = publishing[e]
  PROVE  Traced(e)'
<1>1. Behind(e)' = Behind(e)
  BY DEF Behind
<1>2. ASSUME state[e] = "running", NEW k \in 1..Behind(e) PROVE Done(Agenda(e)[k])'
  <2>1. Agenda(e)[k] \in Steps
    BY AgendaType, Position
  <2>2. Done(Agenda(e)[k])
    BY <1>2 DEF Traced
  <2> QED  BY <2>1, <2>2, DoneStays
<1>3. ASSUME publishing[e], Head(agenda[e]).kind # "violate"
      PROVE  Done(Head(agenda[e]))'
  <2>1. PICK s \in Steps : s = Head(agenda[e])
    BY <1>3, Position DEF TypeOK
  <2>2. Done(s)
    BY <1>3, <2>1 DEF Traced
  <2>3. Done(s)'
    BY <2>2, DoneStays
  <2> QED  BY <2>1, <2>3
<1> QED  BY <1>1, <1>2, <1>3 DEF Traced

\* A call that stays at its step, which is done if it is being announced.
LEMMA TracedAnnounces ==
  ASSUME TypeOK, TypeOK', Grow, NEW e \in Events, Traced(e),
         agenda[e] # <<>>, state'[e] = state[e], agenda'[e] = agenda[e],
         Head(agenda[e]).kind # "violate" =>
           \A s \in Steps : s = Head(agenda[e]) => Done(s)'
  PROVE  Traced(e)'
<1>1. Behind(e)' = Behind(e)
  BY DEF Behind
<1>2. ASSUME state[e] = "running", NEW k \in 1..Behind(e) PROVE Done(Agenda(e)[k])'
  <2>1. Agenda(e)[k] \in Steps
    BY AgendaType, Position
  <2>2. Done(Agenda(e)[k])
    BY <1>2 DEF Traced
  <2> QED  BY <2>1, <2>2, DoneStays
<1>3. ASSUME Head(agenda[e]).kind # "violate" PROVE Done(Head(agenda[e]))'
  <2>1. PICK s \in Steps : s = Head(agenda[e])
    BY Position
  <2>2. Done(s)'
    BY <1>3, <2>1
  <2> QED  BY <2>1, <2>2
<1> QED  BY <1>1, <1>2, <1>3 DEF Traced

\* A call that moves on from a step that is done.
LEMMA TracedMoves ==
  ASSUME TypeOK, TypeOK', Grow, NEW e \in Events, Traced(e), state[e] = "running",
         agenda[e] # <<>>, agenda'[e] = Tail(agenda[e]), ~publishing'[e],
         \A s \in Steps : s = Head(agenda[e]) => Done(s)'
  PROVE  Traced(e)'
<1>1. PICK n \in 0..Len(Agenda(e)) : n = Behind(e)
  BY Position
<1>2. n < Len(Agenda(e)) /\ Head(agenda[e]) = Agenda(e)[n + 1] /\ Agenda(e)[n + 1] \in Steps
      /\ agenda'[e] = AgendaAfter(e, n + 1) /\ Len(Agenda(e)) \in Nat
  BY <1>1, Position, AgendaRest
<1>3. Behind(e)' = n + 1
  <2>1. Len(AgendaAfter(e, n + 1)) = Len(Agenda(e)) - (n + 1)
    BY <1>2, AgendaRest
  <2>2. Behind(e)' = Len(Agenda(e)) - Len(AgendaAfter(e, n + 1))
    BY <1>2 DEF Behind
  <2> DEFINE m == Len(Agenda(e))
  <2>3. m \in Nat /\ n \in Nat
    BY <1>2
  <2> HIDE DEF m
  <2>4. m - (m - (n + 1)) = n + 1
    BY <2>3
  <2> QED  BY <2>1, <2>2, <2>4 DEF m
<1>4. ASSUME NEW k \in 1..(n + 1) PROVE Done(Agenda(e)[k])'
  <2>1. CASE k = n + 1
    BY <1>2, <2>1
  <2>2. CASE k # n + 1
    <3>1. k \in 1..Behind(e) /\ Agenda(e)[k] \in Steps
      BY <1>1, <1>2, <2>2, AgendaType
    <3>2. Done(Agenda(e)[k])
      BY <3>1 DEF Traced
    <3> QED  BY <3>1, <3>2, DoneStays
  <2> QED  BY <2>1, <2>2
<1> QED  BY <1>3, <1>4 DEF Traced

\* A step that leaves nothing to announce and no call running, for one event.
LEMMA TracedIdle ==
  ASSUME NEW e \in Events, state'[e] # "running", ~publishing'[e]
  PROVE  Traced(e)'
BY DEF Traced

\* The steps of an event keep the traces of its own call.
LEMMA TraceOwn ==
  ASSUME TypeOK, TypeOK', TraceInv, NEW e \in Events,
         Publish(e) \/ Deliver(e) \/ DeadLetter(e) \/ Handle(e)
  PROVE  Grow /\ (\A p \in open' : poams'[p] > 0) /\ Traced(e)'
<1>0. /\ Traced(e) /\ (state[e] # "running" => agenda[e] = <<>>)
      /\ (publishing[e] => agenda[e] # <<>>) /\ publishing[e] \in BOOLEAN
      /\ (publishing'[e] => agenda'[e] # <<>>) /\ (state'[e] # "running" => agenda'[e] = <<>>)
      /\ state \in [Events -> {"unpublished", "pending", "running", "acked", "dead"}]
      /\ publishing \in [Events -> BOOLEAN] /\ agenda \in [Events -> Seq(Steps)]
      /\ poams \in [Pairs -> Nat] /\ rows \in [Refs -> Nat]
      /\ poams' \in [Pairs -> Nat] /\ rows' \in [Refs -> Nat]
      /\ \A p \in open : p \in Pairs /\ poams[p] > 0
  BY TraceParts DEF TypeOK, TraceInv
<1>1. CASE Publish(e) \/ DeadLetter(e) \/ AttachRejected(e) \/ SendFails(e) \/ Ack(e)
  <2>1. Grow /\ (\A p \in open' : poams'[p] > 0)
    BY <1>0, <1>1 DEF Grow, Publish, DeadLetter, AttachRejected, SendFails, Ack, stores
  <2>2. state'[e] # "running"
    BY <1>0, <1>1 DEF Publish, DeadLetter, AttachRejected, SendFails, Ack, Throw
  <2> QED  BY <1>0, <2>1, <2>2, TracedIdle
<1>2. CASE Deliver(e)
  <2>1. Grow /\ (\A p \in open' : poams'[p] > 0)
    BY <1>0, <1>2 DEF Grow, Deliver, stores
  <2>2. ~publishing'[e] /\ agenda'[e] = Agenda(e) /\ Len(Agenda(e)) \in Nat
    BY <1>0, <1>2, AgendaType DEF Deliver
  <2>3. Behind(e)' = 0
    BY <2>2 DEF Behind
  <2> QED  BY <2>1, <2>2, <2>3 DEF Traced
<1>3. CASE AlreadyTracked(e)
  <2>1. Grow /\ (\A p \in open' : poams'[p] > 0)
    BY <1>0, <1>3 DEF Grow, AlreadyTracked, stores
  <2>2. /\ state[e] = "running" /\ agenda[e] # <<>> /\ ~publishing[e] /\ Head(agenda[e]).kind = "track"
        /\ agenda'[e] = Tail(agenda[e]) /\ ~publishing'[e] /\ poams' = poams
        /\ Subject(e) \in open
    BY <1>0, <1>3 DEF AlreadyTracked, At, Advance, stores
  <2>3. ASSUME NEW s \in Steps, s = Head(agenda[e]) PROVE Done(s)'
    <3>1. poams'[Subject(e)] > 0
      BY <1>0, <2>2
    <3> QED  BY <2>2, <2>3, <3>1 DEF Done, Subject
  <2> QED  BY <1>0, <2>1, <2>2, <2>3, TracedMoves
<1>4. CASE AlreadyAttached(e)
  <2>1. Grow /\ (\A p \in open' : poams'[p] > 0)
    BY <1>0, <1>4 DEF Grow, AlreadyAttached, stores
  <2>2. /\ state[e] = "running" /\ agenda[e] # <<>> /\ ~publishing[e] /\ Head(agenda[e]).kind = "attach"
        /\ agenda'[e] = Tail(agenda[e]) /\ ~publishing'[e] /\ rows' = rows
        /\ rows[Subject(e)] > 0
    BY <1>0, <1>4 DEF AlreadyAttached, At, Advance, stores
  <2>3. ASSUME NEW s \in Steps, s = Head(agenda[e]) PROVE Done(s)'
    BY <2>2, <2>3 DEF Done, Subject
  <2> QED  BY <1>0, <2>1, <2>2, <2>3, TracedMoves
<1>5. CASE Track(e)
  <2>1. Subject(e) \in Pairs /\ agenda[e] # <<>> /\ Head(agenda[e]).kind = "track"
    BY <1>5, AtStep DEF Track
  <2>2. /\ poams' = [poams EXCEPT ![Subject(e)] = @ + 1] /\ open' = open \union {Subject(e)}
        /\ rows' = rows /\ sent' = sent /\ state' = state /\ agenda' = agenda
    BY <1>5 DEF Track, bus
  <2> DEFINE p == Subject(e)
  <2>3. p \in Pairs /\ poams' = [poams EXCEPT ![p] = @ + 1] /\ open' = open \union {p}
    BY <2>1, <2>2
  <2> HIDE DEF p
  <2>4. poams'[p] > 0 /\ \A q \in Pairs : poams'[q] >= poams[q]
    BY <1>0, <2>3
  <2>5. Grow
    BY <1>0, <2>2, <2>4 DEF Grow
  <2>6. \A q \in open' : poams'[q] > 0
    BY <1>0, <2>3, <2>4
  <2>7. ASSUME NEW s \in Steps, s = Head(agenda[e]) PROVE Done(s)'
    BY <2>1, <2>4, <2>7 DEF Done, Subject, p
  <2> QED  BY <1>0, <2>1, <2>2, <2>5, <2>6, <2>7, TracedAnnounces
<1>6. CASE Attach(e)
  <2>1. Subject(e) \in Refs /\ agenda[e] # <<>> /\ Head(agenda[e]).kind = "attach"
    BY <1>6, AtStep DEF Attach
  <2>2. /\ rows' = [rows EXCEPT ![Subject(e)] = @ + 1] /\ open' = open
        /\ poams' = poams /\ sent' = sent /\ state' = state /\ agenda' = agenda
    BY <1>6 DEF Attach, bus
  <2> DEFINE r == Subject(e)
  <2>3. r \in Refs /\ rows' = [rows EXCEPT ![r] = @ + 1]
    BY <2>1, <2>2
  <2> HIDE DEF r
  <2>4. rows'[r] > 0 /\ \A q \in Refs : rows'[q] >= rows[q]
    BY <1>0, <2>3
  <2>5. Grow /\ (\A q \in open' : poams'[q] > 0)
    BY <1>0, <2>2, <2>4 DEF Grow
  <2>6. ASSUME NEW s \in Steps, s = Head(agenda[e]) PROVE Done(s)'
    BY <2>1, <2>4, <2>6 DEF Done, Subject, r
  <2> QED  BY <1>0, <2>1, <2>2, <2>5, <2>6, TracedAnnounces
<1>7. CASE Violate(e)
  <2>1. agenda[e] # <<>> /\ Head(agenda[e]).kind = "violate" /\ state' = state /\ agenda' = agenda
    BY <1>7 DEF Violate, At, bus
  <2>2. Grow /\ (\A p \in open' : poams'[p] > 0)
    BY <1>0, <1>7 DEF Grow, Violate, stores
  <2> QED  BY <1>0, <2>1, <2>2, TracedAnnounces
<1>8. CASE Sent(e)
  <2>1. Grow /\ (\A p \in open' : poams'[p] > 0)
    BY <1>0, <1>8 DEF Grow, Sent, stores
  <2>2. /\ state[e] = "running" /\ agenda[e] # <<>> /\ publishing[e]
        /\ agenda'[e] = Tail(agenda[e]) /\ ~publishing'[e] /\ sent' = sent \union {Head(agenda[e])}
    BY <1>0, <1>8 DEF Sent, Advance
  <2>3. ASSUME NEW s \in Steps, s = Head(agenda[e]) PROVE Done(s)'
    <3>1. CASE s.kind = "violate"
      BY <2>2, <2>3, <3>1 DEF Done
    <3>2. CASE s.kind # "violate"
      <4>1. Done(s)
        BY <1>0, <2>2, <2>3, <3>2 DEF Traced
      <4> QED  BY <2>1, <4>1, DoneStays
    <3> QED  BY <3>1, <3>2
  <2> QED  BY <1>0, <2>1, <2>2, <2>3, TracedMoves
<1> QED
  BY <1>1, <1>2, <1>3, <1>4, <1>5, <1>6, <1>7, <1>8 DEF Handle

\* No step of one event touches the call of another.
LEMMA Apart ==
  ASSUME TypeOK, NEW e \in Events, NEW d \in Events, d # e,
         Publish(e) \/ Deliver(e) \/ DeadLetter(e) \/ Handle(e)
  PROVE  state'[d] = state[d] /\ agenda'[d] = agenda[d] /\ publishing'[d] = publishing[d]
<1>1. CASE Publish(e) \/ Deliver(e) \/ DeadLetter(e)
  BY <1>1 DEF TypeOK, Publish, Deliver, DeadLetter
<1>2. CASE AlreadyTracked(e) \/ Track(e) \/ Violate(e)
  BY <1>2 DEF TypeOK, AlreadyTracked, Track, Violate, Advance, BeginPublish, bus
<1>3. CASE AlreadyAttached(e) \/ Attach(e) \/ AttachRejected(e)
  BY <1>3 DEF TypeOK, AlreadyAttached, Attach, AttachRejected, Advance, BeginPublish, Throw, bus
<1>4. CASE Sent(e) \/ SendFails(e) \/ Ack(e)
  BY <1>4 DEF TypeOK, Sent, SendFails, Ack, Advance, Throw, bus
<1> QED  BY <1>1, <1>2, <1>3, <1>4 DEF Handle

\* Every step keeps the traces.
LEMMA TraceStep == TypeOK /\ TypeOK' /\ TraceInv /\ [Next]_vars => TraceInv'
<1> SUFFICES ASSUME TypeOK, TypeOK', TraceInv, [Next]_vars PROVE TraceInv'
  OBVIOUS
<1>1. ASSUME NEW e \in Events, Publish(e) \/ Deliver(e) \/ DeadLetter(e) \/ Handle(e)
      PROVE  TraceInv'
  <2>1. Grow /\ (\A p \in open' : poams'[p] > 0) /\ Traced(e)'
    BY <1>1, TraceOwn
  <2>2. ASSUME NEW d \in Events, d # e PROVE Traced(d)'
    <3>1. state'[d] = state[d] /\ agenda'[d] = agenda[d] /\ publishing'[d] = publishing[d]
      BY <1>1, <2>2, Apart
    <3>2. Traced(d)
      BY TraceParts
    <3> QED  BY <2>1, <3>1, <3>2, TracedStays
  <2>3. \A d \in Events : Traced(d)'
    BY <2>1, <2>2
  <2> QED  BY <2>1, <2>3 DEF TraceInv, Traced
<1>2. CASE Crash
  <2>1. open' = {} /\ \A e \in Events : state'[e] # "running" /\ ~publishing'[e]
    BY <1>2 DEF Crash, TypeOK
  <2> QED  BY <2>1 DEF TraceInv
<1>3. ASSUME (\E p \in Pairs : Resolve(p)) \/ UNCHANGED vars
      PROVE  TraceInv'
  <2>1. /\ open' \subseteq open /\ poams' = poams /\ rows' = rows /\ sent' = sent
        /\ state' = state /\ agenda' = agenda /\ publishing' = publishing
    BY <1>3 DEF Resolve, bus, vars
  <2>2. Grow
    BY <2>1 DEF Grow, TypeOK
  <2>3. ASSUME NEW d \in Events PROVE Traced(d)'
    <3>1. Traced(d)
      BY TraceParts
    <3> QED  BY <2>1, <2>2, <3>1, TracedStays
  <2> QED  BY <2>1, <2>3 DEF TraceInv, Traced
<1> QED  BY <1>1, <1>2, <1>3 DEF Next

\* Traces hold in every reachable state.
LEMMA TraceCorrect == Spec => [](TypeOK /\ TraceInv)
<1>1. Init => TraceInv
  BY DEF Init, TraceInv
<1>2. TypeOK /\ TraceInv /\ [Next]_vars => TypeOK' /\ TraceInv'
  BY TypeStep, TraceStep
<1> QED  BY <1>1, <1>2, TypeInit, PTL DEF Spec

\* However many deliveries, rejections and crashes it took, an event is
\* acknowledged only once every control it implicates has its POA&M item, its
\* violation on the bus and its evidence.
THEOREM AckedCorrect == Spec => AckedMeansDone
<1> DEFINE Complete == \A e \in Events : state[e] = "running" /\ state'[e] = "acked" =>
                         \A k \in 1..Len(Agenda(e)) : Done(Agenda(e)[k])
<1>1. TypeOK /\ TraceInv /\ [Next]_vars => [Complete]_vars
  <2> SUFFICES ASSUME TypeOK, TraceInv, Next,
                      NEW e \in Events, state[e] = "running", state'[e] = "acked",
                      NEW k \in 1..Len(Agenda(e))
               PROVE  Done(Agenda(e)[k])
    BY DEF vars
  <2>1. agenda[e] = <<>>
    <3>1. ASSUME NEW d \in Events, Publish(d) \/ Deliver(d) \/ DeadLetter(d) \/ Handle(d)
          PROVE  agenda[e] = <<>>
      <4>1. d = e
        BY <3>1, Apart
      <4>2. Ack(e)
        BY <3>1, <4>1 DEF TypeOK, Publish, Deliver, DeadLetter, Handle, AlreadyTracked, Track,
           Violate, AlreadyAttached, Attach, AttachRejected, Sent, SendFails, Throw, bus
      <4> QED  BY <4>2 DEF Ack
    <3>2. ASSUME Crash \/ \E p \in Pairs : Resolve(p) PROVE FALSE
      BY <3>2 DEF TypeOK, Crash, Resolve, bus
    <3> QED  BY <3>1, <3>2 DEF Next
  <2>2. k \in 1..Behind(e)
    BY <2>1, Position
  <2> QED  BY <2>2 DEF TraceInv
<1>2. Spec => [][Complete]_vars
  BY <1>1, TraceCorrect, PTL DEF Spec
<1> QED  BY <1>2 DEF AckedMeansDone

(***************************************************************************)
(* Evidence rows.                                                          *)
(***************************************************************************)

\* Scan evidence is about an artefact, and so not about a finding.
LEMMA ScanSubject ==
  ASSUME TypeOK, NEW e \in ScanEvents, At(e, "attach")
  PROVE  Subject(e)[2] \notin Findings
<1>1. e \in Events
  BY EventsAssumption
<1>2. PICK n \in 0..Len(Agenda(e)) : n = Behind(e)
  BY <1>1, Position
<1>3. /\ n < Len(Agenda(e)) /\ Head(agenda[e]) = Agenda(e)[n + 1]
      /\ Head(agenda[e]).kind = "attach"
  BY <1>1, <1>2, Position DEF At
<1> DEFINE s == Agenda(e)
<1>4. s \in Seq(StepsAbout(Artefacts))
  BY <1>1, AgendaType
<1> HIDE DEF s
<1>5. n + 1 \in 1..Len(s)
  BY <1>2, <1>3, <1>4 DEF s
<1>6. s[n + 1] \in StepsAbout(Artefacts)
  BY <1>4, <1>5
<1>7. Head(agenda[e]).about \in Artefacts
  BY <1>3, <1>6 DEF StepsAbout, s
<1> QED  BY <1>7, EventsAssumption DEF Subject

\* A repeat delivery of a finding inserts no second row for it: only the
\* append-only evidence of scans is ever stored twice.
THEOREM OneRowCorrect == Spec => []OneRowPerFinding
<1>1. Init => OneRowPerFinding
  BY DEF Init, OneRowPerFinding
<1>2. TypeOK /\ OneRowPerFinding /\ [Next]_vars => OneRowPerFinding'
  <2> SUFFICES ASSUME TypeOK, OneRowPerFinding, [Next]_vars, NEW r \in Refs, r[2] \in Findings
               PROVE  rows'[r] <= 1
    BY DEF OneRowPerFinding
  <2>0. rows \in [Refs -> Nat] /\ rows[r] <= 1
    BY DEF TypeOK, OneRowPerFinding
  <2>1. ASSUME NEW e \in Events, Attach(e) PROVE rows'[r] <= 1
    <3>1. rows' = [rows EXCEPT ![Subject(e)] = @ + 1] /\ At(e, "attach")
          /\ (e \in ScanEvents \/ rows[Subject(e)] = 0)
      BY <2>1 DEF Attach
    <3>2. CASE Subject(e) = r
      <4>1. e \notin ScanEvents
        BY <3>1, <3>2, ScanSubject
      <4> QED  BY <2>0, <3>1, <3>2, <4>1
    <3>3. CASE Subject(e) # r
      BY <2>0, <3>1, <3>3
    <3> QED  BY <3>2, <3>3
  <2>2. CASE Crash
    BY <2>2 DEF Crash
  <2>3. CASE UNCHANGED rows
    BY <2>0, <2>3
  <2>4. \/ \E e \in Events : Attach(e)
        \/ Crash
        \/ UNCHANGED rows
    BY DEF Next, Publish, Deliver, DeadLetter, Handle, AlreadyTracked, Track, Violate,
       AlreadyAttached, AttachRejected, Sent, SendFails, Ack, Resolve, stores, vars
  <2> QED  BY <2>1, <2>2, <2>3, <2>4
<1> QED  BY <1>1, <1>2, TypeCorrect, PTL DEF Spec

(***************************************************************************)
(* Evidence nobody hears of.                                               *)
(***************************************************************************)

\* There are finitely many rows.
LEMMA RefsFinite == IsFiniteSet(Refs)
<1>1. IsFiniteSet(Findings)
  <2> DEFINE F == {Range(Batch[e]) : e \in Events}
  <2>1. IsFiniteSet(F)
    <3>1. [e \in Events |-> Range(Batch[e])] \in Surjection(Events, F)
      BY DEF Surjection
    <3> HIDE DEF F
    <3> QED  BY <3>1, FS_Surjection, EventsAssumption
  <2>2. \A S \in F : IsFiniteSet(S)
    <3> SUFFICES ASSUME NEW e \in Events PROVE IsFiniteSet(Range(Batch[e]))
      OBVIOUS
    <3>1. Batch[e] \in Seq(Range(Batch[e]))
      BY EventsAssumption
    <3> QED  BY <3>1, RangeFinite
  <2> HIDE DEF F
  <2>3. IsFiniteSet(UNION F)
    BY <2>1, <2>2, FS_UNION
  <2> QED  BY <2>3 DEF F, Findings
<1>2. IsFiniteSet(Controls)
  <2> DEFINE C == {ControlsOf[f] : f \in Findings}
  <2>1. IsFiniteSet(C)
    <3>1. [f \in Findings |-> ControlsOf[f]] \in Surjection(Findings, C)
      BY DEF Surjection
    <3> HIDE DEF C
    <3> QED  BY <1>1, <3>1, FS_Surjection
  <2>2. \A S \in C : IsFiniteSet(S)
    BY EventsAssumption
  <2> HIDE DEF C
  <2>3. IsFiniteSet(UNION C)
    BY <2>1, <2>2, FS_UNION
  <2> QED  BY <2>3 DEF C, Controls
<1>3. IsFiniteSet({"sbom", "report"})
  <2>1. IsFiniteSet({"sbom"})
    BY FS_Singleton
  <2>2. IsFiniteSet({"sbom"} \union {"report"})
    BY <2>1, FS_AddElement
  <2>3. {"sbom", "report"} = {"sbom"} \union {"report"}
    OBVIOUS
  <2> QED  BY <2>2, <2>3
<1>4. IsFiniteSet(Findings \union Artefacts)
  BY <1>1, <1>3, FS_Union DEF Artefacts
<1> QED  BY <1>2, <1>4, FS_Product DEF Refs

\* An announcement is lost only where a publish is rejected, and at most one
\* with each rejection.
LEMMA UnannouncedStep ==
  ASSUME TypeOK, TypeOK', OneUnannouncedPerFault, [Next]_vars
  PROVE  OneUnannouncedPerFault'
<1> DEFINE Announces(e, r) == publishing[e] /\ Head(agenda[e]) = Step("attach", r[1], r[2])
           Lost(r) == /\ rows[r] > 0 /\ Step("attach", r[1], r[2]) \notin sent
                      /\ \A e \in Events : ~Announces(e, r)
<1>0. /\ faults \in Nat /\ IsFiniteSet(Unannounced) /\ Cardinality(Unannounced) <= faults
      /\ IsFiniteSet(Unannounced')
  <2>1. Unannounced \subseteq Refs /\ Unannounced' \subseteq Refs
    BY DEF Unannounced
  <2> QED  BY <2>1, RefsFinite, FS_Subset DEF TypeOK, OneUnannouncedPerFault
<1>1. ASSUME faults' = faults, \A r \in Refs : Lost(r)' => Lost(r)
      PROVE  OneUnannouncedPerFault'
  <2>1. Unannounced' \subseteq Unannounced
    BY <1>1 DEF Unannounced
  <2>2. Cardinality(Unannounced') <= Cardinality(Unannounced) /\ Cardinality(Unannounced) \in Nat
        /\ Cardinality(Unannounced') \in Nat
    BY <1>0, <2>1, FS_Subset, FS_CardinalityType
  <2> QED  BY <1>0, <1>1, <2>2 DEF OneUnannouncedPerFault
<1>2. ASSUME faults' = faults + 1, NEW x, \A r \in Refs : Lost(r)' => Lost(r) \/ r = x
      PROVE  OneUnannouncedPerFault'
  <2>1. Unannounced' \subseteq Unannounced \union {x}
    BY <1>2 DEF Unannounced
  <2>2. Cardinality(Unannounced') <= Cardinality(Unannounced) + 1 /\ Cardinality(Unannounced) \in Nat
        /\ Cardinality(Unannounced') \in Nat
    BY <1>0, <2>1, OneMore
  <2> QED  BY <1>0, <1>2, <2>2 DEF OneUnannouncedPerFault
<1> HIDE DEF Lost
<1>3. ASSUME NEW e \in Events, Publish(e) \/ Deliver(e) \/ DeadLetter(e) \/ Handle(e)
      PROVE  OneUnannouncedPerFault'
  <2>0. \A d \in Events : d # e => publishing'[d] = publishing[d] /\ agenda'[d] = agenda[d]
    BY <1>3, Apart
  <2>q. ~publishing[e] => \A r : ~Announces(e, r)
    OBVIOUS
  <2>1. ASSUME Publish(e) \/ Deliver(e) \/ DeadLetter(e) PROVE OneUnannouncedPerFault'
    <3>1. rows' = rows /\ sent' = sent /\ faults' = faults
      BY <2>1 DEF Publish, Deliver, DeadLetter, stores, config
    <3>2. publishing[e] => agenda'[e] = agenda[e]
      BY <2>1 DEF TypeOK, Publish, Deliver, DeadLetter
    <3>3. publishing' = publishing
      BY <2>1 DEF Publish, Deliver, DeadLetter
    <3>4. ASSUME NEW r \in Refs, Lost(r)' PROVE Lost(r)
      BY <2>0, <3>1, <3>2, <3>3, <3>4 DEF Lost
    <3> QED  BY <1>1, <3>1, <3>4
  <2>2. ASSUME AlreadyTracked(e) \/ AlreadyAttached(e) \/ Track(e) \/ Violate(e)
        PROVE OneUnannouncedPerFault'
    <3>1. rows' = rows /\ sent' = sent /\ faults' = faults /\ ~publishing[e]
      BY <2>2 DEF AlreadyTracked, AlreadyAttached, Track, Violate, At, stores, config
    <3>2. ASSUME NEW r \in Refs, Lost(r)' PROVE Lost(r)
      BY <2>0, <3>1, <3>2 DEF Lost
    <3> QED  BY <1>1, <3>1, <3>2
  <2>3. ASSUME Attach(e) PROVE OneUnannouncedPerFault'
    <3>1. /\ rows' = [rows EXCEPT ![Subject(e)] = @ + 1] /\ sent' = sent /\ faults' = faults
          /\ ~publishing[e] /\ publishing'[e] /\ agenda' = agenda
      BY <2>3 DEF Attach, At, BeginPublish, config, TypeOK
    <3>2. Subject(e) \in Refs /\ Head(agenda[e]) = Step("attach", Subject(e)[1], Subject(e)[2])
      BY <2>3, AtStep DEF Attach
    <3>3. ASSUME NEW r \in Refs, Lost(r)' PROVE Lost(r)
      <4>1. r # Subject(e)
        BY <3>1, <3>2, <3>3 DEF Lost
      <4>2. rows'[r] = rows[r]
        BY <3>1, <4>1 DEF TypeOK
      <4> QED  BY <2>0, <3>1, <3>3, <4>2 DEF Lost
    <3> QED  BY <1>1, <3>1, <3>3
  <2>4. ASSUME AttachRejected(e) PROVE OneUnannouncedPerFault'
    <3>1. rows' = rows /\ sent' = sent /\ faults' = faults /\ ~publishing[e]
      BY <2>4 DEF AttachRejected, At, stores, config
    <3>2. ASSUME NEW r \in Refs, Lost(r)' PROVE Lost(r)
      BY <2>0, <3>1, <3>2 DEF Lost
    <3> QED  BY <1>1, <3>1, <3>2
  <2>5. ASSUME Sent(e) PROVE OneUnannouncedPerFault'
    <3>1. rows' = rows /\ sent' = sent \union {Head(agenda[e])} /\ faults' = faults
      BY <2>5 DEF Sent, stores, config
    <3>2. ASSUME NEW r \in Refs, Lost(r)' PROVE Lost(r)
      BY <2>0, <3>1, <3>2 DEF Lost
    <3> QED  BY <1>1, <3>1, <3>2
  <2>6. ASSUME SendFails(e) PROVE OneUnannouncedPerFault'
    <3>1. /\ rows' = rows /\ sent \subseteq sent' /\ faults' = faults + 1
      BY <2>6 DEF SendFails, stores, Fault
    <3> DEFINE x == Subject(e)
    <3>2. ASSUME NEW r \in Refs, Lost(r)' PROVE Lost(r) \/ r = x
      <4>1. CASE Announces(e, r)
        <5>1. r = <<r[1], r[2]>>
          BY DEF Refs
        <5> QED  BY <4>1, <5>1 DEF Step, Subject
      <4>2. CASE ~Announces(e, r)
        BY <2>0, <3>1, <3>2, <4>2 DEF Lost
      <4> QED  BY <4>1, <4>2
    <3> HIDE DEF x
    <3> QED  BY <1>2, <3>1, <3>2
  <2>7. ASSUME Ack(e) PROVE OneUnannouncedPerFault'
    <3>1. /\ rows' = rows /\ sent' = sent /\ publishing' = publishing /\ agenda' = agenda
          /\ (faults' = faults \/ faults' = faults + 1)
      BY <2>7 DEF Ack, stores, config, Fault
    <3>2. ASSUME NEW r \in Refs, Lost(r)' PROVE Lost(r)
      BY <3>1, <3>2 DEF Lost
    <3> QED  BY <1>1, <1>2, <3>1, <3>2
  <2> QED  BY <1>3, <2>1, <2>2, <2>3, <2>4, <2>5, <2>6, <2>7 DEF Handle
<1>4. CASE Crash
  <2>1. faults' = faults + 1 /\ \A r \in Refs : rows'[r] = 0
    BY <1>4 DEF Crash, Fault
  <2>2. \A r \in Refs : Lost(r)' => Lost(r) \/ r = 0
    BY <2>1 DEF Lost
  <2> QED  BY <1>2, <2>1, <2>2
<1>5. ASSUME (\E p \in Pairs : Resolve(p)) \/ UNCHANGED vars PROVE OneUnannouncedPerFault'
  <2>1. /\ rows' = rows /\ sent' = sent /\ publishing' = publishing /\ agenda' = agenda
        /\ faults' = faults
    BY <1>5 DEF Resolve, config, vars
  <2>2. ASSUME NEW r \in Refs, Lost(r)' PROVE Lost(r)
    BY <2>1, <2>2 DEF Lost
  <2> QED  BY <1>1, <2>1, <2>2
<1> QED  BY <1>3, <1>4, <1>5 DEF Next

\* Evidence nobody hears of never outnumbers the faults, whatever the order of
\* deliveries, rejections and crashes.
THEOREM OneUnannouncedCorrect == Spec => []OneUnannouncedPerFault
<1>1. Init => OneUnannouncedPerFault
  <2> SUFFICES ASSUME Init PROVE OneUnannouncedPerFault
    OBVIOUS
  <2>1. Unannounced = {} /\ faults = 0
    BY DEF Init, Unannounced
  <2> QED  BY <2>1, FS_EmptySet DEF OneUnannouncedPerFault
<1>2. TypeOK /\ TypeOK' /\ OneUnannouncedPerFault /\ [Next]_vars => OneUnannouncedPerFault'
  BY UnannouncedStep
<1> QED  BY <1>1, <1>2, TypeCorrect, PTL DEF Spec
=============================================================================

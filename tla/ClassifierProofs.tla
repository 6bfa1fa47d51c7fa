-------------------------- MODULE ClassifierProofs --------------------------
(***************************************************************************)
(* Proofs about Classifier for any URLs, records, histories and schemas.   *)
(***************************************************************************)
EXTENDS Classifier, FiniteSetTheorems, SequenceTheorems, TLAPS

LEMMA ConfidencePercent == \A r : Confidence(r) \in 0..100
  BY DEF Confidence, sourceConfidence

\* No current record counts as history or as an API schema.
LEMMA SourceCurrent ==
    ASSUME NEW r \in Records
    PROVE  Source(r) \notin Derived
  BY ClassifierAssumption DEF Source

LEMMA FromMeaning ==
    ASSUME NEW facts, NEW source, NEW s \in From(facts, source)
    PROVE  s.source = source /\ \E f \in facts : s.type = f.type
  BY DEF From

\* Finitely many facts make finitely many signals.
LEMMA FromFinite ==
    ASSUME NEW facts, IsFiniteSet(facts), NEW source
    PROVE  IsFiniteSet(From(facts, source))
<1> DEFINE signal == [f \in facts |-> [type |-> f.type, value |-> f.value, source |-> source]]
<1>1. signal \in Surjection(facts, From(facts, source))
  BY DEF Surjection, From
<1> QED
  BY <1>1, FS_Surjection

LEMMA StatusFactsFinite == \A status : IsFiniteSet(StatusFacts(status))
<1> SUFFICES ASSUME NEW status PROVE IsFiniteSet(StatusFacts(status))
  OBVIOUS
<1> DEFINE code  == {Fact("response_status", ToString(status))}
           class == IF status \in {401, 403} THEN {Fact("authentication_status", ToString(status))}
                    ELSE IF status \in 300..399 THEN {Fact("redirect_status", ToString(status))}
                    ELSE IF status >= 500 THEN {Fact("server_error_status", ToString(status))} ELSE {}
<1>1. IsFiniteSet(code)
  BY FS_Singleton
<1>2. IsFiniteSet(class)
  <2>1. class = {} \/ \E f : class = {f}
    OBVIOUS
  <2> HIDE DEF class
  <2> QED
    BY <2>1, FS_EmptySet, FS_Singleton
<1>3. StatusFacts(status) = {} \/ StatusFacts(status) = code \cup class
  BY Zenon DEF StatusFacts
<1> HIDE DEF code, class
<1>4. IsFiniteSet(code \cup class)
  BY <1>1, <1>2, FS_Union
<1> QED
  BY <1>3, <1>4, FS_EmptySet

\* What a record shows is finite.
LEMMA RecordFactsFinite ==
    ASSUME NEW r \in Records
    PROVE  IsFiniteSet(RecordFacts(r))
<1> DEFINE techs  == {Fact("technology", t) : t \in r.technologies}
           fact   == [t \in r.technologies |-> Fact("technology", t)]
           method == IF r.method \notin {"GET", "HEAD", "OPTIONS"} THEN {Fact("http_method", r.method)} ELSE {}
           json   == IF r.content = "json" THEN {Fact("content_type", r.content)} ELSE {}
<1>1. IsFiniteSet(r.facts) /\ IsFiniteSet(r.technologies)
  BY ClassifierAssumption
<1>2. IsFiniteSet(techs)
  <2>1. fact \in Surjection(r.technologies, techs)
    BY DEF Surjection
  <2> QED
    BY <1>1, <2>1, FS_Surjection
<1>3. IsFiniteSet(StatusFacts(r.status))
  BY StatusFactsFinite
<1>4. IsFiniteSet(method) /\ IsFiniteSet(json)
  BY FS_EmptySet, FS_Singleton
<1> HIDE DEF techs, method, json
<1>5. IsFiniteSet(techs \cup StatusFacts(r.status) \cup method \cup json \cup r.facts)
  BY <1>1, <1>2, <1>3, <1>4, FS_Union
<1> QED
  BY <1>5 DEF RecordFacts, techs, method, json

\* An observation alone shows nothing about the history, and only known facts.
LEMMA ObservedTypes ==
    ASSUME NEW r \in Records, NEW u \in DOMAIN URLs, NEW f \in RecordFacts(r) \cup URLs[u].facts
    PROVE  f.type \in DOMAIN Weight /\ f.type # "historical_status_change"
<1>1. CASE f \in URLs[u].facts
  BY <1>1, ClassifierAssumption DEF URLFacts, Weight
<1>2. CASE f \in r.facts
  BY <1>2, ClassifierAssumption DEF OwnFacts, Weight
<1>3. CASE f \in StatusFacts(r.status)
  BY <1>3 DEF StatusFacts, Fact, Weight
<1>4. CASE f \in {Fact("technology", t) : t \in r.technologies} \cup {Fact("http_method", r.method), Fact("content_type", r.content)}
  BY <1>4 DEF Fact, Weight
<1> QED
  BY <1>1, <1>2, <1>3, <1>4 DEF RecordFacts

-----------------------------------------------------------------------------
(* One record applied to an aggregate.                                     *)

Fields(a) ==
    a = [url |-> a.url, signals |-> a.signals, sources |-> a.sources, confidence |-> a.confidence,
         seen |-> a.seen, status |-> a.status, technology |-> a.technology]

IsAggregate(a) ==
    /\ Fields(a)
    /\ a.url \in DOMAIN URLs
    /\ \A s \in a.signals : s.type \in DOMAIN Weight
    /\ a.confidence \in 0..100
    /\ a.seen \in BOOLEAN /\ a.status \in BOOLEAN /\ a.technology \in BOOLEAN

\* What records show at the URL of their aggregate.
Observed(rs, u) == UNION {From(RecordFacts(r) \cup URLs[u].facts, Source(r)) : r \in rs}

LEMMA ObservationFields ==
    ASSUME NEW a, IsAggregate(a), NEW r \in Records
    PROVE  LET b == applyObservation(a, r)
           IN  /\ IsAggregate(b)
               /\ b.url = a.url /\ b.seen = a.seen /\ b.status = a.status /\ b.technology = a.technology
               /\ b.sources = a.sources \cup {Source(r)}
               /\ b.confidence = IF Confidence(r) > a.confidence THEN Confidence(r) ELSE a.confidence
               /\ b.signals = a.signals \cup From(RecordFacts(r) \cup URLs[a.url].facts, Source(r))
<1> DEFINE new == From(RecordFacts(r) \cup URLs[a.url].facts, Source(r))
           b1  == [a EXCEPT !.sources = @ \cup {Source(r)}]
           b2  == [b1 EXCEPT !.confidence = IF Confidence(r) > @ THEN Confidence(r) ELSE @]
           b   == [b2 EXCEPT !.signals = @ \cup new]
<1>1. applyObservation(a, r) = b
  BY Zenon DEF applyObservation
<1>2. \A s \in new : s.type \in DOMAIN Weight
  BY FromMeaning, ObservedTypes DEF IsAggregate
<1> HIDE DEF new
<1>3. /\ Fields(b1) /\ b1.sources = a.sources \cup {Source(r)}
      /\ b1.url = a.url /\ b1.seen = a.seen /\ b1.status = a.status /\ b1.technology = a.technology
      /\ b1.confidence = a.confidence /\ b1.signals = a.signals
  <2>1. Fields(a)
    BY DEF IsAggregate
  <2> QED
    BY <2>1 DEF Fields
<1> HIDE DEF b1
<1>4. /\ Fields(b2) /\ b2.confidence = IF Confidence(r) > b1.confidence THEN Confidence(r) ELSE b1.confidence
      /\ b2.url = b1.url /\ b2.seen = b1.seen /\ b2.status = b1.status /\ b2.technology = b1.technology
      /\ b2.sources = b1.sources /\ b2.signals = b1.signals
  BY <1>3 DEF Fields
<1> HIDE DEF b2
<1>5. /\ Fields(b) /\ b.signals = b2.signals \cup new
      /\ b.url = b2.url /\ b.seen = b2.seen /\ b.status = b2.status /\ b.technology = b2.technology
      /\ b.sources = b2.sources /\ b.confidence = b2.confidence
  BY <1>4 DEF Fields
<1> HIDE DEF b
<1>6. IsAggregate(b)
  BY <1>2, <1>3, <1>4, <1>5, ConfidencePercent DEF IsAggregate
<1> QED
  BY <1>1, <1>3, <1>4, <1>5, <1>6 DEF new

\* Signals of an API schema or of the history, besides status changes.
Quiet(signals) ==
    \A s \in signals : s.source \in Derived /\ s.type \in DOMAIN Weight \ {"historical_status_change"}

\* What the schemas add to the signals.
Joined(a, b) == \E extra : Quiet(extra) /\ IsFiniteSet(extra) /\ b.signals = a.signals \cup extra

LEMMA SchemaFields ==
    ASSUME NEW a, IsAggregate(a), NEW r
    PROVE  LET b == applySchema(a, r)
           IN  /\ IsAggregate(b)
               /\ b.url = a.url /\ b.seen = a.seen /\ b.status = a.status /\ b.technology = a.technology
               /\ b.sources = a.sources /\ b.confidence = a.confidence
               /\ Joined(a, b)
<1> DEFINE member == From({Fact("api_schema_membership", URLs[r.url].route)}, "api_schema")
           b == [a EXCEPT !.signals = @ \cup member]
<1>1. applySchema(a, r) = a \/ applySchema(a, r) = b
  BY Zenon DEF applySchema
<1>2. Quiet(member) /\ IsFiniteSet(member)
  <2>1. Quiet(member)
    BY FromMeaning DEF Quiet, From, Fact, Derived, Weight
  <2>2. IsFiniteSet(member)
    BY FS_Singleton, FromFinite
  <2> QED
    BY <2>1, <2>2
<1>3. Quiet({}) /\ IsFiniteSet({}) /\ a.signals = a.signals \cup {}
  BY FS_EmptySet DEF Quiet
<1> HIDE DEF member
<1>4. /\ Fields(b) /\ b.signals = a.signals \cup member
      /\ b.url = a.url /\ b.seen = a.seen /\ b.status = a.status /\ b.technology = a.technology
      /\ b.sources = a.sources /\ b.confidence = a.confidence
  <2>1. Fields(a)
    BY DEF IsAggregate
  <2> QED
    BY <2>1 DEF Fields
<1> HIDE DEF b
<1>5. IsAggregate(b)
  BY <1>2, <1>4 DEF IsAggregate, Quiet
<1>6. CASE applySchema(a, r) = a
  BY <1>3, <1>6 DEF Joined
<1>7. CASE applySchema(a, r) = b
  BY <1>2, <1>4, <1>5, <1>7 DEF Joined
<1> QED
  BY <1>1, <1>6, <1>7

\* What a comparison with the history adds to the signals.
Compared(a, b, r) ==
    \E extra, change :
        /\ Quiet(extra) /\ IsFiniteSet(extra \cup change)
        /\ b.signals = a.signals \cup extra \cup change
        /\ \A s \in change : s.source = "history" /\ s.type = "historical_status_change"
        /\ IF Previous(r) = {} THEN change = {} ELSE change # {} <=> b.status

LEMMA HistoryFields ==
    ASSUME NEW a, IsAggregate(a), NEW r
    PROVE  LET b == applyHistory(a, r)
           IN  /\ IsAggregate(b)
               /\ b.url = a.url /\ b.sources = a.sources /\ b.confidence = a.confidence
               /\ b.seen <=> (a.seen \/ Previous(r) # {})
               /\ b.status <=> (a.status \/ \E h \in Previous(r) : StatusDiffers(r, h))
               /\ b.technology <=> (a.technology \/ \E h \in Previous(r) : TechnologyDiffers(r, h))
               /\ Compared(a, b, r)
<1> DEFINE changed  == a.status \/ \E h \in Previous(r) : StatusDiffers(r, h)
           retooled == a.technology \/ \E h \in Previous(r) : TechnologyDiffers(r, h)
           change   == From(IF changed THEN {Fact("historical_status_change", "changed")} ELSE {}, "history")
           extra    == From({Fact("historically_observed", r.url)}
                              \cup IF retooled THEN {Fact("historical_technology_change", "changed")} ELSE {},
                            "history")
           new      == From({Fact("new_endpoint", r.url)}, "history")
           flags    == (IF changed THEN {Fact("historical_status_change", "changed")} ELSE {})
                          \cup (IF retooled THEN {Fact("historical_technology_change", "changed")} ELSE {})
           all      == From({Fact("historically_observed", r.url)} \cup flags, "history")
<1>1. Quiet(extra)
  BY DEF Quiet, From, Fact, Derived, Weight
<1>2. Quiet(new) /\ IsFiniteSet(new \cup {})
  <2>1. Quiet(new)
    BY DEF Quiet, From, Fact, Derived, Weight
  <2>2. IsFiniteSet(new)
    BY FS_Singleton, FromFinite
  <2> QED
    BY <2>1, <2>2
<1>3. Quiet({}) /\ IsFiniteSet({} \cup {})
  BY FS_EmptySet DEF Quiet
<1>4. \A s \in change : s.source = "history" /\ s.type = "historical_status_change"
  BY DEF From, Fact
<1>5. change # {} <=> changed
  BY DEF From
<1>6. all = extra \cup change /\ IsFiniteSet(all)
  <2>1. all = extra \cup change
    BY DEF From
  <2>2. IsFiniteSet(flags)
    BY FS_EmptySet, FS_Singleton, FS_Union
  <2>3. IsFiniteSet({Fact("historically_observed", r.url)} \cup flags)
    BY <2>2, FS_Singleton, FS_Union
  <2> QED
    BY <2>1, <2>3, FromFinite
<1>7. CASE Previous(r) # {}
  <2> DEFINE yes == TRUE
             b1 == [a EXCEPT !.seen = yes]
             b2 == [b1 EXCEPT !.status = changed]
             b3 == [b2 EXCEPT !.technology = retooled]
             b  == [b3 EXCEPT !.signals = @ \cup all]
  <2>1. applyHistory(a, r) = b
    BY <1>7, Zenon DEF applyHistory
  <2> HIDE DEF changed, retooled, all, yes
  <2>2. /\ Fields(b1) /\ b1.seen = yes
        /\ b1.url = a.url /\ b1.sources = a.sources /\ b1.confidence = a.confidence /\ b1.signals = a.signals
    <3>1. Fields(a)
      BY DEF IsAggregate
    <3> QED
      BY <3>1 DEF Fields
  <2> HIDE DEF b1
  <2>3. /\ Fields(b2) /\ b2.seen = b1.seen /\ b2.status = changed
        /\ b2.url = b1.url /\ b2.sources = b1.sources /\ b2.confidence = b1.confidence /\ b2.signals = b1.signals
    BY <2>2 DEF Fields
  <2> HIDE DEF b2
  <2>4. /\ Fields(b3) /\ b3.seen = b2.seen /\ b3.status = b2.status /\ b3.technology = retooled
        /\ b3.url = b2.url /\ b3.sources = b2.sources /\ b3.confidence = b2.confidence /\ b3.signals = b2.signals
    BY <2>3 DEF Fields
  <2> HIDE DEF b3
  <2>5. /\ Fields(b) /\ b.seen = b3.seen /\ b.status = b3.status /\ b.technology = b3.technology
        /\ b.url = b3.url /\ b.sources = b3.sources /\ b.confidence = b3.confidence
        /\ b.signals = b3.signals \cup all
    BY <2>4 DEF Fields
  <2> HIDE DEF b
  <2>6. changed \in BOOLEAN /\ retooled \in BOOLEAN /\ yes = TRUE
    BY DEF changed, retooled, yes
  <2>7. \A s \in all : s.type \in DOMAIN Weight
    BY <1>1, <1>4, <1>6 DEF Quiet, Weight
  <2>8. IsAggregate(b)
    BY <2>2, <2>3, <2>4, <2>5, <2>6, <2>7 DEF IsAggregate
  <2>9. /\ b.signals = a.signals \cup extra \cup change
        /\ change # {} <=> b.status
    BY <1>5, <1>6, <2>2, <2>3, <2>4, <2>5
  <2> HIDE DEF extra, change
  <2>10. /\ b.seen <=> (a.seen \/ Previous(r) # {})
         /\ b.status <=> changed
         /\ b.technology <=> retooled
    BY <1>7, <2>2, <2>3, <2>4, <2>5, <2>6
  <2> QED
    BY <1>1, <1>4, <1>6, <1>7, <2>1, <2>2, <2>3, <2>4, <2>5, <2>8, <2>9, <2>10
    DEF changed, retooled, Compared
<1>8. CASE Previous(r) = {}
  <2> DEFINE b == [a EXCEPT !.signals = @ \cup new]
  <2>1. applyHistory(a, r) = a \/ applyHistory(a, r) = b
    BY <1>8, Zenon DEF applyHistory
  <2> HIDE DEF new
  <2>2. /\ Fields(b) /\ b.signals = a.signals \cup new
        /\ b.url = a.url /\ b.seen = a.seen /\ b.status = a.status /\ b.technology = a.technology
        /\ b.sources = a.sources /\ b.confidence = a.confidence
    <3>1. Fields(a)
      BY DEF IsAggregate
    <3> QED
      BY <3>1 DEF Fields
  <2> HIDE DEF b
  <2>3. IsAggregate(b)
    BY <1>2, <2>2 DEF IsAggregate, Quiet
  <2>4. a.signals = a.signals \cup {} \cup {} /\ b.signals = a.signals \cup new \cup {}
    BY <2>2
  <2>5. CASE applyHistory(a, r) = a
    BY <1>3, <1>8, <2>4, <2>5 DEF Compared
  <2>6. CASE applyHistory(a, r) = b
    BY <1>2, <1>8, <2>2, <2>3, <2>4, <2>6 DEF Compared
  <2> QED
    BY <2>1, <2>5, <2>6
<1> QED
  BY <1>7, <1>8

-----------------------------------------------------------------------------
(* What an aggregate has gathered.                                         *)

\* The evidence of aggregate a is that of the records rs.
Gathered(a, rs) ==
    /\ a.sources = {Source(r) : r \in rs}
    /\ \A r \in rs : Confidence(r) <= a.confidence
    /\ IF rs = {} THEN a.confidence = 0 ELSE \E r \in rs : Confidence(r) = a.confidence
    /\ a.seen <=> \E r \in rs : Previous(r) # {}
    /\ a.status <=> \E r \in rs : \E h \in Previous(r) : StatusDiffers(r, h)
    /\ a.technology <=> \E r \in rs : \E h \in Previous(r) : TechnologyDiffers(r, h)
    /\ {s \in a.signals : s.source \notin Derived} = Observed(rs, a.url)
    /\ a.status <=> \E s \in a.signals : s.type = "historical_status_change"

LEMMA NewAggregate ==
    ASSUME NEW r, r.url \in DOMAIN URLs
    PROVE  /\ IsAggregate(newAggregate(r)) /\ Gathered(newAggregate(r), {})
           /\ newAggregate(r).url = r.url
<1> DEFINE a == newAggregate(r)
<1>1. /\ Fields(a) /\ a.url = r.url /\ a.signals = {} /\ a.sources = {} /\ a.confidence = 0
      /\ a.seen = FALSE /\ a.status = FALSE /\ a.technology = FALSE
  BY DEF newAggregate, Fields
<1>2. Observed({}, a.url) = {}
  BY DEF Observed
<1> HIDE DEF a
<1>3. IsAggregate(a)
  <2>1. a.seen \in BOOLEAN /\ a.status \in BOOLEAN /\ a.technology \in BOOLEAN
    BY <1>1, Zenon
  <2>2. a.confidence \in 0..100 /\ \A s \in a.signals : s.type \in DOMAIN Weight
    BY <1>1
  <2>3. Fields(a) /\ a.url \in DOMAIN URLs
    BY <1>1
  <2> QED
    BY <2>1, <2>2, <2>3, Zenon DEF IsAggregate
<1>4. Gathered(a, {})
  BY <1>1, <1>2 DEF Gathered
<1> QED
  BY <1>1, <1>3, <1>4 DEF a

\* Applying a record adds its evidence to what an aggregate has gathered.
LEMMA RecordGathered ==
    ASSUME NEW a, IsAggregate(a), NEW rs, Gathered(a, rs), NEW r \in Records
    PROVE  LET b == applyHistory(applySchema(applyObservation(a, r), r), r)
           IN  IsAggregate(b) /\ Gathered(b, rs \cup {r}) /\ b.url = a.url
<1> DEFINE new  == From(RecordFacts(r) \cup URLs[a.url].facts, Source(r))
           o    == applyObservation(a, r)
           m    == applySchema(o, r)
           b    == applyHistory(m, r)
           more == rs \cup {r}
<1>1. /\ IsAggregate(o)
      /\ o.url = a.url /\ o.seen = a.seen /\ o.status = a.status /\ o.technology = a.technology
      /\ o.sources = a.sources \cup {Source(r)}
      /\ o.confidence = IF Confidence(r) > a.confidence THEN Confidence(r) ELSE a.confidence
      /\ o.signals = a.signals \cup new
  BY ObservationFields
<1> HIDE DEF o
<1>2. /\ IsAggregate(m)
      /\ m.url = o.url /\ m.seen = o.seen /\ m.status = o.status /\ m.technology = o.technology
      /\ m.sources = o.sources /\ m.confidence = o.confidence
      /\ Joined(o, m)
  BY <1>1, SchemaFields
<1> HIDE DEF m
<1>3. /\ IsAggregate(b)
      /\ b.url = m.url /\ b.sources = m.sources /\ b.confidence = m.confidence
      /\ b.seen <=> (m.seen \/ Previous(r) # {})
      /\ b.status <=> (m.status \/ \E h \in Previous(r) : StatusDiffers(r, h))
      /\ b.technology <=> (m.technology \/ \E h \in Previous(r) : TechnologyDiffers(r, h))
      /\ Compared(m, b, r)
  BY <1>2, HistoryFields
<1> HIDE DEF b
<1>4. PICK member : Quiet(member) /\ m.signals = o.signals \cup member
  BY <1>2 DEF Joined
<1>5. PICK extra, change :
          /\ Quiet(extra) /\ b.signals = m.signals \cup extra \cup change
          /\ \A s \in change : s.source = "history" /\ s.type = "historical_status_change"
          /\ IF Previous(r) = {} THEN change = {} ELSE change # {} <=> b.status
  BY <1>3 DEF Compared
<1>6. \A s \in new : s.source \notin Derived /\ s.type # "historical_status_change"
  BY FromMeaning, ObservedTypes, SourceCurrent DEF IsAggregate
<1>7. b.sources = {Source(x) : x \in more}
  BY <1>1, <1>2, <1>3 DEF Gathered
<1>8. /\ \A x \in more : Confidence(x) <= b.confidence
      /\ \E x \in more : Confidence(x) = b.confidence
  <2>1. a.confidence \in 0..100 /\ \A x : Confidence(x) \in 0..100
    BY ConfidencePercent DEF IsAggregate
  <2>2. b.confidence = IF Confidence(r) > a.confidence THEN Confidence(r) ELSE a.confidence
    BY <1>1, <1>2, <1>3
  <2>3. rs = {} => a.confidence = 0
    BY DEF Gathered
  <2>4. /\ \A x \in rs : Confidence(x) <= a.confidence
        /\ rs # {} => \E x \in rs : Confidence(x) = a.confidence
    BY DEF Gathered
  <2>5. a.confidence <= b.confidence /\ Confidence(r) <= b.confidence
    BY <2>1, <2>2
  <2>6. ASSUME NEW x \in more PROVE Confidence(x) <= b.confidence
    <3>1. CASE x = r
      BY <2>5, <3>1
    <3>2. CASE x \in rs
      <4>1. Confidence(x) <= a.confidence /\ Confidence(x) \in Int
        BY <2>1, <2>4, <3>2
      <4>2. a.confidence \in Int /\ b.confidence \in Int
        BY <2>1, <2>2
      <4> QED
        BY <2>5, <4>1, <4>2
    <3> QED
      BY <3>1, <3>2
  <2>7. \E x \in more : Confidence(x) = b.confidence
    <3>1. r \in more /\ rs \subseteq more
      OBVIOUS
    <3>2. CASE b.confidence = Confidence(r)
      BY <3>1, <3>2
    <3>3. CASE b.confidence = a.confidence /\ rs # {}
      BY <2>4, <3>1, <3>3
    <3>4. CASE b.confidence = a.confidence /\ rs = {}
      <4>1. Confidence(r) = b.confidence
        BY <2>1, <2>2, <2>3, <3>4
      <4> QED
        BY <3>1, <4>1
    <3>5. b.confidence = Confidence(r) \/ b.confidence = a.confidence
      BY <2>2
    <3> QED
      BY <3>2, <3>3, <3>4, <3>5
  <2> QED
    BY <2>6, <2>7
<1>9. /\ b.seen <=> \E x \in more : Previous(x) # {}
      /\ b.status <=> \E x \in more : \E h \in Previous(x) : StatusDiffers(x, h)
      /\ b.technology <=> \E x \in more : \E h \in Previous(x) : TechnologyDiffers(x, h)
  <2>1. /\ m.seen <=> \E x \in rs : Previous(x) # {}
        /\ m.status <=> \E x \in rs : \E h \in Previous(x) : StatusDiffers(x, h)
        /\ m.technology <=> \E x \in rs : \E h \in Previous(x) : TechnologyDiffers(x, h)
    BY <1>1, <1>2 DEF Gathered
  <2> QED
    BY <1>3, <2>1
<1>10. {s \in b.signals : s.source \notin Derived} = Observed(more, b.url)
  <2>1. b.signals = a.signals \cup new \cup member \cup extra \cup change
    BY <1>1, <1>4, <1>5
  <2>2. {s \in b.signals : s.source \notin Derived} = {s \in a.signals : s.source \notin Derived} \cup new
    BY <1>4, <1>5, <1>6, <2>1 DEF Quiet, Derived
  <2>3. Observed(more, a.url) = Observed(rs, a.url) \cup new
    BY DEF Observed
  <2>4. b.url = a.url
    BY <1>1, <1>2, <1>3
  <2> QED
    BY <2>2, <2>3, <2>4 DEF Gathered
<1>11. b.status <=> \E s \in b.signals : s.type = "historical_status_change"
  <2>1. b.signals = a.signals \cup new \cup member \cup extra \cup change
    BY <1>1, <1>4, <1>5
  <2>2. \A s \in new \cup member \cup extra : s.type # "historical_status_change"
    BY <1>4, <1>5, <1>6 DEF Quiet
  <2>3. m.status <=> \E s \in a.signals : s.type = "historical_status_change"
    BY <1>1, <1>2 DEF Gathered
  <2>4. CASE Previous(r) = {}
    BY <1>3, <1>5, <2>1, <2>2, <2>3, <2>4
  <2>5. CASE Previous(r) # {}
    BY <1>3, <1>5, <2>1, <2>2, <2>3, <2>5
  <2> QED
    BY <2>4, <2>5
<1>12. Gathered(b, more)
  BY <1>7, <1>8, <1>9, <1>10, <1>11 DEF Gathered
<1> QED
  BY <1>1, <1>2, <1>3, <1>12 DEF b, m, o

\* A record takes nothing from an aggregate.
LEMMA RecordAdds ==
    ASSUME NEW a, IsAggregate(a), NEW r \in Records
    PROVE  LET b == applyHistory(applySchema(applyObservation(a, r), r), r)
           IN  /\ a.signals \subseteq b.signals /\ a.sources \subseteq b.sources
               /\ a.confidence <= b.confidence
<1> DEFINE o == applyObservation(a, r)
           m == applySchema(o, r)
           b == applyHistory(m, r)
<1>1. /\ IsAggregate(o) /\ a.signals \subseteq o.signals /\ a.sources \subseteq o.sources
      /\ o.confidence = IF Confidence(r) > a.confidence THEN Confidence(r) ELSE a.confidence
  BY ObservationFields
<1> HIDE DEF o
<1>2. /\ IsAggregate(m) /\ o.signals \subseteq m.signals /\ m.sources = o.sources
      /\ m.confidence = o.confidence
  BY <1>1, SchemaFields DEF Joined
<1> HIDE DEF m
<1>3. b.sources = m.sources /\ b.confidence = m.confidence /\ Compared(m, b, r)
  BY <1>2, HistoryFields
<1> HIDE DEF b
<1>4. m.signals \subseteq b.signals
  BY <1>3 DEF Compared
<1>5. a.confidence <= o.confidence
  BY <1>1, ConfidencePercent DEF IsAggregate
<1>6. /\ a.signals \subseteq b.signals /\ a.sources \subseteq b.sources
      /\ a.confidence <= b.confidence
  BY <1>1, <1>2, <1>3, <1>4, <1>5
<1> QED
  BY <1>6 DEF b, m, o

-----------------------------------------------------------------------------
LEMMA InputsAreSequences == Inputs \subseteq Seq(Records)
  BY SeqDef, ClassifierAssumption DEF Inputs

\* Every aggregate has gathered the evidence of the records applied under its
\* key; for a key without an aggregate no record was applied, so that a new
\* aggregate starts with nothing missed.
AggregateInv ==
    /\ input \in Seq(Records) /\ pos \in 1..(Len(input) + 1)
    /\ verdict \in {"running", "done", "failed"}
    /\ \A i \in 1..(pos - 1) : Key(input[i]) \in DOMAIN agg
    /\ \A k \in DOMAIN agg : /\ IsAggregate(agg[k])
                             /\ agg[k].url \in {r.url : r \in AppliedTo(k)}
                             /\ Gathered(agg[k], AppliedTo(k))

LEMMA AggregateInit == ClassifierInit => AggregateInv
<1> SUFFICES ASSUME ClassifierInit PROVE AggregateInv
  OBVIOUS
<1>1. input \in Seq(Records) /\ Len(input) \in Nat
  BY InputsAreSequences DEF ClassifierInit
<1>2. pos = 1 /\ DOMAIN agg = {} /\ verdict = "running"
  BY DEF ClassifierInit
<1> QED
  BY <1>1, <1>2 DEF AggregateInv

\* ApplyRecord applies the record at pos to the aggregate of its key.
LEMMA AggregateStep == AggregateInv /\ [ClassifierNext]_classifierVars => AggregateInv'
<1> SUFFICES ASSUME AggregateInv, [ClassifierNext]_classifierVars PROVE AggregateInv'
  OBVIOUS
<1>1. CASE ApplyRecord
  <2> DEFINE r   == input[pos]
             key == Key(r)
             old == IF key \in DOMAIN agg THEN agg[key] ELSE newAggregate(r)
             b   == applyHistory(applySchema(applyObservation(old, r), r), r)
  <2>1. /\ pos \in 1..Len(input) /\ pos' = pos + 1 /\ r.url # BadURL
        /\ UNCHANGED <<input, history, schema, verdict>>
        /\ agg' = [k \in DOMAIN agg \cup {key} |-> IF k = key THEN b ELSE agg[k]]
    BY <1>1 DEF ApplyRecord, AggregateInv
  <2>2. r \in Records /\ r.url \in DOMAIN URLs
    BY <2>1, ClassifierAssumption DEF AggregateInv
  <2> HIDE DEF b
  <2>3. \A k : AppliedTo(k)' = IF k = key THEN AppliedTo(k) \cup {r} ELSE AppliedTo(k)
    <3> SUFFICES ASSUME NEW k
                 PROVE  AppliedTo(k)' = IF k = key THEN AppliedTo(k) \cup {r} ELSE AppliedTo(k)
      OBVIOUS
    <3>1. 1..(pos' - 1) = 1..(pos - 1) \cup {pos}
      BY <2>1
    <3>2. AppliedTo(k)' = {input[i] : i \in {j \in 1..(pos - 1) \cup {pos} : Key(input[j]) = k}}
      BY <2>1, <3>1 DEF AppliedTo
    <3> QED
      BY <3>2 DEF AppliedTo
  <2>4. key \notin DOMAIN agg => AppliedTo(key) = {}
    BY DEF AggregateInv, AppliedTo
  <2>5. /\ IsAggregate(old) /\ Gathered(old, AppliedTo(key))
        /\ old.url \in {x.url : x \in AppliedTo(key) \cup {r}}
    <3>1. CASE key \in DOMAIN agg
      BY <3>1 DEF AggregateInv
    <3>2. CASE key \notin DOMAIN agg
      BY <2>2, <2>4, <3>2, NewAggregate
    <3> QED
      BY <3>1, <3>2
  <2>6. /\ IsAggregate(b) /\ Gathered(b, AppliedTo(key) \cup {r})
        /\ b.url \in {x.url : x \in AppliedTo(key) \cup {r}}
    BY <2>2, <2>5, RecordGathered DEF b
  <2> HIDE DEF r, key
  <2>7. ASSUME NEW k \in DOMAIN agg'
        PROVE  /\ IsAggregate(agg'[k])
               /\ agg'[k].url \in {x.url : x \in AppliedTo(k)'}
               /\ Gathered(agg'[k], AppliedTo(k)')
    <3>1. CASE k = key
      BY <2>1, <2>3, <2>6, <3>1
    <3>2. CASE k # key
      <4>1. k \in DOMAIN agg /\ agg'[k] = agg[k] /\ AppliedTo(k)' = AppliedTo(k)
        BY <2>1, <2>3, <3>2
      <4> QED
        BY <4>1 DEF AggregateInv
    <3> QED
      BY <3>1, <3>2
  <2>8. ASSUME NEW k \in DOMAIN agg' PROVE Gathered(agg[k], AppliedTo(k))'
    <3>1. \A x : Previous(x)' = Previous(x)
      BY <2>1 DEF Previous
    <3>2. Gathered(agg'[k], AppliedTo(k)')
      BY <2>7
    <3> QED
      BY <3>1, <3>2 DEF Gathered, Observed
  <2>9. \A k \in DOMAIN agg' : IsAggregate(agg[k])'
    BY <2>7 DEF IsAggregate, Fields
  <2>10. \A i \in 1..(pos' - 1) : Key(input'[i]) \in DOMAIN agg'
    BY <2>1 DEF AggregateInv, key, r
  <2>11. /\ input' \in Seq(Records) /\ pos' \in 1..(Len(input') + 1)
         /\ verdict' \in {"running", "done", "failed"}
    BY <2>1 DEF AggregateInv
  <2> QED
    BY <2>7, <2>8, <2>9, <2>10, <2>11 DEF AggregateInv, Key
<1>2. ASSUME UNCHANGED <<input, history, pos, agg>>, verdict' \in {"running", "done", "failed"}
      PROVE  AggregateInv'
  <2>1. /\ \A x : Previous(x)' = Previous(x)
        /\ \A k : AppliedTo(k)' = AppliedTo(k)
    BY <1>2 DEF Previous, AppliedTo
  <2>2. \A k \in DOMAIN agg : IsAggregate(agg[k])' /\ (agg[k].url \in {r.url : r \in AppliedTo(k)})'
    BY <1>2, <2>1 DEF AggregateInv, IsAggregate, Fields
  <2>3. ASSUME NEW k \in DOMAIN agg PROVE Gathered(agg[k], AppliedTo(k))'
    <3>1. Gathered(agg[k], AppliedTo(k))
      BY DEF AggregateInv
    <3> QED
      BY <1>2, <2>1, <3>1 DEF Gathered, Observed
  <2> QED
    BY <1>2, <2>2, <2>3 DEF AggregateInv, Key
<1>3. CASE SchemaRefused \/ RecordRefused \/ Finish \/ UNCHANGED classifierVars
  BY <1>2, <1>3 DEF SchemaRefused, RecordRefused, Finish, classifierVars, AggregateInv
<1> QED
  BY <1>1, <1>3 DEF ClassifierNext

\* Every aggregate stands for a URL of the input, with known facts and a
\* confidence in percent.
THEOREM ClassifierTypeCorrect == ClassifierSpec => []ClassifierTypeOK
<1>1. AggregateInv => ClassifierTypeOK
  BY DEF AggregateInv, IsAggregate, ClassifierTypeOK
<1> QED
  BY <1>1, AggregateInit, AggregateStep, PTL DEF ClassifierSpec

\* The confidence of the most confident record is the greatest confidence.
LEMMA GreatestConfidence ==
    ASSUME NEW rs, NEW c, \A r \in rs : Confidence(r) <= c, \E r \in rs : Confidence(r) = c
    PROVE  Max({Confidence(r) : r \in rs}) = c
<1> DEFINE S == {Confidence(r) : r \in rs}
<1>1. c \in S /\ (\A y \in S : c >= y) /\ S \subseteq 0..100
  BY ConfidencePercent
<1>2. Max(S) = CHOOSE x \in S : \A y \in S : x >= y
  BY DEF Max
<1> HIDE DEF S
<1>3. Max(S) \in S /\ \A y \in S : Max(S) >= y
  BY <1>1, <1>2
<1>4. Max(S) = c
  <2> DEFINE m == Max(S)
  <2>1. m \in 0..100 /\ c \in 0..100 /\ m >= c /\ c >= m
    BY <1>1, <1>3
  <2> HIDE DEF m
  <2>2. m = c
    BY <2>1
  <2> QED
    BY <2>2 DEF m
<1> QED
  BY <1>4 DEF S

\* Classify gives an endpoint the evidence of the set of its records, whatever
\* their order within the lists and however often each is repeated.
THEOREM EvidenceAlwaysOrderFree == ClassifierSpec => []EvidenceOrderFree
<1>1. AggregateInv => EvidenceOrderFree
  <2> SUFFICES ASSUME AggregateInv, NEW k \in DOMAIN agg
               PROVE  LET rs == AppliedTo(k)
                      IN  /\ rs # {}
                          /\ agg[k].url \in {r.url : r \in rs}
                          /\ agg[k].sources = {Source(r) : r \in rs}
                          /\ agg[k].confidence = Max({Confidence(r) : r \in rs})
                          /\ agg[k].seen <=> \E r \in rs : Previous(r) # {}
                          /\ agg[k].status <=> \E r \in rs : \E h \in Previous(r) : StatusDiffers(r, h)
                          /\ agg[k].technology <=> \E r \in rs : \E h \in Previous(r) : TechnologyDiffers(r, h)
                          /\ {s \in agg[k].signals : s.source \notin Derived}
                                 = UNION {From(RecordFacts(r) \cup URLs[agg[k].url].facts, Source(r)) : r \in rs}
                          /\ agg[k].status <=> \E s \in agg[k].signals : s.type = "historical_status_change"
    BY Zenon DEF EvidenceOrderFree
  <2> DEFINE rs == AppliedTo(k)
  <2>1. Gathered(agg[k], rs) /\ agg[k].url \in {r.url : r \in rs} /\ rs # {}
    BY DEF AggregateInv
  <2> HIDE DEF rs
  <2>2. agg[k].confidence = Max({Confidence(r) : r \in rs})
    BY <2>1, GreatestConfidence DEF Gathered
  <2> QED
    BY <2>1, <2>2, Zenon DEF Gathered, Observed, rs
<1> QED
  BY <1>1, AggregateInit, AggregateStep, PTL DEF ClassifierSpec

\* What a score and a confidence are computed from only grows: an aggregate is
\* never dropped and loses neither a signal nor a source.
EvidenceKept ==
    \A k \in DOMAIN agg : /\ k \in DOMAIN agg'
                          /\ agg[k].signals \subseteq agg'[k].signals
                          /\ agg[k].sources \subseteq agg'[k].sources
                          /\ agg[k].confidence <= agg'[k].confidence

EvidenceGrows == [][EvidenceKept]_classifierVars

\* Classify only adds evidence to an aggregate, whatever the next record is; with
\* weights that are not negative this is what EvidenceNeverLowers rests on.
THEOREM EvidenceAlwaysGrows == ClassifierSpec => EvidenceGrows
<1>1. ASSUME AggregateInv, [ClassifierNext]_classifierVars, NEW k \in DOMAIN agg
      PROVE  /\ k \in DOMAIN agg'
             /\ agg[k].signals \subseteq agg'[k].signals
             /\ agg[k].sources \subseteq agg'[k].sources
             /\ agg[k].confidence <= agg'[k].confidence
  <2>1. IsAggregate(agg[k]) /\ agg[k].confidence <= agg[k].confidence
    <3>1. IsAggregate(agg[k])
      BY <1>1 DEF AggregateInv
    <3>2. agg[k].confidence \in 0..100
      BY <3>1 DEF IsAggregate
    <3> QED
      BY <3>1, <3>2
  <2>2. CASE ApplyRecord
    <3> DEFINE r   == input[pos]
               old == IF Key(r) \in DOMAIN agg THEN agg[Key(r)] ELSE newAggregate(r)
               b   == applyHistory(applySchema(applyObservation(old, r), r), r)
    <3>1. /\ pos \in 1..Len(input)
          /\ agg' = [q \in DOMAIN agg \cup {Key(r)} |-> IF q = Key(r) THEN b ELSE agg[q]]
      BY <1>1, <2>2 DEF ApplyRecord, AggregateInv
    <3>2. r \in Records
      BY <1>1, <3>1 DEF AggregateInv
    <3>3. CASE k = Key(r)
      <4>1. old = agg[k]
        BY <3>3
      <4>2. /\ old.signals \subseteq b.signals /\ old.sources \subseteq b.sources
            /\ old.confidence <= b.confidence
        BY <2>1, <3>2, <4>1, RecordAdds
      <4> HIDE DEF b, old, r
      <4> QED
        BY <3>1, <3>3, <4>1, <4>2
    <3>4. CASE k # Key(r)
      <4> HIDE DEF b
      <4> QED
        BY <2>1, <3>1, <3>4
    <3> QED
      BY <3>3, <3>4
  <2>3. CASE UNCHANGED agg
    BY <2>1, <2>3
  <2> QED
    BY <1>1, <2>2, <2>3 DEF ClassifierNext, SchemaRefused, RecordRefused, Finish, classifierVars
<1>2. AggregateInv /\ [ClassifierNext]_classifierVars => [EvidenceKept]_classifierVars
  BY <1>1 DEF EvidenceKept
<1> QED
  BY <1>2, AggregateInit, AggregateStep, PTL DEF ClassifierSpec, EvidenceGrows

-----------------------------------------------------------------------------
(* Scores.                                                                 *)

FiniteEvidence(a) == IsFiniteSet(a.signals) /\ IsFiniteSet(a.sources)

\* A record adds finitely many signals and one source.
LEMMA RecordFinite ==
    ASSUME NEW a, IsAggregate(a), FiniteEvidence(a), NEW r \in Records
    PROVE  FiniteEvidence(applyHistory(applySchema(applyObservation(a, r), r), r))
<1> DEFINE new == From(RecordFacts(r) \cup URLs[a.url].facts, Source(r))
           o   == applyObservation(a, r)
           m   == applySchema(o, r)
           b   == applyHistory(m, r)
<1>1. IsFiniteSet(new)
  <2>1. IsFiniteSet(URLs[a.url].facts)
    BY ClassifierAssumption DEF IsAggregate
  <2>2. IsFiniteSet(RecordFacts(r) \cup URLs[a.url].facts)
    BY <2>1, RecordFactsFinite, FS_Union
  <2> QED
    BY <2>2, FromFinite
<1>2. IsAggregate(o) /\ o.sources = a.sources \cup {Source(r)} /\ o.signals = a.signals \cup new
  BY ObservationFields
<1> HIDE DEF new, o
<1>3. FiniteEvidence(o)
  <2>1. IsFiniteSet(a.signals \cup new)
    BY <1>1, FS_Union DEF FiniteEvidence
  <2>2. IsFiniteSet(a.sources \cup {Source(r)})
    BY FS_AddElement DEF FiniteEvidence
  <2> QED
    BY <1>2, <2>1, <2>2 DEF FiniteEvidence
<1>4. IsAggregate(m) /\ m.sources = o.sources /\ Joined(o, m)
  BY <1>2, SchemaFields
<1> HIDE DEF m
<1>5. FiniteEvidence(m)
  BY <1>3, <1>4, FS_Union DEF FiniteEvidence, Joined
<1>6. b.sources = m.sources /\ Compared(m, b, r)
  BY <1>4, HistoryFields
<1> HIDE DEF b
<1>7. IsFiniteSet(b.signals)
  <2>1. PICK extra, change : IsFiniteSet(extra \cup change) /\ b.signals = m.signals \cup extra \cup change
    BY <1>6 DEF Compared
  <2> DEFINE more == extra \cup change
  <2>2. b.signals = m.signals \cup more /\ IsFiniteSet(more)
    BY <2>1
  <2> HIDE DEF more
  <2>3. IsFiniteSet(m.signals \cup more)
    BY <1>5, <2>2, FS_Union DEF FiniteEvidence
  <2> QED
    BY <2>2, <2>3
<1>8. FiniteEvidence(b)
  BY <1>5, <1>6, <1>7 DEF FiniteEvidence
<1> QED
  BY <1>8 DEF b, m, o

\* More evidence scores at least as much: no weight is negative, a second source
\* brings the bonus and a third one leaves it.
LEMMA MoreEvidenceScores ==
    ASSUME NEW a, NEW b, FiniteEvidence(b), \A s \in b.signals : s.type \in DOMAIN Weight,
           a.signals \subseteq b.signals, a.sources \subseteq b.sources,
           a.confidence \in Int, b.confidence \in Int, a.confidence <= b.confidence
    PROVE  /\ Score(a) \in Int /\ Score(b) \in Int /\ Score(a) <= Score(b)
           /\ Overall(a) <= Overall(b)
<1> DEFINE Points(x) == UNION {{s} \X (1..Weight[s.type]) : s \in x.signals}
           Positive(x) == {s \in x.signals : Weight[s.type] > 0}
<1>1. /\ IsFiniteSet(a.sources) /\ Cardinality(a.sources) \in Nat /\ Cardinality(b.sources) \in Nat
      /\ Cardinality(a.sources) <= Cardinality(b.sources)
  BY FS_Subset, FS_CardinalityType DEF FiniteEvidence
<1>2. IsFiniteSet(Points(b))
  <2>1. IsFiniteSet(1..3)
    <3> DEFINE W == 1..3
    <3>1. W \in SUBSET Nat /\ \A n \in W : n <= 3
      OBVIOUS
    <3> HIDE DEF W
    <3>2. IsFiniteSet(W)
      BY <3>1, FS_BoundedSetOfNaturals
    <3> QED
      BY <3>2 DEF W
  <2>2. IsFiniteSet(b.signals \X (1..3))
    BY <2>1, FS_Product DEF FiniteEvidence
  <2>3. \A s \in b.signals : 1..Weight[s.type] \subseteq 1..3
    BY DEF Weight
  <2>4. Points(b) \in SUBSET (b.signals \X (1..3))
    BY <2>3
  <2> HIDE DEF Points
  <2> QED
    BY <2>2, <2>4, FS_Subset
<1>3. Points(a) \in SUBSET Points(b)
  OBVIOUS
<1>4. Positive(a) \in SUBSET Positive(b) /\ Positive(b) \in SUBSET b.signals
  OBVIOUS
<1> HIDE DEF Points, Positive
<1>5. /\ Cardinality(Points(a)) \in Nat /\ Cardinality(Points(b)) \in Nat
      /\ Cardinality(Points(a)) <= Cardinality(Points(b))
  BY <1>2, <1>3, FS_Subset, FS_CardinalityType
<1>6. /\ Cardinality(Positive(a)) \in Nat /\ Cardinality(Positive(b)) \in Nat
      /\ Cardinality(Positive(a)) <= Cardinality(Positive(b))
  <2>1. IsFiniteSet(Positive(b))
    BY <1>4, FS_Subset DEF FiniteEvidence
  <2> QED
    BY <1>4, <2>1, FS_Subset, FS_CardinalityType
<1>7. /\ Score(a) = Cardinality(Points(a)) + IF Cardinality(a.sources) > 1 THEN 1 ELSE 0
      /\ Score(b) = Cardinality(Points(b)) + IF Cardinality(b.sources) > 1 THEN 1 ELSE 0
  BY Zenon DEF Score, SumOfWeights, Points
<1>8. Score(a) \in Int /\ Score(b) \in Int /\ Score(a) <= Score(b)
  BY <1>1, <1>5, <1>7
<1>9. Overall(a) <= Overall(b)
  <2> DEFINE Total(x) == x.confidence + 5 * (Cardinality(x.sources) - 1) + 3 * Cardinality(Positive(x))
  <2>1. /\ Overall(a) = IF Total(a) > 99 THEN 99 ELSE Total(a)
        /\ Overall(b) = IF Total(b) > 99 THEN 99 ELSE Total(b)
    BY Zenon DEF Overall, Positive
  <2>2. Total(a) \in Int /\ Total(b) \in Int /\ Total(a) <= Total(b)
    BY <1>1, <1>6
  <2> HIDE DEF Total
  <2> QED
    BY <2>1, <2>2
<1> QED
  BY <1>8, <1>9

\* Classify only ever has finite evidence.
FiniteInv == AggregateInv /\ \A k \in DOMAIN agg : FiniteEvidence(agg[k])

LEMMA FiniteAlways == ClassifierSpec => []FiniteInv
<1>1. AggregateInv /\ ClassifierInit => FiniteInv
  <2>1. ClassifierInit => DOMAIN agg = {}
    BY DEF ClassifierInit
  <2> QED
    BY <2>1 DEF FiniteInv
<1>2. FiniteInv /\ AggregateInv' /\ [ClassifierNext]_classifierVars => FiniteInv'
  <2> SUFFICES ASSUME FiniteInv, AggregateInv', [ClassifierNext]_classifierVars, NEW k \in DOMAIN agg'
               PROVE  FiniteEvidence(agg'[k])
    BY DEF FiniteInv, FiniteEvidence
  <2>1. CASE ApplyRecord
    <3> DEFINE r   == input[pos]
               key == Key(r)
               old == IF key \in DOMAIN agg THEN agg[key] ELSE newAggregate(r)
               b   == applyHistory(applySchema(applyObservation(old, r), r), r)
    <3>1. /\ pos \in 1..Len(input) /\ r.url # BadURL
          /\ agg' = [q \in DOMAIN agg \cup {key} |-> IF q = key THEN b ELSE agg[q]]
      BY <2>1 DEF ApplyRecord, FiniteInv, AggregateInv
    <3>2. r \in Records /\ r.url \in DOMAIN URLs
      BY <3>1, ClassifierAssumption DEF FiniteInv, AggregateInv
    <3>3. IsAggregate(old) /\ FiniteEvidence(old)
      <4>1. CASE key \in DOMAIN agg
        BY <4>1 DEF FiniteInv, AggregateInv
      <4>2. IsAggregate(newAggregate(r)) /\ FiniteEvidence(newAggregate(r))
        BY <3>2, NewAggregate, FS_EmptySet DEF FiniteEvidence, newAggregate
      <4> QED
        BY <4>1, <4>2
    <3>4. FiniteEvidence(b)
      BY <3>2, <3>3, RecordFinite
    <3> HIDE DEF b, key
    <3>5. CASE k = key
      BY <3>1, <3>4, <3>5
    <3>6. CASE k # key
      <4>1. k \in DOMAIN agg /\ agg'[k] = agg[k]
        BY <3>1, <3>6
      <4> QED
        BY <4>1 DEF FiniteInv
    <3> QED
      BY <3>5, <3>6
  <2>2. CASE UNCHANGED agg
    BY <2>2 DEF FiniteInv
  <2> QED
    BY <2>1, <2>2 DEF ClassifierNext, SchemaRefused, RecordRefused, Finish, classifierVars
<1> QED
  BY <1>1, <1>2, AggregateInit, AggregateStep, PTL DEF ClassifierSpec, FiniteInv

\* One more record never lowers the score or the confidence that finalize gives
\* an endpoint, so an interesting endpoint stays interesting.
THEOREM EvidenceNeverLowered == ClassifierSpec => EvidenceNeverLowers
<1>1. ASSUME FiniteInv, FiniteInv', EvidenceKept, NEW k \in DOMAIN agg
      PROVE  /\ Score(agg[k]) <= Score(agg'[k])
             /\ Overall(agg[k]) <= Overall(agg'[k])
             /\ Interesting(agg[k]) => Interesting(agg'[k])
  <2>1. /\ k \in DOMAIN agg'
        /\ agg[k].signals \subseteq agg'[k].signals /\ agg[k].sources \subseteq agg'[k].sources
        /\ agg[k].confidence <= agg'[k].confidence
    BY <1>1 DEF EvidenceKept
  <2>2. /\ FiniteEvidence(agg'[k]) /\ \A s \in agg'[k].signals : s.type \in DOMAIN Weight
        /\ agg[k].confidence \in Int /\ agg'[k].confidence \in Int
    <3>1. IsAggregate(agg[k]) /\ agg[k].confidence \in Int
      <4>1. FiniteInv
        BY <1>1
      <4>2. IsAggregate(agg[k])
        BY <4>1 DEF FiniteInv, AggregateInv
      <4> QED
        BY <4>2 DEF IsAggregate
    <3>2. AggregateInv' /\ \A q \in DOMAIN agg' : FiniteEvidence(agg'[q])
      BY <1>1 DEF FiniteInv, FiniteEvidence
    <3>3. \A q \in DOMAIN agg' : /\ \A s \in agg'[q].signals : s.type \in DOMAIN Weight
                                 /\ agg'[q].confidence \in 0..100
      BY <3>2 DEF AggregateInv, IsAggregate
    <3> QED
      BY <2>1, <3>1, <3>2, <3>3
  <2>3. /\ Score(agg[k]) \in Int /\ Score(agg'[k]) \in Int /\ Score(agg[k]) <= Score(agg'[k])
        /\ Overall(agg[k]) <= Overall(agg'[k])
    BY <2>1, <2>2, MoreEvidenceScores
  <2>4. Interesting(agg[k]) => Interesting(agg'[k])
    BY <2>3 DEF Interesting
  <2> QED
    BY <2>3, <2>4
<1>2. FiniteInv /\ FiniteInv' /\ [EvidenceKept]_classifierVars
         => [\A k \in DOMAIN agg : /\ Score(agg[k]) <= Score(agg'[k])
                                   /\ Overall(agg[k]) <= Overall(agg'[k])
                                   /\ Interesting(agg[k]) => Interesting(agg'[k])]_classifierVars
  BY <1>1
<1> QED
  BY <1>2, FiniteAlways, EvidenceAlwaysGrows, PTL DEF EvidenceGrows, EvidenceNeverLowers
=============================================================================

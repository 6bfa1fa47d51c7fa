----------------------------- MODULE Classifier -----------------------------
(***************************************************************************)
(* Endpoint classification.  Records are applied one by one to aggregates  *)
(* that are keyed by site, route, method and content type, so one          *)
(* aggregate collects several exact URLs; it keeps the URL of its first    *)
(* record.  A schema names a route, whatever the site.                     *)
(* What a URL or a record shows is a set of [type, value] facts; labels    *)
(* and relationships, which accompany signals one for one, are left out.   *)
(***************************************************************************)
EXTENDS Integers, Sequences, FiniteSets, FiniteSetsExt, TLC

CONSTANTS
    URLs,       \* exact URL -> [site, route, facts]: site stands for its scheme,
                \*   host and query parameter names
    Records,    \* what can be observed: [list, provider, url, method, content,
                \*   status, technologies, facts, confidence]
    Histories,  \* sets of records of earlier runs
    Schemas,    \* sets of URLs that API schemas name
    MaxInput    \* bound on the records of one classification

BadURL == "not a URL"

\* The facts that raise the score, and by how much.
Weight == [technology |-> 0, response_status |-> 0, historically_observed |-> 0,
           redirect_status |-> 1, server_error_status |-> 1, redirect_destination |-> 1,
           query_parameters |-> 1, content_type |-> 1, javascript_asset |-> 1,
           new_endpoint |-> 1, historical_technology_change |-> 1,
           url_keyword |-> 2, authentication_keyword |-> 2, path_parameter |-> 2,
           http_method |-> 2, javascript_source |-> 2, historical_status_change |-> 2,
           authentication_status |-> 3, authentication_header |-> 3,
           api_schema_document |-> 3, api_schema_membership |-> 3]

Fact(type, value) == [type |-> type, value |-> value]

\* Facts that a URL shows, and those that a record adds besides its status,
\* method, content type and technologies.
URLFacts == {"url_keyword", "authentication_keyword", "query_parameters", "path_parameter",
             "api_schema_document", "javascript_asset"}
OwnFacts == {"redirect_destination", "javascript_source", "authentication_header"}

\* The sources of signals that come from no current record.
Derived == {"history", "api_schema"}

ASSUME ClassifierAssumption ==
    /\ MaxInput \in Nat
    /\ \A u \in DOMAIN URLs : /\ IsFiniteSet(URLs[u].facts)
                              /\ \A f \in URLs[u].facts : f.type \in URLFacts
    /\ \A r \in Records : /\ r.url \in {BadURL} \cup DOMAIN URLs
                          /\ r.list \notin Derived /\ r.provider \notin Derived
                          /\ IsFiniteSet(r.facts) /\ IsFiniteSet(r.technologies)
                          /\ \A f \in r.facts : f.type \in OwnFacts

VARIABLES
    input,    \* current records in the order http, crawl, passive
    history,  \* historical records
    schema,   \* API schema endpoints
    pos,      \* position of the next record to apply
    agg,      \* aggregates by key
    verdict   \* "running", "done" or "failed"

classifierVars == <<input, history, schema, pos, agg, verdict>>

-----------------------------------------------------------------------------
(* Records and keys.                                                       *)

Key(r) == [site |-> URLs[r.url].site, route |-> URLs[r.url].route,
           method |-> r.method, content |-> r.content]

\* historyKey ignores the content type and the route.
Previous(r) == {h \in history : h.url # BadURL /\ h.url = r.url /\ h.method = r.method}

Source(r) == IF r.provider = "" THEN r.list ELSE r.provider

sourceConfidence(source) ==
    CASE source = "httpx" -> 95 [] source = "katana" -> 85
      [] source = "gau" -> 55 [] source = "historical" -> 65 [] OTHER -> 50

\* A confidence in the record overrides that of its source; -1 stands for none.
Confidence(r) == IF r.confidence \in 0..100 THEN r.confidence ELSE sourceConfidence(Source(r))

StatusFacts(status) ==
    IF status <= 0 THEN {}
    ELSE {Fact("response_status", ToString(status))}
         \cup IF status \in {401, 403} THEN {Fact("authentication_status", ToString(status))}
              ELSE IF status \in 300..399 THEN {Fact("redirect_status", ToString(status))}
              ELSE IF status >= 500 THEN {Fact("server_error_status", ToString(status))} ELSE {}

\* r.facts holds redirects, JavaScript sources and authentication headers.
RecordFacts(r) ==
    {Fact("technology", t) : t \in r.technologies}
        \cup StatusFacts(r.status)
        \cup (IF r.method \notin {"GET", "HEAD", "OPTIONS"} THEN {Fact("http_method", r.method)} ELSE {})
        \cup (IF r.content = "json" THEN {Fact("content_type", r.content)} ELSE {})
        \cup r.facts

From(facts, source) == {[type |-> f.type, value |-> f.value, source |-> source] : f \in facts}

StatusDiffers(r, h) == r.status > 0 /\ h.status > 0 /\ r.status # h.status

TechnologyDiffers(r, h) ==
    r.technologies # {} /\ h.technologies # {} /\ r.technologies # h.technologies

-----------------------------------------------------------------------------
(* Aggregates.                                                             *)

newAggregate(r) ==
    [url |-> r.url, signals |-> {}, sources |-> {}, confidence |-> 0,
     seen |-> FALSE, status |-> FALSE, technology |-> FALSE]

\* Fault: the confidence of the last record instead of the highest.
applyObservationLast(a, r) ==
    [a EXCEPT !.sources = @ \cup {Source(r)},
              !.confidence = Confidence(r),
              !.signals = @ \cup From(RecordFacts(r) \cup URLs[a.url].facts, Source(r))]

\* The URL signals are those of the aggregate's own URL, whichever the record's.
applyObservation(a, r) ==
    [a EXCEPT !.sources = @ \cup {Source(r)},
              !.confidence = IF Confidence(r) > @ THEN Confidence(r) ELSE @,
              !.signals = @ \cup From(RecordFacts(r) \cup URLs[a.url].facts, Source(r))]

\* A schema applies to an exact URL and to its route on every site.
applySchema(a, r) ==
    IF \E u \in schema : u = r.url \/ URLs[u].route = URLs[r.url].route
    THEN [a EXCEPT !.signals = @ \cup From({Fact("api_schema_membership", URLs[r.url].route)}, "api_schema")]
    ELSE a

\* applyHistoricalComparison and the test that leads to it.
applyHistory(a, r) ==
    LET changed == a.status \/ \E h \in Previous(r) : StatusDiffers(r, h)
        retooled == a.technology \/ \E h \in Previous(r) : TechnologyDiffers(r, h)
        flags == (IF changed THEN {Fact("historical_status_change", "changed")} ELSE {})
                    \cup (IF retooled THEN {Fact("historical_technology_change", "changed")} ELSE {})
    IN  IF Previous(r) # {}
        THEN [a EXCEPT !.seen = TRUE, !.status = changed, !.technology = retooled,
                       !.signals = @ \cup From({Fact("historically_observed", r.url)} \cup flags, "history")]
        ELSE IF history # {}
        THEN [a EXCEPT !.signals = @ \cup From({Fact("new_endpoint", r.url)}, "history")]
        ELSE a

\* The sum of the weights of the signals: each signal scores as many points as
\* it weighs.
SumOfWeights(a) == Cardinality(UNION {{s} \X (1..Weight[s.type]) : s \in a.signals})

\* Fault: the bonus goes to endpoints that a single source has seen.
ScoreSingle(a) == SumOfWeights(a) + IF Cardinality(a.sources) = 1 THEN 1 ELSE 0

\* finalize: the interest score and the confidence, in percent.
Score(a) == SumOfWeights(a) + IF Cardinality(a.sources) > 1 THEN 1 ELSE 0

Overall(a) ==
    LET positive == {s \in a.signals : Weight[s.type] > 0}
        sum      == a.confidence + 5 * (Cardinality(a.sources) - 1) + 3 * Cardinality(positive)
    IN  IF sum > 99 THEN 99 ELSE sum

Interesting(a) == Score(a) >= 2

-----------------------------------------------------------------------------
ListRank == [http |-> 1, crawl |-> 2, passive |-> 3]

Inputs ==
    {s \in UNION {[1..n -> Records] : n \in 0..MaxInput} :
        \A i, j \in DOMAIN s : i < j => ListRank[s[i].list] <= ListRank[s[j].list]}

ClassifierInit ==
    /\ input \in Inputs
    /\ history \in Histories
    /\ schema \in Schemas
    /\ pos = 1
    /\ agg = <<>>
    /\ verdict = "running"

\* schemaMembership fails before the first record.
SchemaRefused ==
    /\ verdict = "running" /\ pos = 1
    /\ BadURL \in schema
    /\ verdict' = "failed"
    /\ UNCHANGED <<input, history, schema, pos, agg>>

Classifying == verdict = "running" /\ BadURL \notin schema

ApplyRecord ==
    /\ Classifying
    /\ pos <= Len(input)
    /\ LET r == input[pos]
       IN  /\ r.url # BadURL
           /\ LET old == IF Key(r) \in DOMAIN agg THEN agg[Key(r)] ELSE newAggregate(r)
              IN  agg' = [k \in DOMAIN agg \cup {Key(r)} |->
                          IF k = Key(r) THEN applyHistory(applySchema(applyObservation(old, r), r), r)
                          ELSE agg[k]]
    /\ pos' = pos + 1
    /\ UNCHANGED <<input, history, schema, verdict>>

\* A current record without a usable URL ends the classification with an
\* error; a historical one is passed over.
RecordRefused ==
    /\ Classifying
    /\ pos <= Len(input) /\ input[pos].url = BadURL
    /\ verdict' = "failed"
    /\ UNCHANGED <<input, history, schema, pos, agg>>

Finish ==
    /\ Classifying
    /\ pos > Len(input)
    /\ verdict' = "done"
    /\ UNCHANGED <<input, history, schema, pos, agg>>

ClassifierNext == SchemaRefused \/ ApplyRecord \/ RecordRefused \/ Finish

ClassifierSpec == ClassifierInit /\ [][ClassifierNext]_classifierVars

-----------------------------------------------------------------------------
ClassifierTypeOK ==
    /\ verdict \in {"running", "done", "failed"}
    /\ pos \in 1..(Len(input) + 1)
    /\ \A k \in DOMAIN agg : /\ agg[k].url \in DOMAIN URLs
                             /\ \A s \in agg[k].signals : s.type \in DOMAIN Weight
                             /\ agg[k].confidence \in 0..100

AppliedTo(k) == {input[i] : i \in {j \in 1..(pos - 1) : Key(input[j]) = k}}

\* The evidence an endpoint ends with is that of the set of its records: their
\* order within the lists and their repetition change nothing but the URL that
\* stands for the endpoint.
EvidenceOrderFree ==
    \A k \in DOMAIN agg :
        LET rs == AppliedTo(k)
        IN  /\ rs # {}
            /\ agg[k].url \in {r.url : r \in rs}
            /\ agg[k].sources = {Source(r) : r \in rs}
            /\ agg[k].confidence = Max({Confidence(r) : r \in rs})
            /\ agg[k].seen <=> \E r \in rs : Previous(r) # {}
            /\ agg[k].status <=> \E r \in rs : \E h \in Previous(r) : StatusDiffers(r, h)
            /\ agg[k].technology <=> \E r \in rs : \E h \in Previous(r) : TechnologyDiffers(r, h)
            /\ {s \in agg[k].signals : s.source \notin Derived}
                   = UNION {From(RecordFacts(r) \cup URLs[agg[k].url].facts, Source(r)) : r \in rs}
            /\ agg[k].status <=> \E s \in agg[k].signals : s.type = "historical_status_change"

\* One more record never lowers the score or the confidence of an endpoint, so
\* an endpoint that was interesting stays so.
EvidenceNeverLowers ==
    [][\A k \in DOMAIN agg : /\ Score(agg[k]) <= Score(agg'[k])
                             /\ Overall(agg[k]) <= Overall(agg'[k])
                             /\ Interesting(agg[k]) => Interesting(agg'[k])]_classifierVars
=============================================================================

-------------------------- MODULE TargetingProofs --------------------------
(***************************************************************************)
(* The tools receive only what the scope of the current invocation allows, *)
(* for any scope files, any URLs and any sequence of resumed runs.         *)
(***************************************************************************)
EXTENDS Targeting, TLAPS

\* Evaluate answers "allowed" only for a supported protocol, an include rule
\* that matches and no exclude rule that does.
LEMMA AllowedMeaning ==
    ASSUME NEW sc, NEW u, Allows(sc, u)
    PROVE  /\ u.protocol \in {"http", "https"}
           /\ \E r \in sc.include : Matches(r, u)
           /\ ~\E r \in sc.exclude : Matches(r, u)
  BY DEF Allows, Evaluate, MismatchReason

\* Targets were validated when their tool started, and they stay as they are
\* while it runs because the preparation, which comes first, does not run again.
LiveInv ==
    /\ (done \cup live) \cap Active # {} => "prepare-authorized-targets" \in done
    /\ \A step \in live \cap Active : \A u \in Targets(step) : Allows(scope, u)

\* An active tool starts only after the preparation.
LEMMA ActiveAfterPrepare ==
    ASSUME LiveInv, NEW step \in Active, StartTool(step)
    PROVE  "prepare-authorized-targets" \in done
<1>1. \A d \in DependsOn : d[1] = step => Satisfied(d[2])
  BY DEF StartTool, CanRun
<1>2. CASE step = "resolve-dns"
  BY <1>1, <1>2 DEF DependsOn, Satisfied, InDefinition, Passive
<1>3. CASE step \in {"scan-ports", "probe-http"}
  <2>1. "resolve-dns" \in done
    BY <1>1, <1>3 DEF DependsOn, Satisfied, InDefinition, Passive
  <2> QED
    BY <2>1 DEF LiveInv, Active
<1> QED
  BY <1>2, <1>3 DEF Active

\* LiveInv is kept by every step of a run.
LEMMA LiveStep == LiveInv /\ [TargetingNext]_targetingVars => LiveInv'
<1> SUFFICES ASSUME LiveInv, [TargetingNext]_targetingVars PROVE LiveInv'
  OBVIOUS
<1>1. ASSUME NEW f \in ScopeFiles, NEW continuous \in BOOLEAN, NEW resume \in BOOLEAN,
             Invoke(f, continuous, resume)
      PROVE  LiveInv'
  BY <1>1 DEF Invoke, LiveInv
<1>2. CASE Prepare
  <2>1. live \cap Active = {}
    BY <1>2 DEF Prepare, CanRun, LiveInv
  <2> QED
    BY <1>2, <2>1 DEF Prepare, LiveInv
<1>3. ASSUME NEW step \in Passive \cup Active, StartTool(step) PROVE LiveInv'
  <2>1. UNCHANGED <<scope, ready, portTargets, done>> /\ live' = live \cup {step}
    BY <1>3 DEF StartTool
  <2>2. ASSUME NEW s PROVE Targets(s)' = Targets(s)
    BY <2>1 DEF Targets
  <2>3. step \in Active => "prepare-authorized-targets" \in done
    BY <1>3, ActiveAfterPrepare
  <2>4. step \in Active => \A u \in Targets(step) : Allows(scope, u)
    BY <1>3 DEF StartTool, Validate
  <2>5. \A s \in live' \cap Active : \A u \in Targets(s) : Allows(scope, u)
    BY <2>1, <2>4 DEF LiveInv
  <2>6. (\A s \in live \cap Active : \A u \in Targets(s) : Allows(scope, u))'
    BY <2>1, <2>5 DEF Targets, Allows, Evaluate, MismatchReason
  <2> QED
    BY <2>1, <2>3, <2>6 DEF LiveInv
<1>4. ASSUME NEW step \in Passive \cup Active, NEW records \in Reports(step),
             ToolFails(step, records)
      PROVE  LiveInv'
  BY <1>4 DEF ToolFails, LiveInv, Targets, Allows, Evaluate, MismatchReason
<1>5. ASSUME NEW step \in Passive \cup Active, NEW records \in Reports(step),
             ToolReturns(step, records)
      PROVE  LiveInv'
  <2>1. /\ UNCHANGED <<scope, ready, portTargets>>
        /\ live' = live \ {step} /\ done' = done \cup {step} /\ step \in live
    BY <1>5 DEF ToolReturns
  <2> QED
    BY <2>1 DEF LiveInv, Targets, Allows, Evaluate, MismatchReason
<1>6. CASE UNCHANGED targetingVars
  BY <1>6 DEF targetingVars, LiveInv, Targets, Allows, Evaluate, MismatchReason
<1> QED
  BY <1>1, <1>2, <1>3, <1>4, <1>5, <1>6 DEF TargetingNext

\* No tool is ever given a URL that the scope file of the current invocation
\* does not include, or excludes, whatever an earlier invocation under another
\* file left behind (Provider.Validate).
THEOREM SentAlwaysAuthorized == TargetingSpec => []SentAuthorized
<1>1. TargetingInit => LiveInv
  BY DEF TargetingInit, LiveInv
<1>2. LiveInv => SentAuthorized
  BY AllowedMeaning DEF LiveInv, SentAuthorized
<1> QED
  BY <1>1, <1>2, LiveStep, PTL DEF TargetingSpec

-----------------------------------------------------------------------------
SeedInv == \A s \in plan.seeds : Allows(scope, s.url)

\* Every seed of a plan is allowed by the scope it was planned from.
LEMMA SeedsAllowed ==
    ASSUME NEW sc, NEW manual
    PROVE  \A s \in Plan(sc, manual).seeds : Allows(sc, s.url)
<1>1. Plan(sc, manual).seeds = ActiveSeeds(sc)
  BY DEF Plan
<1>2. ASSUME NEW s \in ActiveSeeds(sc) PROVE Allows(sc, s.url)
  BY <1>2 DEF ActiveSeeds
<1> QED
  BY <1>1, <1>2

\* A common port is a port of every seed's own host.
LEMMA CommonPortOfSeed ==
    ASSUME NEW p, NEW s \in p.seeds, NEW port \in CommonPorts(p)
    PROVE  \E t \in p.seeds : t.host = s.host /\ t.url.port = port
<1> DEFINE own         == {t.url.port : t \in {x \in p.seeds : x.host = s.host /\ x.file = s.file}}
           ofSeeds     == {{x.url.port : x \in {y \in p.seeds : y.host = t.host /\ y.file = t.file}}
                              : t \in p.seeds}
           ofWildcards == {UNION {FinitePorts(r) : r \in {x \in p.wildcards : x.host = w.host /\ x.file = w.file}}
                              : w \in p.wildcards}
           groups      == (ofSeeds \cup ofWildcards) \ {{}}
<1>1. own \in groups
  <2>1. own \in ofSeeds
    OBVIOUS
  <2>2. s.url.port \in own
    OBVIOUS
  <2> HIDE DEF own, ofSeeds, ofWildcards
  <2> QED
    BY <2>1, <2>2
<1>2. CommonPorts(p) = {q \in UNION groups : \A g \in groups : q \in g}
  BY Zenon DEF CommonPorts
<1>3. port \in own
  <2> HIDE DEF own, groups
  <2> QED
    BY <1>1, <1>2
<1> QED
  BY <1>3

\* Exact seeds are scanned only at ports at which the scope allows their host:
\* the intersection of commonPorts leaves no other.
THEOREM SeedPortsAlwaysAuthorized == TargetingSpec => []SeedPortsAuthorized
<1>1. TargetingInit => SeedInv
  BY SeedsAllowed DEF TargetingInit, SeedInv
<1>2. SeedInv /\ [TargetingNext]_targetingVars => SeedInv'
  <2> SUFFICES ASSUME SeedInv, [TargetingNext]_targetingVars PROVE SeedInv'
    OBVIOUS
  <2>1. ASSUME NEW f \in ScopeFiles, NEW continuous \in BOOLEAN, NEW resume \in BOOLEAN,
               Invoke(f, continuous, resume)
        PROVE  SeedInv'
    <3>1. scope' = Compile(f.include, f.exclude) /\ plan' = Plan(Compile(f.include, f.exclude), f.manual)
      BY <2>1 DEF Invoke
    <3> QED
      BY <3>1, SeedsAllowed DEF SeedInv, Allows, Evaluate, MismatchReason
  <2>2. CASE UNCHANGED <<scope, plan>>
    BY <2>2 DEF SeedInv, Allows, Evaluate, MismatchReason
  <2>3. (\E f \in ScopeFiles, continuous, resume \in BOOLEAN : Invoke(f, continuous, resume))
           \/ UNCHANGED <<scope, plan>>
    BY DEF TargetingNext, Prepare, StartTool, ToolFails, ToolReturns, targetingVars
  <2> QED
    BY <2>1, <2>2, <2>3
<1>3. SeedInv => SeedPortsAuthorized
  BY CommonPortOfSeed DEF SeedInv, SeedPortsAuthorized
<1> QED
  BY <1>1, <1>2, <1>3, PTL DEF TargetingSpec

-----------------------------------------------------------------------------
(* Records.                                                                *)

\* The scope in force was compiled from a scope file.
Sourced(sc) == \A r \in sc.include : \E f \in ScopeFiles : r \in f.include

IsReport(record) ==
    \E u \in Universe :
        \/ record = [kind |-> "host", host |-> u.host]
        \/ record = [kind |-> "port", host |-> u.host, port |-> u.port]
        \/ record = [kind |-> "url", host |-> u.host, url |-> u]

LEMMA ReportsAreReports ==
    ASSUME NEW step \in Passive \cup Active, NEW records \in Reports(step)
    PROVE  \A record \in records : IsReport(record)
<1>1. RecordKind[step] \in {"host", "port", "url"}
  BY DEF RecordKind, Passive, Active
<1>2. ASSUME NEW u \in Universe PROVE IsReport(Record(RecordKind[step], u))
  BY <1>1 DEF IsReport, Record
<1>3. \A record \in records : \E u \in Universe : record = Record(RecordKind[step], u)
  BY DEF Reports
<1> QED
  BY <1>2, <1>3

\* The URLs at which the scope allows a host are URLs of that host, and of the
\* universe when the host is.
LEMMA HostURLsMeaning ==
    ASSUME NEW sc, NEW host, NEW u \in HostURLs(sc, host)
    PROVE  /\ Allows(sc, u) /\ u.host = host
           /\ Sourced(sc) /\ (\E v \in Universe : v.host = host) => u \in Universe
<1>1. PICK r \in sc.include : host \in r.host.matches /\ u \in EndpointURLs(r, host)
  BY DEF HostURLs
<1>2. Allows(sc, u)
  BY DEF HostURLs
<1>3. u.host = host
  BY <1>1 DEF EndpointURLs, URL
<1>4. ASSUME Sourced(sc), \E v \in Universe : v.host = host PROVE u \in Universe
  <2>1. PICK f \in ScopeFiles : r \in f.include
    BY <1>1, <1>4 DEF Sourced
  <2>2. host \in r.host.matches \cap {v.host : v \in Universe}
    BY <1>1, <1>4
  <2> QED
    BY <1>1, <2>1, <2>2, UniverseAssumption
<1> QED
  BY <1>2, <1>3, <1>4

\* filterRecords keeps only what is about an allowed URL.
AllowedRecord(sc, record) ==
    \E u \in Universe :
        /\ u.host = record.host
        /\ record.kind = "port" => u.port = record.port
        /\ record.kind = "url" => u = record.url
        /\ Allows(sc, u)

LEMMA AcceptsAllowed ==
    ASSUME NEW sc, Sourced(sc), NEW record, IsReport(record), Accepts(sc, record)
    PROVE  AllowedRecord(sc, record)
<1>1. PICK u \in Universe :
          \/ record = [kind |-> "host", host |-> u.host]
          \/ record = [kind |-> "port", host |-> u.host, port |-> u.port]
          \/ record = [kind |-> "url", host |-> u.host, url |-> u]
  BY DEF IsReport
<1>2. CASE record = [kind |-> "host", host |-> u.host]
  <2>1. record.kind = "host" /\ record.host = u.host
    BY <1>2
  <2>2. PICK v \in HostURLs(sc, record.host) : TRUE
    BY <2>1 DEF Accepts
  <2>3. v \in Universe /\ Allows(sc, v) /\ v.host = record.host
    BY <2>1, HostURLsMeaning
  <2> QED
    BY <2>1, <2>3 DEF AllowedRecord
<1>3. CASE record = [kind |-> "port", host |-> u.host, port |-> u.port]
  <2>1. record.kind = "port" /\ record.host = u.host
    BY <1>3
  <2>2. PICK v \in HostURLs(sc, record.host) : v.port = record.port
    BY <2>1 DEF Accepts
  <2>3. v \in Universe /\ Allows(sc, v) /\ v.host = record.host
    BY <2>1, HostURLsMeaning
  <2> QED
    BY <2>1, <2>2, <2>3 DEF AllowedRecord
<1>4. CASE record = [kind |-> "url", host |-> u.host, url |-> u]
  <2>1. record.kind = "url" /\ record.host = u.host /\ record.url = u
    BY <1>4
  <2>2. Allows(sc, u)
    BY <2>1 DEF Accepts
  <2> QED
    BY <2>1, <2>2 DEF AllowedRecord
<1> QED
  BY <1>1, <1>2, <1>3, <1>4

\* Output is filtered by the scope in force, and an invocation, which may bring
\* another scope, keeps nothing of it.
AcceptedInv ==
    /\ Sourced(scope)
    /\ \A record \in accepted : IsReport(record) /\ AllowedRecord(scope, record)

LEMMA AcceptedStep == AcceptedInv /\ [TargetingNext]_targetingVars => AcceptedInv'
<1> SUFFICES ASSUME AcceptedInv, [TargetingNext]_targetingVars PROVE AcceptedInv'
  OBVIOUS
<1>1. ASSUME NEW f \in ScopeFiles, NEW continuous \in BOOLEAN, NEW resume \in BOOLEAN,
             Invoke(f, continuous, resume)
      PROVE  AcceptedInv'
  <2>1. scope' = Compile(f.include, f.exclude) /\ accepted' = {}
    BY <1>1 DEF Invoke
  <2>2. Compile(f.include, f.exclude).include \subseteq f.include
    BY DEF Compile
  <2>3. \A r \in scope'.include : \E g \in ScopeFiles : r \in g.include
    BY <2>1, <2>2
  <2> QED
    BY <2>1, <2>3 DEF AcceptedInv, Sourced
<1>2. ASSUME NEW step \in Passive \cup Active, NEW records \in Reports(step),
             ToolReturns(step, records) \/ ToolFails(step, records)
      PROVE  AcceptedInv'
  <2>1. scope' = scope /\ accepted' = {r \in records : Accepts(scope, r)}
    BY <1>2 DEF ToolReturns, ToolFails, FilterRecords
  <2>2. \A record \in accepted' : IsReport(record) /\ AllowedRecord(scope, record)
    BY <2>1, ReportsAreReports, AcceptsAllowed DEF AcceptedInv
  <2> QED
    BY <2>1, <2>2 DEF AcceptedInv, Sourced, AllowedRecord, Allows, Evaluate, MismatchReason, Matches
<1>3. CASE UNCHANGED <<scope, accepted>>
  BY <1>3 DEF AcceptedInv, Sourced, AllowedRecord, Allows, Evaluate, MismatchReason, Matches
<1> QED
  BY <1>1, <1>2, <1>3
  DEF TargetingNext, Prepare, StartTool, targetingVars

\* What filterRecords keeps of a tool's output is about hosts, ports and URLs
\* at which the scope of the invocation that ran the tool allows a URL.
THEOREM AcceptedAlwaysAuthorized == TargetingSpec => []AcceptedAuthorized
<1>1. TargetingInit => AcceptedInv
  BY DEF TargetingInit, AcceptedInv, Sourced, NoScope, Compile
<1>2. AcceptedInv => AcceptedAuthorized
  BY AllowedMeaning DEF AcceptedInv, AllowedRecord, AcceptedAuthorized
<1> QED
  BY <1>1, <1>2, AcceptedStep, PTL DEF TargetingSpec

-----------------------------------------------------------------------------
(* Types.                                                                  *)

\* Seeds lie in the universe.
LEMMA SeedsInUniverse ==
    ASSUME NEW sc, Sourced(sc), NEW manual
    PROVE  InitialURLs(Plan(sc, manual)) \subseteq Universe
<1>1. Plan(sc, manual).seeds = ActiveSeeds(sc)
  BY DEF Plan
<1>2. SUFFICES ASSUME NEW s \in ActiveSeeds(sc) PROVE s.url \in Universe
  BY <1>1 DEF InitialURLs
<1>3. PICK r \in sc.include : \E h \in r.host.literals : s.url \in EndpointURLs(r, h)
  BY DEF ActiveSeeds
<1>4. PICK f \in ScopeFiles : r \in f.include
  BY DEF Sourced
<1> QED
  BY <1>3, <1>4, UniverseAssumption

\* What a tool's output contributes to the targets is in the universe.
LEMMA FilteredInUniverse ==
    ASSUME NEW sc, Sourced(sc), NEW records, \A record \in records : IsReport(record)
    PROVE  /\ FilterRecords(sc, records).accepted \subseteq records
           /\ FilterRecords(sc, records).urls \subseteq Universe
<1> DEFINE kept == {r \in records : Accepts(sc, r)}
           urls == {r.url : r \in {x \in kept : x.kind = "url"}}
                     \cup UNION {HostURLs(sc, r.host) : r \in {x \in kept : x.kind = "host"}}
<1>1. FilterRecords(sc, records).accepted = kept /\ FilterRecords(sc, records).urls = urls
  BY DEF FilterRecords
<1>2. ASSUME NEW r \in kept, r.kind = "url" PROVE r.url \in Universe
  BY <1>2 DEF IsReport
<1>3. ASSUME NEW r \in kept, NEW u \in HostURLs(sc, r.host) PROVE u \in Universe
  <2>1. \E v \in Universe : v.host = r.host
    BY DEF IsReport
  <2> QED
    BY <2>1, HostURLsMeaning
<1>4. urls \subseteq Universe
  BY <1>2, <1>3
<1> QED
  BY <1>1, <1>4

TargetingTypeInv == TargetingTypeOK /\ AcceptedInv

\* Targets stay within what tools and rules name, a prepared port target is a
\* prepared target, and no step is running and done at once, over resumes too.
THEOREM TargetingTypeCorrect == TargetingSpec => []TargetingTypeOK
<1>1. TargetingInit => TargetingTypeInv
  <2> SUFFICES ASSUME TargetingInit PROVE TargetingTypeInv
    OBVIOUS
  <2>1. AcceptedInv
    BY DEF TargetingInit, AcceptedInv, Sourced, NoScope, Compile
  <2>2. InitialURLs(plan) \subseteq Universe
    BY <2>1, SeedsInUniverse DEF TargetingInit, AcceptedInv
  <2> QED
    BY <2>1, <2>2 DEF TargetingInit, TargetingTypeInv, TargetingTypeOK
<1>2. TargetingTypeInv /\ [TargetingNext]_targetingVars => TargetingTypeInv'
  <2> SUFFICES ASSUME TargetingTypeInv, [TargetingNext]_targetingVars PROVE TargetingTypeInv'
    OBVIOUS
  <2>1. AcceptedInv /\ AcceptedInv' /\ TargetingTypeOK
    BY AcceptedStep DEF TargetingTypeInv
  <2>2. \A record \in accepted' : \E u \in Universe : record = Record(record.kind, u)
    BY <2>1 DEF AcceptedInv, IsReport, Record
  <2>3. ASSUME NEW f \in ScopeFiles, NEW continuous \in BOOLEAN, NEW resume \in BOOLEAN,
               Invoke(f, continuous, resume)
        PROVE  TargetingTypeOK'
    <3>1. /\ plan' = Plan(scope', f.manual) /\ live' = {}
          /\ discovers' \in BOOLEAN /\ (discovers' => plan'.roots # {})
      BY <2>3 DEF Invoke
    <3>2. InitialURLs(plan') \subseteq Universe
      BY <2>1, <3>1, SeedsInUniverse DEF AcceptedInv, Sourced
    <3>3. /\ found' \cup ready' \subseteq Universe /\ portTargets' \subseteq ready'
          /\ done' \subseteq Passive \cup Active \cup {"prepare-authorized-targets"}
      BY <2>1, <2>3 DEF Invoke, TargetingTypeOK
    <3> QED
      BY <2>2, <3>1, <3>2, <3>3 DEF TargetingTypeOK, InitialURLs
  <2>4. ASSUME Prepare PROVE TargetingTypeOK'
    <3>1. ready' \subseteq Universe /\ portTargets' \subseteq ready'
      BY <2>1, <2>4 DEF Prepare, FilterURLs, TargetingTypeOK
    <3>2. UNCHANGED <<plan, discovers, found, live>> /\ done' = done \cup {"prepare-authorized-targets"}
      BY <2>4 DEF Prepare
    <3>3. "prepare-authorized-targets" \notin Passive \cup Active
      BY DEF Passive, Active
    <3>4. InitialURLs(plan') = InitialURLs(plan)
      BY <3>2
    <3> QED
      BY <2>1, <2>2, <3>1, <3>2, <3>3, <3>4 DEF TargetingTypeOK, InitialURLs
  <2>5. ASSUME NEW step \in Passive \cup Active, StartTool(step) PROVE TargetingTypeOK'
    BY <2>1, <2>2, <2>5 DEF StartTool, CanRun, TargetingTypeOK, InitialURLs
  <2>6. ASSUME NEW step \in Passive \cup Active, NEW records \in Reports(step),
               ToolFails(step, records)
        PROVE  TargetingTypeOK'
    BY <2>1, <2>2, <2>6 DEF ToolFails, TargetingTypeOK, InitialURLs
  <2>7. ASSUME NEW step \in Passive \cup Active, NEW records \in Reports(step),
               ToolReturns(step, records)
        PROVE  TargetingTypeOK'
    <3>1. found' \subseteq Universe
      <4>1. FilterRecords(scope, records).urls \subseteq Universe
        BY <2>1, ReportsAreReports, FilteredInUniverse DEF AcceptedInv
      <4> QED
        BY <2>1, <2>7, <4>1 DEF ToolReturns, TargetingTypeOK
    <3> QED
      BY <2>1, <2>2, <2>7, <3>1 DEF ToolReturns, TargetingTypeOK, InitialURLs
  <2>8. ASSUME UNCHANGED targetingVars PROVE TargetingTypeOK'
    BY <2>1, <2>2, <2>8 DEF targetingVars, TargetingTypeOK, InitialURLs
  <2> QED
    BY <2>1, <2>3, <2>4, <2>5, <2>6, <2>7, <2>8 DEF TargetingNext, TargetingTypeInv
<1> QED
  BY <1>1, <1>2, PTL DEF TargetingSpec, TargetingTypeInv
=============================================================================

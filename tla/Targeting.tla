----------------------------- MODULE Targeting -----------------------------
(***************************************************************************)
(* How targets travel from a scope file to the external tools, along the   *)
(* bindings of the shipped workflow definitions: discovery, preparation,   *)
(* name resolution, the port scan, the HTTP probe and the URL archive.     *)
(* A run is resumed with any scope file; results of finished steps stay.   *)
(***************************************************************************)
EXTENDS Scope

CONSTANTS
    ScopeFiles,  \* [include, exclude, manual]: the flags of an invocation
    Universe     \* URLs that tools report something about, or rules name

\* A host is visited at the URLs that the rules naming it yield, whether a rule
\* enumerates the host or a tool reports it.
ASSUME UniverseAssumption ==
    \A f \in ScopeFiles : \A r \in f.include :
        \A h \in r.host.literals \cup (r.host.matches \cap {u.host : u \in Universe}) :
            EndpointURLs(r, h) \subseteq Universe

Passive == {"discover-subdomains", "discover-archive-urls"}

Active == {"resolve-dns", "scan-ports", "probe-http"}

\* What the output adapter of a step's tool yields.
RecordKind == [step \in Passive \cup Active |->
    CASE step \in {"discover-subdomains", "resolve-dns"} -> "host"
      [] step = "scan-ports" -> "port"
      [] OTHER -> "url"]

VARIABLES
    scope,       \* scope of the current invocation, compiled
    plan,        \* its target plan
    discovers,   \* whether its definition has the passive steps
    found,       \* authorized_urls of discover-subdomains
    ready,       \* urls of prepare-authorized-targets
    portTargets, \* its port_targets
    done,        \* steps that succeeded, in this or an earlier invocation
    live,        \* steps whose tool is running
    accepted     \* records kept of the last tool that ended

targetingVars == <<scope, plan, discovers, found, ready, portTargets, done, live, accepted>>

NoScope == Compile({}, {})

TargetingTypeOK ==
    /\ discovers \in BOOLEAN
    /\ discovers => plan.roots # {}
    /\ found \cup ready \cup InitialURLs(plan) \subseteq Universe
    /\ portTargets \subseteq ready
    /\ done \subseteq Passive \cup Active \cup {"prepare-authorized-targets"}
    /\ live \subseteq (Passive \cup Active) \ done
    /\ \A r \in accepted : \E u \in Universe : r = Record(r.kind, u)

-----------------------------------------------------------------------------
(* The definition an invocation builds.                                    *)

InDefinition(step) ==
    /\ step \in Passive => discovers
    /\ step = "scan-ports" => CommonPorts(plan) # {}

\* A dependency that is not part of the definition, or that is skipped, does
\* not hold a step back.
Satisfied(step) ==
    \/ step \in done
    \/ ~InDefinition(step)
    \/ step = "scan-ports" /\ portTargets = {}

\* <<step, a step it depends on>>.
DependsOn == {
    <<"prepare-authorized-targets", "discover-subdomains">>,
    <<"discover-archive-urls", "prepare-authorized-targets">>,
    <<"resolve-dns", "prepare-authorized-targets">>,
    <<"scan-ports", "resolve-dns">>,
    <<"probe-http", "resolve-dns">>,
    <<"probe-http", "scan-ports">> }

CanRun(step) ==
    /\ step \notin done \cup live
    /\ InDefinition(step)
    /\ \A d \in DependsOn : d[1] = step => Satisfied(d[2])

Targets(step) == IF step = "scan-ports" THEN portTargets ELSE ready

-----------------------------------------------------------------------------
TargetingInit ==
    /\ scope = NoScope
    /\ plan = Plan(NoScope, {})
    /\ discovers = FALSE
    /\ found = {} /\ ready = {} /\ portTargets = {}
    /\ done = {} /\ live = {} /\ accepted = {}

\* workflow run, fresh or with --resume, for continuous-web-recon or the
\* baseline; the tools of an earlier invocation ended with it.
Invoke(file, continuous, resume) ==
    LET sc == Compile(file.include, file.exclude)
        p  == Plan(sc, file.manual)
    IN  /\ Compiles(file.include)
        /\ HasExecutableTargets(p)
        /\ continuous \/ p.seeds # {}
        /\ scope' = sc
        /\ plan' = p
        /\ discovers' = (continuous /\ p.roots # {})
        /\ live' = {}
        /\ accepted' = {}
        /\ IF resume THEN UNCHANGED <<found, ready, portTargets, done>>
           ELSE found' = {} /\ ready' = {} /\ portTargets' = {} /\ done' = {}

\* executeTargetingPrepare: it fails when nothing is authorized.
Prepare ==
    LET urls == FilterURLs(scope, InitialURLs(plan) \cup IF discovers THEN found ELSE {})
    IN  /\ scope # NoScope
        /\ CanRun("prepare-authorized-targets")
        /\ urls # {}
        /\ ready' = urls
        /\ portTargets' = {u \in urls : u.port \in CommonPorts(plan)}
        /\ done' = done \cup {"prepare-authorized-targets"}
        /\ UNCHANGED <<scope, plan, discovers, found, live, accepted>>

\* Fault: results of an earlier invocation are taken as checked.
ValidatePrepared(step) == step \in Active => Targets(step) # {}

\* Provider.Validate, for the inputs that scope decides on.
Validate(step) ==
    step \in Active => /\ Targets(step) # {}
                       /\ \A u \in Targets(step) : Allows(scope, u)

\* Provider.Execute up to the start of the tool.
StartTool(step) ==
    /\ scope # NoScope
    /\ CanRun(step)
    /\ step = "scan-ports" => portTargets # {}
    /\ Validate(step)
    /\ live' = live \cup {step}
    /\ UNCHANGED <<scope, plan, discovers, found, ready, portTargets, done, accepted>>

\* Fault: a step that has returned is still counted as running.
ToolReturnsRunning(step, records) ==
    LET result == FilterRecords(scope, records)
    IN  /\ step \in live
        /\ done' = done \cup {step}
        /\ accepted' = result.accepted
        /\ found' = IF step = "discover-subdomains" THEN result.urls ELSE found
        /\ UNCHANGED <<scope, plan, discovers, ready, portTargets, live>>

\* The tool ends; whatever it printed goes through filterRecords.
ToolReturns(step, records) ==
    LET result == FilterRecords(scope, records)
    IN  /\ step \in live
        /\ live' = live \ {step}
        /\ done' = done \cup {step}
        /\ accepted' = result.accepted
        /\ found' = IF step = "discover-subdomains" THEN result.urls ELSE found
        /\ UNCHANGED <<scope, plan, discovers, ready, portTargets>>

\* The tool fails, times out or is of the wrong version; the step may be tried
\* again.  What it printed before is filtered and recorded with the failure, but
\* no other step reads it.
ToolFails(step, records) ==
    /\ step \in live
    /\ live' = live \ {step}
    /\ accepted' = FilterRecords(scope, records).accepted
    /\ UNCHANGED <<scope, plan, discovers, found, ready, portTargets, done>>

\* Bound: a tool reports at most one record, discovery two.
Reports(step) ==
    LET possible == {Record(RecordKind[step], u) : u \in Universe}
    IN  {{}} \cup {{a} : a \in possible}
             \cup IF step = "discover-subdomains" THEN {{a, b} : a, b \in possible} ELSE {}

TargetingNext ==
    \/ \E f \in ScopeFiles, continuous, resume \in BOOLEAN : Invoke(f, continuous, resume)
    \/ Prepare
    \/ \E step \in Passive \cup Active :
          \/ StartTool(step)
          \/ \E records \in Reports(step) : ToolReturns(step, records) \/ ToolFails(step, records)

TargetingSpec == TargetingInit /\ [][TargetingNext]_targetingVars

-----------------------------------------------------------------------------
\* A tool that is running was given only URLs the scope of this invocation
\* allows, although they were derived under the scope of an earlier one and
\* from what other tools reported.
SentAuthorized ==
    \A step \in live \cap Active : \A u \in Targets(step) :
        /\ u.protocol \in {"http", "https"}
        /\ \E r \in scope.include : Matches(r, u)
        /\ ~\E r \in scope.exclude : Matches(r, u)

\* The port scan visits every host of its targets at every common port; for a
\* host that is an exact seed of the plan each of them is a port at which the
\* scope allows the host.
SeedPortsAuthorized ==
    "scan-ports" \in live =>
        \A s \in plan.seeds, port \in CommonPorts(plan) :
            \E t \in plan.seeds : t.host = s.host /\ t.url.port = port /\ Allows(scope, t.url)

\* What is kept of a tool's output is about hosts, ports and URLs at which the
\* scope allows a URL that is not excluded.
AcceptedAuthorized ==
    \A record \in accepted : \E u \in Universe :
        /\ u.host = record.host
        /\ record.kind = "port" => u.port = record.port
        /\ record.kind = "url" => u = record.url
        /\ \E r \in scope.include : Matches(r, u)
        /\ ~\E r \in scope.exclude : Matches(r, u)
=============================================================================

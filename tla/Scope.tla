------------------------------- MODULE Scope -------------------------------
(***************************************************************************)
(* Scope rules and the targets derived from them.  A rule has a regular    *)
(* expression for the protocol, the host, the port and the path; what the  *)
(* code needs of an expression is which values it matches as a whole, and  *)
(* whether a finite list of literals can be read off its syntax.  The two  *)
(* are separate computations in the code and may disagree.                 *)
(***************************************************************************)
EXTENDS Naturals, FiniteSets

NoHost == "no host"

\* matches: values matched as a whole (regexp); literals: the enumeration of
\* the syntax tree, {} when there is none; base: of an expression of the form
\* .*\.base or [^.]+\.base.
Pattern(matches, literals, base) == [matches |-> matches, literals |-> literals, base |-> base]

Rule(protocol, host, port, file) ==
    [protocol |-> protocol, host |-> host, port |-> port, file |-> file, enabled |-> TRUE]

URL(protocol, host, port, path) ==
    [protocol |-> protocol, host |-> host, port |-> port, path |-> path]

\* Compile: disabled and repeated rules are dropped, an include is required.
Compile(includes, excludes) ==
    [include |-> {r \in includes : r.enabled}, exclude |-> {r \in excludes : r.enabled}]

Compiles(includes) == \E r \in includes : r.enabled

Matches(r, u) ==
    /\ u.protocol \in r.protocol.matches
    /\ u.host \in r.host.matches
    /\ u.port \in r.port.matches
    /\ u.path \in r.file.matches

MismatchReason(rules, u) ==
    IF ~\E r \in rules : u.protocol \in r.protocol.matches THEN "protocol_not_authorized"
    ELSE IF ~\E r \in rules : u.protocol \in r.protocol.matches /\ u.host \in r.host.matches
         THEN "host_mismatch"
    ELSE IF ~\E r \in rules : /\ u.protocol \in r.protocol.matches
                              /\ u.host \in r.host.matches
                              /\ u.port \in r.port.matches
         THEN "port_not_authorized"
    ELSE "path_not_authorized"

\* Scope.Evaluate: the reason of the decision on a URL.
Evaluate(sc, u) ==
    IF u.protocol \notin {"http", "https"} THEN "unsupported_target"
    ELSE IF \E r \in sc.exclude : Matches(r, u) THEN "matched_exclusion"
    ELSE IF \E r \in sc.include : Matches(r, u) THEN "allowed"
    ELSE MismatchReason(sc.include, u)

Allows(sc, u) == Evaluate(sc, u) = "allowed"

-----------------------------------------------------------------------------
(* What can be enumerated of a rule.                                       *)

FiniteProtocols(r) ==
    IF r.protocol.literals \subseteq {"http", "https"} THEN r.protocol.literals ELSE {}

FinitePorts(r) ==
    IF r.port.literals \subseteq 1..65535 THEN r.port.literals ELSE {}

ExactHost(r) == Cardinality(r.host.literals) = 1

\* The path to start from: the root when it matches, else a single literal.
InitialPath(r) ==
    IF "/" \in r.file.matches THEN {"/"}
    ELSE IF Cardinality(r.file.literals) = 1 THEN r.file.literals ELSE {}

\* The URLs a rule yields at a host, before the scope has a say.
EndpointURLs(r, host) ==
    {URL(protocol, host, port, path) :
        protocol \in FiniteProtocols(r), port \in FinitePorts(r), path \in InitialPath(r)}

-----------------------------------------------------------------------------
(* The target plan.                                                        *)

ActiveSeeds(sc) ==
    UNION {UNION {{[host |-> h, file |-> r.file, url |-> u] : u \in {v \in EndpointURLs(r, h) : Allows(sc, v)}}
           : h \in r.host.literals} : r \in {x \in sc.include : ExactHost(x)}}

WildcardRules(sc) == {r \in sc.include : ~ExactHost(r) /\ r.host.base # NoHost}

\* Plan: seeds, wildcard rules, and discovery roots, derived or manual.
Plan(sc, manual) ==
    [seeds     |-> ActiveSeeds(sc),
     wildcards |-> WildcardRules(sc),
     roots     |-> {r.host.base : r \in WildcardRules(sc)} \cup manual]

HasExecutableTargets(plan) == plan.seeds # {} \/ plan.roots # {}

InitialURLs(plan) == {s.url : s \in plan.seeds}

\* Fault: the ports that some group has.
CommonPortsOfAny(plan) ==
    {s.url.port : s \in plan.seeds} \cup UNION {FinitePorts(r) : r \in plan.wildcards}

\* commonPorts: the ports that every seed and every wildcard expression has.
CommonPorts(plan) ==
    LET ofSeeds     == {{s.url.port : s \in {x \in plan.seeds : x.host = t.host /\ x.file = t.file}}
                           : t \in plan.seeds}
        ofWildcards == {UNION {FinitePorts(r) : r \in {x \in plan.wildcards : x.host = w.host /\ x.file = w.file}}
                           : w \in plan.wildcards}
        groups      == (ofSeeds \cup ofWildcards) \ {{}}
    IN  {p \in UNION groups : \A g \in groups : p \in g}

-----------------------------------------------------------------------------
(* Filtering what external tools return.                                   *)

\* authorizeHost: the URLs at which the scope allows a discovered host.
HostURLs(sc, host) ==
    {u \in UNION {EndpointURLs(r, host) : r \in {x \in sc.include : host \in x.host.matches}} : Allows(sc, u)}

FilterURLs(sc, urls) == {u \in urls : Allows(sc, u)}

\* What a record of an output adapter says of a URL.
Record(kind, u) ==
    CASE kind = "host" -> [kind |-> kind, host |-> u.host]
      [] kind = "port" -> [kind |-> kind, host |-> u.host, port |-> u.port]
      [] kind = "url"  -> [kind |-> kind, host |-> u.host, url |-> u]

\* Fault: an open port is accepted at any host that is authorized.
AcceptsAnyPort(sc, record) ==
    CASE record.kind \in {"host", "port"} -> HostURLs(sc, record.host) # {}
      [] record.kind = "url" -> Allows(sc, record.url)

\* filterRecords, record by record.
Accepts(sc, record) ==
    CASE record.kind = "host" -> HostURLs(sc, record.host) # {}
      [] record.kind = "port" -> \E u \in HostURLs(sc, record.host) : u.port = record.port
      [] record.kind = "url"  -> Allows(sc, record.url)

FilterRecords(sc, records) ==
    LET accepted == {r \in records : Accepts(sc, r)}
    IN  [accepted |-> accepted,
         filtered |-> records \ accepted,
         urls     |-> {r.url : r \in {x \in accepted : x.kind = "url"}}
                         \cup UNION {HostURLs(sc, r.host) : r \in {x \in accepted : x.kind = "host"}}]
=============================================================================

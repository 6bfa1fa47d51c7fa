---------------------------- MODULE MC_Decisions ----------------------------
(***************************************************************************)
(* Instance of the three components that decide: targeting, policy and     *)
(* classification.  They share no state, so a behaviour moves only one of  *)
(* them.  MinutesPerDay = 4 keeps a week short; windows lie inside a day,  *)
(* reach midnight, go past it and past the end of the week.                *)
(***************************************************************************)
EXTENDS Targeting, Policy, Classifier

(* Targeting. *)

Open(values) == Pattern(values, {}, NoHost)
Exactly(values) == Pattern(values, values, NoHost)

Protocols == {"http", "https", "ftp"}
\* What the rules yield at three hosts, and what a tool may report besides.
MCUniverse ==
    {URL(p, h, n, "/") : p \in {"http", "https"}, h \in {"child", "other"}, n \in {80, 443}}
    \cup {URL("http", "base", 80, "/"), URL("https", "base", 80, "/"), URL("https", "base", 443, "/")}
    \cup {URL(p, "base", n, "/x") : p \in {"http", "https"}, n \in {80, 443}}
    \cup {URL("http", "child", 80, "/x"), URL("http", "other", 80, "/x"), URL("ftp", "other", 80, "/")}

Web == Exactly({"http", "https"})
Slash == Open({"/", "/x"})
\* .*\.base
Children == Pattern({"child"}, {}, "base")

WildcardRule == Rule(Web, Children, Exactly({80, 443}), Slash)
\* http|https without anchors: leftmost-first matching misses https as a whole.
UnanchoredBase == Rule(Pattern({"http"}, {"http", "https"}, NoHost), Exactly({"base"}), Exactly({80}), Slash)
SecureBase == Rule(Exactly({"https"}), Exactly({"base"}), Exactly({443}), Slash)
DeepBase == Rule(Web, Exactly({"base"}), Exactly({80, 443}), Exactly({"/x"}))
Other == Rule(Web, Exactly({"other"}), Exactly({80, 443}), Slash)
OtherAnyPort == Rule(Open(Protocols), Exactly({"other"}), Open({80, 443}), Slash)
AnyHost == Rule(Exactly({"https"}), Open({"base", "child", "other"}), Exactly({443}), Slash)

NoPlainChild == Rule(Open(Protocols), Exactly({"child"}), Open({80}), Open({"/", "/x"}))
NoPlainOther == Rule(Open(Protocols), Exactly({"other"}), Open({80}), Open({"/"}))
NoChildren == Rule(Open(Protocols), Children, Open({80, 443}), Open({"/", "/x"}))

File(include, exclude, manual) == [include |-> include, exclude |-> exclude, manual |-> manual]

MCScopeFiles == {
    File({WildcardRule, Other}, {NoPlainChild}, {}),
    File({WildcardRule, UnanchoredBase, [Other EXCEPT !.enabled = FALSE]}, {NoPlainOther}, {"other"}),
    File({AnyHost, DeepBase, SecureBase}, {NoChildren}, {"base"}),
    File({Other, SecureBase, OtherAnyPort}, {[NoPlainOther EXCEPT !.enabled = FALSE]}, {}),
    File({Other, DeepBase}, {NoPlainOther}, {}),
    File({[Other EXCEPT !.enabled = FALSE]}, {}, {"base"}) }

(* Policy. *)

Window(day, start, end) == [day |-> day, start |-> start, end |-> end]

Lenient == [windows |-> <<>>, allowed |-> {}, denied |-> {}, grants |-> {}, methods |-> {"GET"},
            maxPayload |-> 0, moderateApproved |-> FALSE, rate |-> 5, concurrency |-> 3]

MCPolicies == {
    Lenient,
    [Lenient EXCEPT !.windows = <<Window(5, 3, 1), Window(AnyDay, 1, 3)>>, !.moderateApproved = TRUE, !.rate = 0],
    [Lenient EXCEPT !.windows = <<Window(6, 2, 0), Window(0, 0, 1), Window(1, 0, 3)>>, !.denied = {"scan"}, !.rate = 2],
    [Lenient EXCEPT !.concurrency = 0, !.maxPayload = 1, !.allowed = {"probe"}, !.grants = {"headless"}] }

Request(capability, risk, approved, needs, method, size) ==
    [capability |-> capability, risk |-> risk, approved |-> approved, needs |-> needs, method |-> method, size |-> size]

MCRequests == {
    Request("probe", "low", FALSE, {"headless"}, "GET", 1),
    Request("scan", "moderate", FALSE, {}, "", 2),
    Request("probe", "high", TRUE, {}, "POST", 0),
    Request("probe", "high", FALSE, {}, "", 0) }

(* Classification. *)

Page(site, route, facts) == [site |-> site, route |-> route, facts |-> facts]
Item == {Fact("path_parameter", "/item/{id}")}

\* Two items on one site, one on another; a page and an API on the first.
MCURLs ==
    "/item/1" :> Page("a", "/item/{id}", Item) @@ "/item/2" :> Page("a", "/item/{id}", Item) @@
    "b/item/1" :> Page("b", "/item/{id}", Item) @@ "/" :> Page("a", "/", {}) @@
    "/api?q" :> Page("a?q", "/api", {Fact("url_keyword", "api"), Fact("query_parameters", "q")})

Seen(list, provider, url, status) ==
    [list |-> list, provider |-> provider, url |-> url, method |-> "GET", content |-> "",
     status |-> status, technologies |-> {}, facts |-> {}, confidence |-> 0 - 1]

MCRecords == {
    Seen("http", "httpx", "/item/1", 403),
    [Seen("http", "httpx", "/item/2", 200) EXCEPT !.technologies = {"nginx"}],
    [Seen("http", "", "/", 302) EXCEPT !.facts = {Fact("redirect_destination", "/item/1")}, !.confidence = 20],
    [Seen("crawl", "katana", "/item/2", 500) EXCEPT !.technologies = {"php"}],
    [Seen("crawl", "katana", "/api?q", 0) EXCEPT !.method = "POST", !.content = "json"],
    [Seen("crawl", "", "/", 200) EXCEPT !.facts = {Fact("javascript_source", "/app.js"), Fact("authentication_header", "www-authenticate")}],
    Seen("passive", "gau", "b/item/1", 0),
    Seen("passive", "gau", "/", 200),
    Seen("passive", "gau", BadURL, 0) }

MCHistories == { {}, {Seen("http", "httpx", BadURL, 200)},
    {Seen("http", "httpx", "/item/1", 200), [Seen("http", "httpx", "/item/2", 200) EXCEPT !.technologies = {"php"}]} }
MCSchemas == { {}, {"/item/2"}, {BadURL} }

-----------------------------------------------------------------------------
VARIABLE only  \* the component that moves

vars == <<only, targetingVars, policyVars, classifierVars>>

Init ==
    /\ only \in {"targeting", "policy", "classification"}
    /\ TargetingInit
    /\ PolicyInit
    /\ ClassifierInit
    /\ only # "policy" => pol = Lenient
    /\ only # "classification" => input = <<>> /\ history = {} /\ schema = {}

Next ==
    \/ only = "targeting" /\ TargetingNext /\ UNCHANGED <<only, policyVars, classifierVars>>
    \/ only = "policy" /\ PolicyNext /\ UNCHANGED <<only, targetingVars, classifierVars>>
    \/ only = "classification" /\ ClassifierNext /\ UNCHANGED <<only, targetingVars, policyVars>>

Spec == Init /\ [][Next]_vars

\* The components keep to their types; in particular a step is not running and
\* done at once, and a prepared port target is a prepared target.
TypeOK == TargetingTypeOK /\ PolicyTypeOK /\ ClassifierTypeOK
=============================================================================

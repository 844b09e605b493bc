------------------------------- MODULE Routes -------------------------------
(***************************************************************************)
(* Routes of scripts and of the migration state (internal/httpserver/      *)
(* route): Map on top of net/http's ServeMux, the ingress rules that may   *)
(* select a request's responses, and the counter of calls per route        *)
(* (internal/proxy/calls.go).                                              *)
(*                                                                         *)
(* A path is a sequence of segments; a pattern's segment is a literal or   *)
(* Wildcard, and a pattern may match any rest.  ServeMux is external: of   *)
(* the patterns that match a request it takes the one that matches the     *)
(* fewest, and it refuses a pattern that leaves two without an order.      *)
(***************************************************************************)
EXTENDS Integers, Sequences, SequencesExt, FiniteSets, Functions

CONSTANTS
    Requests,  \* bound: requests [method, host, path]
    Unnamed,       \* a pattern without a method or without a host
    Wildcard,  \* a segment {name}
    None,      \* nothing matches
    MaxRoutes  \* maxCountedRoutes

\* A pattern of ServeMux matches a request; GET also matches HEAD.
MuxMatches(p, r) ==
    /\ p.method \in {Unnamed, r.method} \/ (p.method = "GET" /\ r.method = "HEAD")
    /\ p.host \in {Unnamed, r.host}
    /\ Len(p.path) = Len(r.path) \/ (p.rest /\ Len(p.path) <= Len(r.path))
    /\ \A i \in DOMAIN p.path : p.path[i] \in {Wildcard, r.path[i]}

Matched(p) == {r \in Requests : MuxMatches(p, r)}

\* A pattern with a host comes before one without, else the narrower one.
Before(p, q) ==
    \/ p.host # Unnamed /\ q.host = Unnamed
    \/ (p.host = Unnamed <=> q.host = Unnamed) /\ Matched(p) \subseteq Matched(q) /\ Matched(p) # Matched(q)

\* ServeMux.Handle panics: two patterns match a request and neither comes first.
Conflicts(p, q) == Matched(p) \cap Matched(q) # {} /\ ~Before(p, q) /\ ~Before(q, p)

\* ServeMux.ServeHTTP serves the first of the patterns that match.
Served(patterns, r) ==
    LET matching == {p \in patterns : MuxMatches(p, r)}
    IN  IF matching = {} THEN None
        ELSE CHOOSE p \in matching : \A q \in matching \ {p} : Before(p, q)

-----------------------------------------------------------------------------
\* Map.Add: a pattern with a method, unless it conflicts. A map is a set of patterns.
Add(map, p) ==
    IF p.method = Unnamed \/ (\E q \in map : Conflicts(p, q)) THEN map ELSE map \cup {p}

\* Wildcards: where a pattern's wildcards are.
Wildcards(p) == {i \in DOMAIN p.path : p.path[i] = Wildcard}

\* matchWriter.matched: the served pattern names the request's method, or none.
matched(p, method) == p # None /\ p.method \in {Unnamed, method}

\* Map.Match: the pattern and its wildcards' values.
Match(map, r) ==
    LET p == Served(map, r)
    IN  IF matched(p, r.method) THEN [pattern |-> p, wildcards |-> Restrict(r.path, Wildcards(p))] ELSE None

\* Pattern.Match: one pattern, with a method or without.
PatternMatch(p, r) == matched(Served({p}, r), r.method)

-----------------------------------------------------------------------------
(* Matcher.Responses.  A rule has a pattern or None, selects request       *)
(* headers, selects responses, and ignores or does something else.         *)

Applies(rule, r, header) ==
    /\ rule.pattern # None => PatternMatch(rule.pattern, r)
    /\ header \in rule.headers

\* A rule with a pattern that selects every response leaves nothing to later rules.
Ends(rule) == rule.pattern # None /\ rule.responses = "every"

\* The rules that apply up to the first that ends them, or the rule that ignores all.
Responses(rules, r, header) ==
    LET applying == SelectSeq(rules, LAMBDA rule : Applies(rule, r, header))
        end == SelectInSeq(applying, Ends)
    IN  CASE end = 1 /\ applying[1].action = "ignore" -> [rules |-> <<>>, ignored |-> TRUE]
          [] end > 0 /\ ~(end = 1 /\ applying[1].action = "ignore") ->
                [rules |-> SubSeq(applying, 1, end), ignored |-> FALSE]
          [] OTHER -> [rules |-> applying, ignored |-> FALSE]

-----------------------------------------------------------------------------
(* The routes of the migration state's nodes (httpserver/ingress.go).  A   *)
(* node has an id, whether it is migrated, and its ingress[http] patterns. *)

\* stateRoutes: the patterns with the nodes that list them, None if one cannot be added.
stateRoutes(nodes) ==
    LET entries == UNION {{[pattern |-> p, node |-> n.id, migrated |-> n.migrated] : p \in n.patterns} : n \in nodes}
    IN  IF \E e \in entries : e.pattern.method = Unnamed \/ (\E f \in entries \ {e} : Conflicts(e.pattern, f.pattern))
        THEN None ELSE entries

\* The entry that lists a request, None if none does or there is no migration state.
Listed(routes, r) ==
    LET found == IF routes = None THEN None ELSE Match({e.pattern : e \in routes}, r)
    IN  IF found = None THEN None ELSE CHOOSE e \in routes : e.pattern = found.pattern

\* Mutant: named by its method and path even if a pattern lists it.
ingressRouteUnlisted(routes, r) == [method |-> r.method, host |-> Unnamed, path |-> r.path, rest |-> FALSE]

\* Ingress.route: the pattern that lists a request, or its method and path, which read
\* like a pattern without a host.
ingressRoute(routes, r) ==
    IF Listed(routes, r) # None THEN Listed(routes, r).pattern
    ELSE [method |-> r.method, host |-> Unnamed, path |-> r.path, rest |-> FALSE]

\* nodeQuarantiner.Quarantine: the node whose pattern is the reason's route.
QuarantinedNode(routes, route) ==
    LET owners == {e \in routes : e.pattern = route}
    IN  IF owners = {} THEN None ELSE (CHOOSE e \in owners : TRUE).node

\* Ingress.mirrors: mirror a request, only serve it, or quarantine. The ingress may still
\* be awaiting its candidate, and routes are None without a migration state. Rules ignore
\* the responses of a request, or they are those of reflection.
mirrors(awaiting, routes, r, ignored) ==
    CASE awaiting -> "serve"
      [] ~awaiting /\ routes = None -> "mirror"
      [] ~awaiting /\ Listed(routes, r) # None -> IF Listed(routes, r).migrated THEN "mirror" ELSE "serve"
      [] OTHER -> IF ignored THEN "serve" ELSE "quarantine"

\* Egress.route: the endpoint pattern a request matches, or its method, host and path.
egressRoute(map, r) ==
    LET found == Match(map, r)
    IN  IF found # None THEN found.pattern
        ELSE [method |-> r.method, host |-> r.host, path |-> r.path, rest |-> FALSE]

-----------------------------------------------------------------------------
(* CallCounter.                                                            *)

NoCalls == [routes |-> [route \in {} |-> 0], other |-> 0]

Count(calls, route) ==
    IF route \in DOMAIN calls.routes \/ Cardinality(DOMAIN calls.routes) < MaxRoutes
    THEN [calls EXCEPT !.routes =
            [x \in DOMAIN @ \cup {route} |-> (IF x \in DOMAIN @ THEN @[x] ELSE 0) + (IF x = route THEN 1 ELSE 0)]]
    ELSE [calls EXCEPT !.other = @ + 1]

Calls(routes) == FoldLeft(Count, NoCalls, routes)

-----------------------------------------------------------------------------
\* The patterns of its own method that match a request.
Own(map, r) == {p \in map : MuxMatches(p, r) /\ p.method = r.method}

\* A GET pattern with the host comes before every pattern of a HEAD request's own method,
\* because those name no host: ServeMux serves it, and Match finds nothing.
Hidden(map, r) ==
    /\ r.method = "HEAD"
    /\ \E p \in map : p.method = "GET" /\ p.host # Unnamed /\ MuxMatches(p, r)
    /\ \A p \in Own(map, r) : p.host = Unnamed

\* A request matches exactly when some pattern of its own method matches it and is not
\* hidden, although ServeMux lets GET serve HEAD, and then by the narrowest such pattern.
MatchExact(map, r) ==
    LET own == Own(map, r)
    IN  /\ Match(map, r) # None <=> own # {} /\ ~Hidden(map, r)
        /\ Match(map, r) # None =>
              \A q \in own \ {Match(map, r).pattern} : Before(Match(map, r).pattern, q)

\* Ending the rules early changes no decision: whichever responses the other rules turn
\* out to select, the first rule that selects is the same, and a request is ignored only
\* if its first rule ignores every response.
ResponsesExact(rules, r, header) ==
    LET applying == SelectSeq(rules, LAMBDA rule : Applies(rule, r, header))
        found == Responses(rules, r, header)
        some == {i \in DOMAIN applying : applying[i].responses = "some"}
        first(list, chosen) == SelectInSeq(list, LAMBDA rule : rule.responses = "every" \/ rule \in chosen)
    IN  \A chosen \in SUBSET {applying[i] : i \in some} :
            IF found.ignored THEN first(applying, chosen) = 1 /\ applying[1].action = "ignore"
            ELSE first(found.rules, chosen) = first(applying, chosen)

\* No call is lost, and a route that is tracked has all of its calls.
CallsConserved(routes) ==
    LET calls == Calls(routes)
        times(route) == Cardinality({i \in DOMAIN routes : routes[i] = route})
    IN  /\ Cardinality(DOMAIN calls.routes) <= MaxRoutes
        /\ \A route \in DOMAIN calls.routes : calls.routes[route] = times(route)
        /\ SumFunction(calls.routes) + calls.other = Len(routes)

\* A quarantine names a node exactly when the state lists the request, and then the one node
\* whose pattern matched it, which is also the one that lets it be mirrored.  Requests that
\* one pattern lists have one route.  A hidden request counts as not listed.
RoutesOwned(nodes, ignored) ==
    LET routes == stateRoutes(nodes)
        node(r) == QuarantinedNode(routes, ingressRoute(routes, r))
        lists(n, r) == \E p \in n.patterns : p.method = r.method /\ MuxMatches(p, r)
    IN  routes # None =>
            \A r \in {r \in Requests : ~Hidden(UNION {n.patterns : n \in nodes}, r)} :
                /\ node(r) = None <=> \A n \in nodes : ~lists(n, r)
                /\ node(r) # None =>
                    \E n \in nodes : n.id = node(r) /\ lists(n, r) /\ (mirrors(FALSE, routes, r, ignored) = "mirror" <=> n.migrated)
                /\ node(r) = None => mirrors(FALSE, routes, r, ignored) = IF ignored THEN "serve" ELSE "quarantine"
                /\ \A s \in Requests :
                    Listed(routes, r) # None /\ Listed(routes, s) = Listed(routes, r) => ingressRoute(routes, r) = ingressRoute(routes, s)

\* Egress requests pair only if one endpoint matches both or they are the same request.
RoutesPair(map) ==
    \A r, s \in Requests :
        egressRoute(map, r) = egressRoute(map, s) =>
            \/ r = s
            \/ Match(map, r) # None /\ Match(map, s) # None /\ Match(map, r).pattern = Match(map, s).pattern

=============================================================================

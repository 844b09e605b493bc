---------------------------- MODULE MCAlgorithms ----------------------------
(***************************************************************************)
(* The pure algorithms of the repository, each over a bounded set of       *)
(* inputs: a step chooses an input, the next runs the algorithm on it.     *)
(***************************************************************************)
EXTENDS MCDeclarations

CONSTANTS Keys, NodeIDs, Requests, Unnamed, Wildcard, MaxRoutes

VARIABLES
    input,  \* what an algorithm is given, with the algorithm's name in input.of
    done    \* it has run

vars == <<input, done>>

MS == INSTANCE MigrationState
RT == INSTANCE Routes

-----------------------------------------------------------------------------
(* Migration states.                                                       *)

Tbl(entries) == MS!Table(entries)
Scalar == MS!Other

MCKeys == <<"Bad", "a", "b", "c", "depends_on", "egress", "grpc", "http", "ingress", "nodes",
            "note", "routes", "status", "timeout">>

\* ingress[http] takes routes, each of one node, as http's server does; grpc a plain value.
MCCatalog ==
    LET plain(name, required) ==
            [name |-> name, required |-> required, keyed |-> FALSE, unique |-> FALSE, entry |-> <<>>]
        routes == [name |-> "routes", required |-> TRUE, keyed |-> TRUE, unique |-> TRUE,
                   entry |-> <<plain("note", FALSE)>>]
    IN  MS!NewCatalog(<<[kind |-> <<"egress", "http">>, settings |-> <<>>],
                     [kind |-> <<"ingress", "http">>, settings |-> <<routes>>],
                     [kind |-> <<"ingress", "grpc">>, settings |-> <<plain("timeout", FALSE)>>]>>,
                   <<"grpc", "http">>)

NoEntries == [key \in {} |-> None]
Entry(key, value) == key :> value

IngressGRPC == Entry("ingress", Tbl(Entry("grpc", Tbl(NoEntries))))
Dependencies == {<<>>} \cup {<<i>> : i \in {"a", "b", "c", "note"}} \cup {"a", "b", "c"} \X {"b", "c"}

\* Every graph of three nodes with up to two dependencies each; statuses and ingress vary.
GraphNode(ids) ==
    {[x \in {"depends_on"} |-> MS!Array(ids)] @@ Entry("status", [kind |-> "pending"]),
     [x \in {"depends_on"} |-> MS!Array(ids)] @@ Entry("status", [kind |-> "migrated"]) @@ IngressGRPC}
Graphs3 == {Entry("nodes", Tbl([a |-> Tbl(x), b |-> Tbl(y), c |-> Tbl(z)])) :
               x \in UNION {GraphNode(d) : d \in Dependencies},
               y \in UNION {GraphNode(d) : d \in {<<>>, <<"a">>, <<"c">>, <<"a", "c">>}},
               z \in UNION {GraphNode(d) : d \in {<<>>, <<"a">>, <<"b">>, <<"c">>, <<"b", "b">>}}}

\* Tables of every shape: a settings table, a protocol, a node, a document.
Settings == {Scalar, Tbl(NoEntries), Tbl(Entry("note", Scalar)), Tbl(Entry("a", Scalar))}
RouteTables == {Scalar, Tbl(NoEntries)} \cup {Tbl(Entry(k, v)) : k \in {"a", "b"}, v \in Settings}
HTTPTables == {Scalar, Tbl(NoEntries), Tbl(Entry("note", Scalar))} \cup {Tbl(Entry("routes", r)) : r \in RouteTables}
NodeTables ==
    {Scalar, Tbl(NoEntries), Tbl(Entry("status", Scalar)), Tbl(Entry("note", Scalar)), Tbl(Entry("depends_on", Scalar)),
     Tbl(Entry("ingress", Scalar)), Tbl(Entry("egress", Tbl(Entry("grpc", Tbl(NoEntries))))),
     Tbl(Entry("ingress", Tbl(Entry("grpc", Tbl(Entry("timeout", Tbl(NoEntries)))))))}
        \cup {Tbl(Entry("ingress", Tbl(Entry("http", h)))) : h \in HTTPTables}
Shaped == {Entry("nodes", Tbl(Entry("a", x) @@ Entry(id, y))) : x \in NodeTables, y \in NodeTables, id \in {"Bad", "b"}}
              \cup {NoEntries, Entry("nodes", Scalar), Entry("note", Scalar)}

\* Lines are those of nodes c, b, a from the top.
MCLines ==
    (<<"nodes", "a">> :> 7) @@ (<<"nodes", "a", "depends_on">> :> 8) @@ (<<"nodes", "a", "status">> :> 9)
        @@ (<<"nodes", "b">> :> 4) @@ (<<"nodes", "b", "depends_on">> :> 5) @@ (<<"nodes", "c", "depends_on">> :> 2)

-----------------------------------------------------------------------------
(* Routes.                                                                 *)

MCRequests == [method : {"GET", "HEAD"}, host : {"h", "i"}, path : {<<"a">>, <<"b">>, <<"a", "b">>}]

MCPatterns == [method : {"GET", "HEAD", Unnamed}, host : {"h", Unnamed},
               path : {<<>>, <<"a">>, <<Wildcard>>, <<"a", Wildcard>>}, rest : BOOLEAN]
WithMethod == {p \in MCPatterns : p.method # Unnamed}

\* Maps of up to three patterns, of those that a map accepts, with a host and without one.
MCMaps ==
    LET pairs == {RT!Add({p}, q) : p \in WithMethod, q \in WithMethod}
    IN  pairs \cup {RT!Add(m, p) : m \in pairs, p \in WithMethod}

MCRules == [pattern : {None, [method |-> Unnamed, host |-> Unnamed, path |-> <<"a">>, rest |-> FALSE],
                       [method |-> "GET", host |-> Unnamed, path |-> <<"b">>, rest |-> FALSE]},
            headers : {{"x"}, {"x", "y"}}, responses : {"every", "some"}, action : {"ignore", "compare"}]

\* Nodes that list up to two patterns each, every one of which matches some request; those
\* of the second node may name a host.
MCListed == {p \in WithMethod : (p.rest => p.path # <<>>) /\ RT!Matched(p) # {}}
MCOwners ==
    LET hostless == {p \in MCListed : p.host = Unnamed}
        lists == {{}} \cup {{p, q} : p \in hostless, q \in {q \in hostless : q.method = "GET"}}
    IN  {{[id |-> "a", migrated |-> m, patterns |-> p], [id |-> "b", migrated |-> ~m, patterns |-> q]} :
            m \in BOOLEAN, p \in lists, q \in {{q} : q \in MCListed}}

-----------------------------------------------------------------------------
Init == input = None /\ done = FALSE

Choose ==
    /\ input = None
    /\ \/ input' \in [of : {"state"}, root : Graphs3 \cup Shaped]
       \/ input' \in [of : {"routes"}, map : MCMaps]
       \/ input' \in [of : {"owners"}, nodes : MCOwners, ignored : BOOLEAN]
       \/ input' \in [of : {"rules"}, rules : MCRules \X MCRules \X MCRules]
       \/ input' \in [of : {"calls"}, routes : SeqOf({"r", "s", "t"}, 5)]
       \/ input' \in Normalised
       \/ input' \in Targets
       \/ input' \in Pairs
       \/ input' \in Comparisons
       \/ input' \in Instanced
       \/ input' \in Programs
       \/ input' \in Scripts
       \/ input' \in Sources
       \/ input' \in Results
       \/ input' \in Contents
       \/ input' \in Unknowns
       \/ input' \in Bindings
       \/ input' \in Identifications
       \/ input' \in Wired
       \/ input' \in Listens
       \/ input' \in Destinations
       \/ input' \in Protos
       \/ input' \in Merges
       \/ input' \in JSchemas
       \/ input' \in Outputs
       \/ input' \in Limits
    /\ UNCHANGED done

Run ==
    /\ input # None /\ ~done
    /\ done' = TRUE
    /\ UNCHANGED input

Finished == done /\ UNCHANGED vars

Next == Choose \/ Run \/ Finished

Spec == Init /\ [][Next]_vars

\* The same for some of the inputs alone.
Only(inputs) == (input = None /\ input' \in inputs /\ UNCHANGED done) \/ Run \/ Finished
RoutesSpec == Init /\ [][Only([of : {"routes"}, map : MCMaps])]_vars
UnknownsSpec == Init /\ [][Only(Unknowns)]_vars

\* The step that runs the input's algorithm.
Runs(of) == Run /\ input.of = of

-----------------------------------------------------------------------------
\* migration.ReadState and LoadState: a state file is refused exactly when it has a problem,
\* its problems are reported in the order of their lines, and a dependency cycle is found wherever it starts.
StateFiles == [][Runs("state") => MS!StateFileExact(input.root, MCLines, MCCatalog)]_vars

\* route.Map, the ingress's node routes, Matcher.Responses and CallCounter: a request has
\* the one route, and the one owner, that its method and path name; rules cut short decide
\* as the whole list would; no call is lost to the limit on counted routes.
RoutesDecide ==
   [][/\ Runs("routes") => RT!RoutesPair(input.map) /\ \A r \in Requests : RT!MatchExact(input.map, r)
      /\ Runs("owners") => RT!RoutesOwned(input.nodes, input.ignored)
      /\ Runs("rules") => \A header \in {"x", "y"} :
              RT!ResponsesExact(input.rules, [method |-> "GET", host |-> "h", path |-> <<"a">>], header)
      /\ Runs("calls") => RT!CallsConserved(input.routes)]_vars

\* route.go on Map.Add: "A pattern without a host matches every host."
HostlessMatches ==
    done /\ input.of = "routes" =>
        \A r \in Requests : (\E p \in RT!Own(input.map, r) : p.host = Unnamed) => RT!Match(input.map, r) # None

\* codec.go in Decode: "ProtoJSON silently discards unknown wire fields, which could hide
\* divergence", so a payload that contains one is refused.
UnknownsAreRefused == done /\ input.of = "unknown" => UnknownsRefused(input)

\* normalise.Plan: normalisers run from the inside out, each on what those inside it left,
\* whatever order scripts declare them in; every target a script may declare is reached.
NormalisersRun ==
   [][/\ Runs("normalise") => NormalisersApply(input)
      /\ Runs("target") => TargetsAccepted(input)]_vars

\* comparison.Compare, Hash and Differences: a report accounts for every difference or
\* says that it was cut short, and payloads compare as equal exactly when they hash alike.
ReportsExact ==
   [][/\ Runs("diff") => ReportsAccount(input)
      /\ Runs("compare") => ComparisonsAgree(input)]_vars

\* schema.Read, Validate and Equal: a schema names every type its payloads reach, accepts
\* exactly their values, and two types are equal exactly when they accept the same values.
SchemasExact ==
   [][/\ Runs("validate") => TypesExact(input)
      /\ Runs("program") => ProgramsClosed(input)]_vars

\* script.Evaluator and rewrite: the first declared rule that selects a message decides it,
\* also when a script is evaluated again; calls receive the arguments of their own types;
\* what a normaliser returns is refused unless it conforms.
ScriptsExact ==
   [][/\ Runs("script") => ScriptsDecide(input)
      /\ Runs("source") => CallsRewritten(input)
      /\ Runs("result") => ResultsConform(input)]_vars

\* httpserver decoding and protocodec: responses whose contents differ are told apart or
\* cannot be compared, and no unknown field outside a group is dropped by the conversion to
\* JSON.
ContentsExact ==
   [][/\ Runs("content") => ContentsCompared(input)
      /\ Runs("unknown") => UnknownsFound(input)]_vars

\* httpserver binding: a field is bound at most once, by its own parameter, and a request
\* that is identified has a payload of its type.
RequestsBound ==
   [][/\ Runs("bind") => ParametersBound(input)
      /\ Runs("identify") => RequestsIdentified(input)]_vars

\* protoconv and the state API: what the server accepts is restored as it was reported, one
\* bad entry refuses the whole list and nothing else does, and a list has what its filter
\* selects, once, whatever the order of the store.
WireRestores == [][\A of \in {"message", "report", "list"} : Runs(of) => ListsRestored(input)]_vars

\* netaddr, ingressBackends and the egress's upstreams: no accepted configuration sends a
\* request back to a listener of the mirror, in whatever case an address is spelled and as
\* IPv4 or mapped IPv6, except through an unspecified address that is taken literally.
AddressesApart ==
   [][/\ Runs("listen") => ListensApart(input)
      /\ Runs("egress") => DestinationsReached(input)]_vars

\* protoschema and jsonschema: the TypeScript declared for a JSON schema accepts exactly its
\* payloads and that declared for a descriptor every payload of its messages, and merged
\* descriptor sets depend on no order.
DeclarationsExact ==
   [][/\ Runs("schema") => SchemasDeclared(input)
      /\ Runs("proto") => PayloadsDeclared(input)
      /\ Runs("merge") => SetsMerged(input)]_vars

\* supervise output and limits: a service's output reaches the log whole, in order and in
\* bounded lines however it is chunked; memory is split without loss.
ServicesExact ==
   [][/\ Runs("output") => OutputsIntact(input)
      /\ Runs("limits") => LimitsShared(input)]_vars

=============================================================================

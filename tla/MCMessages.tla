------------------------------ MODULE MCMessages ------------------------------
(***************************************************************************)
(* Inputs for MessageDecoding, Binding and Wire.                           *)
(***************************************************************************)
EXTENDS MCComparison

CONSTANTS Empty, Control, Names

BD == INSTANCE Binding
WR == INSTANCE Wire

Required(name, v) == [name |-> name, optional |-> FALSE, value |-> v]
Q == CM!Object("Q")
Wire == [types |-> [P |-> <<Required("s", CM!StringKind), Typed("q", Q), Required("l", CM!ListOf(CM!NumberOr(<<"NaN">>)))>>,
                    Q |-> <<Typed("b", CM!BooleanKind), Typed("e", CM!EnumOf(<<"0", "x">>)), Typed("q", Q)>>],
         messages |-> {"P"},
         operations |-> (<<"svc", "get">> :> [request |-> "P", response |-> "P"]
                            @@ <<"svc", "watch">> :> [request |-> "P", response |-> "P"]
                            @@ <<"svc", "bare">> :> [request |-> "Q", response |-> "Q"]),
         streaming |-> {<<"svc", "watch">>}, limit |-> 3]

\* Protobuf messages of two levels, with a field or a group of up to two messages and another
\* field.
Proto(unknown, fields) == [unknown |-> unknown, fields |-> fields]
Trees0 == {Proto(u, <<>>) : u \in BOOLEAN}
Fields(kinds, messages, size) == [kind : kinds, messages : SeqOf(messages, size)]
Kinds2 == {"message", "group"}
Trees1 == Trees0 \cup {Proto(FALSE, <<f>>) : f \in Fields(Kinds2, Trees0, 2)}
Trees == {Proto(u, <<f, g>>) : u \in BOOLEAN, f \in Fields(Kinds2, Trees1, 2), g \in Fields({"message"}, Trees0, 1)}

Framed(flag, exact) == [flag |-> flag, exact |-> exact]
Body(text, v, message, gzip, frame) ==
    [text |-> text, value |-> v, message |-> message, gzip |-> gzip, frame |-> frame, size |-> 2]
Holding(kind, unknown) == [kind |-> kind, messages |-> <<Proto(unknown, <<>>)>>]
Known == Proto(FALSE, <<Holding("message", FALSE)>>)
Unknown == Proto(FALSE, <<Holding("message", TRUE), Holding("message", FALSE)>>)
InGroup == Proto(FALSE, <<Holding("group", TRUE)>>)
JSONTexts == <<<<"{}", Obj(NoMembers)>>, <<"{s}", Obj("s" :> Text("x") @@ "l" :> Lst(<<>>))>>, <<"{s:}", Obj("s" :> Text(""))>>,
               <<"{q}", Obj("q" :> Obj("b" :> <<"boolean", TRUE>> @@ "e" :> Text("x")))>>, <<"{z}", Obj("z" :> Text("x"))>>>>
MCBodies ==
    {Empty, Body("x", None, Known, FALSE, None), Body(None, None, Known, FALSE, None),
     Body("{ s }", JSONTexts[2][2], Unknown, FALSE, Framed(0, TRUE)),
     Body("{s}", JSONTexts[2][2], Known, FALSE, Framed(0, FALSE)), Body("{ s}", JSONTexts[2][2], InGroup, FALSE, Framed(0, TRUE)),
     [Body("{s}", JSONTexts[2][2], Known, TRUE, Framed(1, TRUE)) EXCEPT !.size = 4]}
        \cup {Body(JSONTexts[i][1], JSONTexts[i][2], Known, flag = 1, Framed(flag, TRUE)) : i \in DOMAIN JSONTexts, flag \in {0, 1}}
        \cup {Body("{s}", JSONTexts[2][2], Known, FALSE, Framed(flag, TRUE)) : flag \in {1, 2}}

Asked(method, path, contentType, encoding) ==
    [method |-> method, path |-> path, contentType |-> contentType, query |-> [encoding |-> encoding],
     rules |-> FALSE, ignored |-> FALSE]
ContentTypes == {"json", "grpc", "protobuf", "text", None}
Plans1 ==
    {<<Asked(method, path, contentType, encoding), None>> :
        method \in {"GET", "POST"}, path \in {<<"svc", "get">>, <<"svc", "bare">>, <<"svc", "watch">>, <<"x">>, <<"grpc.h", "check">>},
        contentType \in ContentTypes, encoding \in {None, "json"}}
    \cup {<<[Asked(method, <<"svc", "get">>, contentType, None) EXCEPT !.rules = TRUE], s>> :
            method \in {"HEAD", "POST"}, contentType \in ContentTypes,
            s \in {None, Error, [action |-> "ignore", type |-> None]} \cup [action : {"match"}, type : {None, "P", "Z"}]}
    \cup {<<[Asked("POST", <<"svc", "get">>, "json", None) EXCEPT !.ignored = TRUE], None>>}

ResponseTo(status, contentType, encoding, code, body) ==
    [status |-> status, contentType |-> contentType, encoding |-> encoding, grpcEncoding |-> encoding,
     headerStatus |-> code[1], trailerStatus |-> code[2], body |-> body]
Answered == {ResponseTo(status, contentType, encoding, code, body) :
                status \in {200, 204, 500}, contentType \in {"json", "grpc", "protobuf"},
                encoding \in {"identity", "gzip", "br"}, code \in {<<None, 0>>, <<3, 0>>}, body \in MCBodies}
            \cup {ResponseTo(200, "grpc", "identity", code, Empty) : code \in {<<None, None>>, <<-1, None>>}}

\* Responses decoded one against another (Binding.ContentsTell).
Contents == [of : {"content"}, plan : Plans1, encoding : {"identity", "gzip", "br"}]
ContentsCompared(input) ==
    \A left \in {r \in Answered : r.encoding = input.encoding} :
        \A right \in {[left EXCEPT !.body = b] : b \in MCBodies} \cup {[left EXCEPT !.status = 204]} :
            BD!ContentsTell(Wire, input.plan[1], input.plan[2], left, right)

\* Messages with unknown fields somewhere (Binding.UnknownFound).
Unknowns == [of : {"unknown"}, message : Trees]
UnknownsFound(input) == BD!UnknownFound(input.message)
UnknownsRefused(input) ==
    BD!UnknownRefused(Wire, "P", ResponseTo(200, "protobuf", "identity", <<None, None>>,
                                            Body("{s}", JSONTexts[2][2], input.message, FALSE, None)))

\* Parameters of each kind of field, beside bodies (Binding.BindsOnce).
Given(path, texts, repeatable) == [path |-> path, texts |-> texts, repeatable |-> repeatable]
Parameters == {Given(path, texts, repeatable) :
                  path \in {<<"s">>, <<"l">>, <<"q", "b">>, <<"q", "e">>, <<"q", "q", "b">>, <<"q">>, <<"z">>, <<"s", "b">>},
                  texts \in {<<"0">>, <<"x">>, <<"1", "NaN">>}, repeatable \in BOOLEAN}
Bases == {Obj(NoMembers), Obj("q" :> Text("x")), Obj("s" :> Text("x")),
          Obj("q" :> Obj("q" :> Obj("b" :> <<"boolean", TRUE>>)) @@ "l" :> Lst(<<>>))}
Bindings == [of : {"bind"}, base : Bases, parameters : SeqOf(Parameters, 2)]
ParametersBound(input) == BD!BindsOnce(Wire.types, "P", input.base, input.parameters)

\* Requests on every wire (Binding.RequestsConform).
Identified ==
    {[method |-> method, path |-> path, contentType |-> contentType, encoding |-> "identity", grpcEncoding |-> "gzip", body |-> body,
      declared |-> declared, overflow |-> overflow, wildcards |-> wildcards, query |-> [encoding |-> None, parameters |-> query]] :
        method \in {"GET", "POST"}, path \in {<<"svc", "get">>, <<"svc", "watch">>, <<"x">>}, contentType \in ContentTypes,
        body \in MCBodies, declared \in {None, "P", "Z"}, overflow \in BOOLEAN, wildcards \in {<<>>, <<Given(<<"s">>, <<"0">>, FALSE)>>},
        query \in {Error, <<>>, <<Given(<<"l">>, <<"0">>, TRUE), Given(<<"q", "b">>, <<"0">>, TRUE)>>,
                   <<Given(<<"l">>, <<"0">>, TRUE), Given(<<"q", "b">>, <<"0">>, TRUE), Given(<<"q", "e">>, <<"0">>, TRUE)>>}}
Identifications == [of : {"identify"}, declared : {None, "P", "Z"}]
RequestsIdentified(input) ==
    \A request \in {r \in Identified : r.declared = input.declared} : BD!RequestsConform(Wire, request)

-----------------------------------------------------------------------------
(* Reports.                                                                *)

MCNames == <<"a", "b">>
ID(service, environment) == [service |-> service, environment |-> environment, revision |-> "r"]
Counts(routes, other) == [routes |-> routes, other |-> other]
MCCounts == {Counts(r, o) : r \in {[x \in {} |-> 0], "GET" :> 1}, o \in {0, 1}}

\* Messages as any client may send them, with enums out of range and fields not set.
MCDifferences == {<<>>} \cup {<<[path |-> "p", change |-> c, count |-> 1, types |-> t]>> : c \in {0, 1, 4, 5}, t \in {<<0, 0>>, <<1, 6>>, <<1, 0>>}}
QuarantineMessages ==
    {[direction |-> d, since |-> s, kind |-> k, differences |-> f, node |-> n, traffic |-> t] :
        d \in 0..2, s \in {None, 1}, k \in {0, 1, 6}, f \in MCDifferences, n \in {None, "", "n"},
        t \in {None} \cup [direction : {0, 2}, route : {""}]}
SomeMessages == {m \in QuarantineMessages : m.since = 1 /\ m.kind = 1 /\ m.node = "n" /\ m.traffic = None /\ Len(m.differences) = 0}
Updates ==
    {<<"quarantine", m>> : m \in QuarantineMessages} \cup {<<"keepalive", None>>}
        \cup {<<"calls", c>> : c \in MCCounts \cup {None, Counts("" :> 1, 0)}}
        \cup {<<"state", [id |-> id, uptime |-> u, calls |-> c, quarantines |-> q]>> :
                 id \in {ID("a", "b"), ID("", "b")}, u \in {None, 1}, c \in MCCounts \cup {None, Counts("" :> 1, 0)},
                 q \in SeqOf(SomeMessages, 2)}
Laters == {<<"quarantine", m>> : m \in SomeMessages}

\* Quarantines and states as mirrors hold them.
Reason(kind, node, differences) == [kind |-> kind, node |-> node, differences |-> differences, traffic |-> None]
Changed(change, retype) == <<[path |-> "p", change |-> change, count |-> 2, retype |-> retype]>>
Holdable == {[since |-> 1, reason |-> Reason(k, n, <<>>)] : k \in ToSet(WR!Kinds), n \in {None, "n"}}
                \cup {[since |-> 2, reason |-> Reason("divergent", "m", d)] :
                         d \in {Changed(c, None) : c \in {"missing", "added", "changed"}} \cup {Changed("retyped", <<"null", "list">>)}}
Held == {[since |-> 1, reason |-> Reason("unable", n, <<>>)] : n \in {None, "m", "n"}}
StatesOf(id, calls, quarantines) ==
    {[id |-> id, uptime |-> 1, calls |-> c, quarantines |-> q] : c \in calls, q \in UNION {[ds -> quarantines] : ds \in SUBSET {"ingress", "egress"}}}
Reports == {<<"state", s>> : s \in StatesOf(ID("a", "b"), MCCounts, Holdable)}

Sound == CHOOSE s \in StatesOf(ID("a", "b"), {Counts(NoMembers, 0)}, Held) : TRUE

FilterSet == [service : {None, "a", "b"}, environment : {None, "b"}, revision : {None, "q", "r"}, node : {None, "n", ""}]

\* The divergences of a state, and those of a run before it in the other directions.
Before(state) ==
    LET ended == SelectSeq(WR!Directions, LAMBDA d : d \notin DOMAIN state.quarantines)
    IN  [i \in DOMAIN ended |-> [id |-> [state.id EXCEPT !.revision = "q"], direction |-> ended[i],
                                 quarantine |-> [since |-> 1, reason |-> Reason("unable", "n", <<>>)]]]
Recorded(state, before) == WR!DivergencesOf(state) \o (IF before THEN Before(state) ELSE <<>>)

\* Messages and lists (Wire.AcceptedRestored, ListRefused, ReportRestored and FiltersExact).
Wired == [of : {"message"}, message : Updates] \cup [of : {"report"}, update : Reports]
            \cup [of : {"list"}, states : {<<s, t>> : s \in StatesOf(ID("b", "a"), {Counts(NoMembers, 0)}, Held),
                                                  t \in StatesOf(ID("a", "b"), {Counts(NoMembers, 0)}, Held)},
                    before : BOOLEAN, expired : BOOLEAN]
ListsRestored(input) ==
    CASE input.of = "message" -> 
                /\ \A later \in Laters : WR!AcceptedRestored(input.message, later)
                /\ WR!ListRefused(input.message, WR!StateMessage(Sound))
      [] input.of = "report" -> WR!ReportRestored(input.update)
      [] input.of = "list" -> 
             \A filter \in FilterSet :
                 WR!FiltersExact(IF input.expired THEN Tail(input.states) ELSE input.states,
                                 Recorded(input.states[1], input.before) \o Recorded(input.states[2], input.before), filter)

=============================================================================

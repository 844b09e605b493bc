---------------------------- MODULE MCDeclarations ----------------------------
(***************************************************************************)
(* Inputs for Descriptors, JSONSchema, Addresses and ServiceOutput.        *)
(***************************************************************************)
EXTENDS MCMessages

CONSTANTS Upper, Digits, Punctuation, Loopbacks, Anywhere, NL, Blank, Char, Label, Role, Comma, MaxServiceLine

DS == INSTANCE Descriptors
JS == INSTANCE JSONSchema
AD == INSTANCE Addresses
SO == INSTANCE ServiceOutput

-----------------------------------------------------------------------------
(* Protobuf files: a has a message M and a service, b the types that M     *)
(* names, c an extension of M and g the well-known messages.               *)

ProtoField(name, kind, card, presence, type) ==
    [name |-> name, number |-> 1, kind |-> kind, card |-> card, presence |-> presence, type |-> type, extends |-> None]
Kinds1 == {<<"string", None>>, <<"bool", None>>, <<"int32", None>>, <<"float", None>>, <<"enum", "E">>, <<"enum", "NullValue">>}
              \cup {<<"message", t>> : t \in {"M", "N", "Timestamp", "DoubleValue", "Struct"}}
ProtoFields(name, kinds) ==
    {ProtoField(name, k[1], card[1], card[2], k[2]) : k \in kinds, card \in {<<"one", TRUE>>, <<"list", FALSE>>, <<"map", FALSE>>}}
        \cup {ProtoField(name, k[1], "one", FALSE, k[2]) : k \in {k \in kinds : k[1] # "message"}}
ProtoMessage(name, fields) == [name |-> name, fields |-> fields, entry |-> FALSE]
ProtoFile(name, package, imports, messages, enums, services, extensions) ==
    [package |-> package, imports |-> imports, local |-> TRUE, declaration |-> name,
     messages |-> messages, enums |-> enums, services |-> services, extensions |-> extensions]
Extension(number, kind, type) ==
    [ProtoField("x", kind, "one", TRUE, type) EXCEPT !.presence = FALSE, !.number = number, !.extends = "M"]

MCFiles(first, second, extension, closed, output, package, name) ==
    [path \in {"a", "b", "c", "g"} |->
        CASE path = "a" -> ProtoFile("a", package, {"b", "g"}, <<ProtoMessage("M", <<first>> \o second)>>, <<>>,
                <<[name |-> "S", methods |-> <<[name |-> "get", input |-> "M", output |-> output, streaming |-> FALSE],
                                               [name |-> "watch", input |-> "Struct", output |-> "M", streaming |-> TRUE]>>]>>, <<>>)
          [] path = "b" -> ProtoFile(name, "p", {"g"}, <<ProtoMessage("N", <<ProtoField("s", "string", "one", FALSE, None)>>)>>,
                                     <<[name |-> "E", literals |-> <<"v", "w">>, closed |-> closed]>>, <<>>, <<>>)
          [] path = "c" -> ProtoFile("c", "p", {"a", "b"}, <<>>, <<>>, <<>>, extension)
          [] path = "g" -> ProtoFile("g", "q", {}, [i \in 1..3 |-> ProtoMessage(<<"Timestamp", "DoubleValue", "Struct">>[i], <<>>)],
                                     <<[name |-> "NullValue", literals |-> <<"n">>, closed |-> FALSE]>>, <<>>, <<>>)]

\* Files that render and those that do not (Descriptors.DeclaresPayloads and ChangesRefused).
Protos ==
    [of : {"proto"}, first : ProtoFields("f", Kinds1), second : {<<>>} \cup {<<f>> : f \in ProtoFields("g", {<<"enum", "E">>})},
     extension : {<<>>, <<Extension(2, "float", None)>>, <<[Extension(3, "message", "N") EXCEPT !.name = "y"], Extension(2, "string", None)>>},
     closed : BOOLEAN, output : {"M", "N", "Struct"}, package : {"p"}, name : {"b"}]
    \cup [of : {"proto"}, first : {ProtoField("f", "message", "one", TRUE, "N")}, second : {<<>>}, extension : {<<>>},
          closed : {TRUE}, output : {"M"}, package : {"", "p"}, name : {"a", "b", "g"}]
OtherValues == {CM!StringKind, CM!NumberOr(<<>>), CM!EnumOf(<<"w", "v">>), CM!NumberOr(<<"v">>), CM!Object("N"), CM!ListOf(CM!Object("N"))}
PayloadsDeclared(input) ==
    LET files == MCFiles(input.first, input.second, input.extension, input.closed, input.output, input.package, input.name)
    IN  DS!DeclaresPayloads(files, 1) /\ DS!ChangesRefused(files, OtherValues)

\* Sets of two files with copies that differ in metadata or more (Descriptors.MergeOrderless).
FileCopies == [name : {"a", "b"}, schema : {"1", "2"}, imports : {{}, {"b"}}, metadata : {None, "m"}]
FileSets == {<<f>> : f \in FileCopies} \cup {<<f, g>> : f \in FileCopies, g \in {f \in FileCopies : f.name = "b" /\ f.imports = {}}}
Merges == [of : {"merge"}, sets : {<<s, t>> : s \in FileSets, t \in FileSets}]
             \cup [of : {"merge"}, sets : {<<>>, <<<<>>>>} \cup {<<s, <<>>>> : s \in FileSets}]
SetsMerged(input) == DS!MergeOrderless(input.sets)

-----------------------------------------------------------------------------
(* JSON schemas of three nodes; 1 is a root with a title, 2 may be one.    *)

MCUpper == ("a" :> "A") @@ ("i" :> "I") @@ ("t" :> "T") @@ ("v" :> "V")
PropertyOf(name, schema) == [name |-> name, schema |-> schema]
Plain == {[JS!EmptySchema EXCEPT !.types = {"string"}], [JS!EmptySchema EXCEPT !.types = {"integer"}, !.enum = <<<<"number", 1>>>>],
          [JS!EmptySchema EXCEPT !.enum = <<Text("x"), Text("y")>>], [JS!EmptySchema EXCEPT !.types = {"string", "null"}],
          [JS!EmptySchema EXCEPT !.bool = TRUE], [JS!EmptySchema EXCEPT !.unsupported = TRUE, !.types = {"string"}]}
Closed == [JS!EmptySchema EXCEPT !.types = {"object"}, !.additional = "closed"]
Linked(s) ==
    {[JS!EmptySchema EXCEPT !.ref = s], [JS!EmptySchema EXCEPT !.ref = s, !.types = {"object"}], [JS!EmptySchema EXCEPT !.items = s],
     [JS!EmptySchema EXCEPT !.additional = s], [JS!EmptySchema EXCEPT !.additional = s, !.required = {<<"a">>}],
     [JS!EmptySchema EXCEPT !.additional = s, !.min = 1],
     [JS!EmptySchema EXCEPT !.properties = <<PropertyOf(<<"a">>, s)>>], [JS!EmptySchema EXCEPT !.properties = <<PropertyOf(<<"a">>, s)>>, !.max = 0],
     [JS!EmptySchema EXCEPT !.properties = <<PropertyOf(<<"a">>, s)>>, !.required = {<<"a">>}, !.min = 1]}
Joined ==
    {[JS!EmptySchema EXCEPT !.properties = <<PropertyOf(n[1], "2"), PropertyOf(n[2], s)>>, !.required = {n[2]}] :
        s \in {"2", "3"}, n \in {<<<<"A">>, <<"a">>>>, <<<<"a">>, <<"v">>>>, <<<<"1">>, <<"a", "_", "t">>>>}}
    \cup {[JS!EmptySchema EXCEPT !.properties = <<PropertyOf(<<"a">>, "2")>>, !.additional = a] : a \in {"3", "open", "closed"}}
MCNodes == Plain \cup {Closed} \cup UNION {Linked(s) : s \in {"1", "2", "3"}}

JSchemas == [of : {"schema"}, root : Joined \cup UNION {Linked(s) : s \in {"1", "2"}}, second : MCNodes,
             third : {Closed} \cup Plain \cup Linked("1") \cup Linked("2"),
             tops : {<<<<"1", <<"t">>>>>>, <<<<"1", <<"t">>>>, <<"2", <<"a">>>>>>}]
JScalars == {Text("x"), Text("z"), <<"number", 1>>, <<"number", 2>>}
JNested(values) == {Lst(<<>>)} \cup {Lst(<<v>>) : v \in values} \cup {Obj(f) : f \in Maybe(<<"a">>, values) \cup Maybe(<<"z">>, values)}
JValues == LET one == JScalars \cup JNested(JScalars)
           IN  one \cup JNested(JNested({Text("x")})) \cup {Obj(<<"a">> :> v @@ <<"v">> :> Text("x")) : v \in one}

\* Schemas inside the subset and outside it (JSONSchema.DeclaresSchemas).
SchemasDeclared(input) ==
    JS!DeclaresSchemas([s \in {"1", "2", "3"} |-> CASE s = "1" -> input.root [] s = "2" -> input.second [] s = "3" -> input.third],
                       input.tops, JValues)

-----------------------------------------------------------------------------
(* Addresses.                                                              *)

Hosts == {<<"name", "", "lower">>, <<"name", "localhost", "lower">>, <<"name", "localhost", "upper">>, <<"name", "db", "lower">>,
          <<"name", "db", "upper">>, <<"ip", "127.0.0.1", "plain">>, <<"ip", "127.0.0.1", "mapped">>, <<"ip", "::1", "plain">>,
          <<"ip", "10.0.0.1", "plain">>, <<"ip", "10.0.0.1", "mapped">>, <<"ip", "0.0.0.0", "plain">>, <<"ip", "0.0.0.0", "mapped">>}
ListenAt == [socket : {"/s", "@s"}, host : {AD!NoHost}, port : {0}]
                \cup [socket : {None}, host : Hosts, port : {Error, 80, 443}]
URLs == [scheme : {"http", "h2c", "https"}, socket : {"/s", "@s", Error}, host : {AD!NoHost}, port : {None}, more : {""}]
            \cup [scheme : {"http", "https", "h2c", "ftp"}, socket : {None}, host : Hosts, port : {None, Error, 0, 80, 8080}, more : {"", "/"}]
            \cup [scheme : {"http"}, socket : {None}, host : {<<"ip", "127.0.0.1", "plain">>}, port : {80}, more : {"/path", "?query"}]
Accepted == {AD!ParseBackend(u) : u \in URLs} \ {Error}
Machine == {"127.0.0.1", "::1", "10.0.0.1"}

\* Backends beside listeners (Addresses.LoopsFound, SpellingsAlike and BackendsApart).
Listens == [of : {"listen"}, listen : ListenAt, candidate : URLs]
ListensApart(input) ==
    LET e == AD!ParseBackend(input.candidate)
        listener == AD!ParseListen(input.listen)
    IN  /\ e # Error => AD!LoopsFound(e, listener, Machine) /\ \A other \in Accepted : AD!SpellingsAlike(e, other, listener)
        /\ \A u \in {u \in URLs : u.scheme = "http" /\ u.more = "" /\ u.port # 8080} :
              LET config == [reference |-> u, candidate |-> input.candidate, listen |-> input.listen]
              IN  AD!BackendsApart(config, [input.candidate EXCEPT !.host = CASE @[3] = "upper" -> <<@[1], @[2], "lower">>
                                                                              [] @[3] = "mapped" -> <<@[1], @[2], "plain">>
                                                                              [] @[3] = "plain" -> <<@[1], @[2], "mapped">>
                                                                              [] OTHER -> @])

\* Destinations of an egress and the hosts of requests (Addresses.NothingLoops).
Entries == {[name |-> n, colon |-> c, url |-> [scheme |-> "http", socket |-> None, host |-> h, port |-> 80, more |-> ""]] :
               n \in {<<"name", "*", "lower">>, <<"name", "db", "lower">>, <<"name", "db", "upper">>, AD!NoHost}, c \in BOOLEAN,
               h \in {<<"ip", "127.0.0.1", "mapped">>, <<"name", "localhost", "upper">>, <<"name", "db", "lower">>, <<"ip", "0.0.0.0", "plain">>}}
\* A map's keys are distinct and sorted, upper case first.
InOrder(e, f) ==
    LET names == <<AD!NoHost, <<"name", "*", "lower">>, <<"name", "db", "upper">>, <<"name", "db", "lower">>>>
        rank(n) == SelectInSeq(names, LAMBDA m : m = n)
    IN  rank(e.name) < rank(f.name)
Upstreams == {<<>>} \cup {<<e>> : e \in Entries} \cup {s \in Entries \X Entries : InOrder(s[1], s[2])}
Destinations == [of : {"egress"}, upstreams : Upstreams, listen : {l \in ListenAt : l.port # Error}]
DestinationsReached(input) ==
    \A host \in Hosts : \A port \in {None, 80, 443, Error} :
        AD!NothingLoops(input.upstreams, {AD!ParseListen(input.listen)}, host, port, Machine)

-----------------------------------------------------------------------------
(* The output and the limits of services.                                  *)

Bytes == {NL, Blank, Char, "{", "}"}
\* Up to five bytes in one or two writes (ServiceOutput.OutputIntact).
Outputs == [of : {"output"}, data : SeqOf(Bytes, 5), cut : 0..2]
OutputsIntact(input) ==
    LET n == IF input.cut > Len(input.data) THEN Len(input.data) ELSE input.cut
    IN  SO!OutputIntact(<<SubSeq(input.data, 1, n), SubSeq(input.data, n + 1, Len(input.data))>>)

\* Shares and budgets that do not divide (ServiceOutput.SplitWhole).
Limits == [of : {"limits"}, candidateShare : 0..3, referenceShare : 0..3, enabled : BOOLEAN, memoryMax : {-1, 0},
           candidateWeight : {0, 1, 10001}, referenceWeight : {100}, budget : {-1, 0, 1, 5, 7}]
LimitsShared(input) == SO!SplitWhole(input, input.budget)

==============================================================================

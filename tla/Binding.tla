------------------------------- MODULE Binding -------------------------------
(***************************************************************************)
(* internal/httpserver/message: decoding a dependency request, whose path  *)
(* wildcards and query parameters give fields of its payload.  A parameter *)
(* is a field path with its texts; only the query's may repeat.            *)
(***************************************************************************)
EXTENDS MessageDecoding, TLC

\* The texts that strconv parses as finite numbers and as booleans.
Numerals == "0" :> 0 @@ "1" :> 1
Booleans == "0" :> FALSE @@ "1" :> TRUE @@ "true" :> TRUE

parseScalar(shape, raw) ==
    CASE shape.kind = "string" -> <<"string", raw>>
      [] shape.kind = "number" -> IF raw \in ToSet(shape.literals) THEN <<"string", raw>>
                                  ELSE IF raw \in DOMAIN Numerals THEN <<"number", Numerals[raw]>> ELSE Error
      [] shape.kind = "boolean" -> IF raw \in DOMAIN Booleans THEN <<"boolean", Booleans[raw]>> ELSE Error
      [] shape.kind = "enum" -> IF raw \in ToSet(shape.literals) THEN <<"string", raw>> ELSE Error
      [] OTHER -> Error

\* resolveBinding: the shape of the scalar, or repeated scalar, that a path names.
RECURSIVE resolveBinding(_, _, _, _)
resolveBinding(types, root, path, repeatable) ==
    IF path[1] \notin FieldNames(types[root]) THEN Error
    ELSE LET shape == Field(types[root], path[1]).value
             scalar == IF shape.kind = "list" THEN shape.element ELSE shape
         IN  IF Len(path) > 1
             THEN IF shape.kind = "object" THEN resolveBinding(types, shape.type, Tail(path), repeatable) ELSE Error
             ELSE IF (shape.kind = "list" /\ ~repeatable) \/ scalar.kind \in {"object", "list", "map"} THEN Error
             ELSE shape

\* The value that a parameter's texts give its field.
Parsed(shape, texts) ==
    LET scalars == [i \in DOMAIN texts |-> parseScalar(IF shape.kind = "list" THEN shape.element ELSE shape, texts[i])]
    IN  IF Error \in ToSet(scalars) \/ (shape.kind # "list" /\ Len(texts) # 1) THEN Error
        ELSE IF shape.kind = "list" THEN <<"list", scalars>> ELSE scalars[1]

RECURSIVE Bind(_, _, _)
Bound(object, key, v) ==
    IF v = Error THEN Error
    ELSE <<"object", [k \in DOMAIN object[2] \cup {key} |-> IF k = key THEN v ELSE object[2][k]]>>
Child(object, key) == IF key \in DOMAIN object[2] THEN object[2][key] ELSE EmptyObject

\* Mutant: a later value replaces an earlier one.
BindOver(object, path, v) ==
    IF object[1] # "object" THEN Error
    ELSE Bound(object, path[1], IF Len(path) = 1 THEN v ELSE Bind(Child(object, path[1]), Tail(path), v))

\* bindField's walk: parents are made as they are needed, and no value is replaced.
Bind(object, path, v) ==
    IF object[1] # "object" THEN Error
    ELSE IF Len(path) = 1 /\ path[1] \in DOMAIN object[2] THEN Error
    ELSE Bound(object, path[1], IF Len(path) = 1 THEN v ELSE Bind(Child(object, path[1]), Tail(path), v))

bindField(types, root, object, parameter) ==
    LET shape == resolveBinding(types, root, parameter.path, parameter.repeatable)
    IN  IF shape = Error THEN Error ELSE Bind(object, parameter.path, Parsed(shape, parameter.texts))

BindAll(types, root, object, parameters) ==
    FoldLeft(LAMBDA o, p : IF o = Error THEN Error ELSE bindField(types, root, o, p), object, parameters)

\* bindHTTPParameters: the wildcards and then the query.
bindHTTPParameters(types, root, object, request) ==
    IF (request.method = "GET" /\ request.body # Empty) \/ request.query.parameters = Error THEN Error
    ELSE BindAll(types, root, object, request.wildcards \o request.query.parameters)

\* decodeRequest
decodeRequest(d, root, wire, request) ==
    LET payload == decodePayload(d, root, wire, request)
        bound == IF payload = Error \/ wire # "http" THEN payload
                 ELSE IF payload[1] # "object" THEN Error
                 ELSE bindHTTPParameters(d.types, root, payload, request)
    IN  IF bound = Error THEN Error
        ELSE IF ~Validate(d.types, root, bound) \/ EncodedSize(bound) > d.limit THEN Error ELSE bound

\* Decoder.Request: the message that identifies a request; declared is its endpoint's type.
Request(d, request) ==
    LET wire == requestWire(request.contentType)
        selected == IF request.declared # None /\ wire \notin {"grpc", "protobuf"} THEN "http" ELSE wire
        named == conventionalMethod(d, request.path)
        root == IF request.declared # None THEN request.declared ELSE IF named = None THEN None ELSE named.request
        bound == IF request.overflow \/ selected = Error \/ root \notin DOMAIN d.types THEN Error
                 ELSE decodeRequest(d, root, selected, request)
    IN  IF bound = Error THEN Error ELSE [type |-> root, message |-> bound]

-----------------------------------------------------------------------------
(* What decoding promises.                                                 *)

\* The messages inside a protobuf message, itself included, that fields of some kinds reach.
RECURSIVE Inside(_, _)
Inside(message, kinds) ==
    {message} \cup UNION {UNION {Inside(m, kinds) : m \in ToSet(field.messages)} :
                             field \in {f \in ToSet(message.fields) : f.kind \in kinds}}

\* Unknown protobuf fields are found at any depth, in lists, maps and single fields, wherever
\* no group is on the way (codec.containsUnknown).
UnknownFound(message) == containsUnknown(message) <=> \E m \in Inside(message, {"message"}) : m.unknown

\* A protobuf body with an unknown field anywhere in it is not decoded.
UnknownRefused(d, root, m) ==
    (\E x \in Inside(m.body.message, {"message", "group"}) : x.unknown) => codecDecode(d, root, "protobuf", m) = Error

\* What a body can be taken to say: its text, its JSON, and that with a type's defaults.
Readings(d, type, body) ==
    LET v == IF body = Empty THEN EmptyObject ELSE body.value
    IN  (IF body = Empty THEN {<<"string", "">>, <<"null">>, v} ELSE {<<"text", body.text>>, v})
            \cup (IF type = None \/ v = None THEN {} ELSE {ProtoJSON(d.types, type, v)})

\* Comparing decoded content hides no difference: when a request's responses have the same
\* content, their statuses agree and, unless the protocol leaves only the status to compare,
\* both bodies can be read as the same message, of which no protobuf field outside a group was
\* unknown.  A typed message is of its type, and no response of a plan known to be ignored is
\* compared.
ContentsTell(d, request, selected, left, right) ==
    LET a == Decode(d, request, selected, left)
        b == Decode(d, request, selected, right)
        wire == requestWire(request.contentType)
        protobuf == wire \in {"grpc", "protobuf"} /\ a.type # None
    IN  /\ a.type # None => Validate(d.types, a.type, a.message)
        /\ IgnoredPlan(Responses(d, request)) => a.outcome = "ignored"
        /\ a = b /\ a.outcome = "content" =>
              /\ left.status = right.status
              /\ a.message = None =>
                    \/ Empty \in {left.body} \cap {right.body}
                    \/ wire = "grpc" /\ grpcStatus(left) \notin {0, Error}
                    \/ wire = "protobuf" /\ left.status # 200
              /\ a.message # None => \E r \in Readings(d, a.type, left.body) : r \notin {None, Error, <<"text", None>>} /\ r \in Readings(d, a.type, right.body)
              /\ protobuf => \A m \in UNION {Inside(r.body.message, {"message"}) : r \in {x \in {left, right} : x.body # Empty}} : ~m.unknown

\* Where an object holds something, other than an object on the way, that the path needs.
Blocked(object, path) ==
    LET Held == {leaf[1] : leaf \in Leaves(object, <<>>)}
    IN  \E held \in Held : IsPrefix(held, path) \/ IsPrefix(path, held)

\* Path and query values never replace a value of the body nor one another
\* (bindHTTPParameters: "binds each field once"): binding succeeds exactly when every
\* parameter parses and no two sources give a field, whatever the order, and the result
\* holds just the body's leaves and one for each parameter.
BindsOnce(types, root, object, parameters) ==
    LET bound == BindAll(types, root, object, parameters)
        leaf(p) == LET shape == resolveBinding(types, root, p.path, p.repeatable)
                   IN  <<p.path, IF shape = Error THEN Error ELSE Parsed(shape, p.texts)>>
        leaves == {leaf(parameters[i]) : i \in DOMAIN parameters}
        clash == \/ \E i, j \in DOMAIN parameters : i # j /\ parameters[i].path = parameters[j].path
                 \/ \E i \in DOMAIN parameters : Blocked(object, parameters[i].path)
    IN  /\ bound = BindAll(types, root, object, Reverse(parameters))
        /\ bound = Error <=> clash \/ \E x \in leaves : x[2] = Error
        /\ bound # Error => Leaves(bound, <<>>) = Leaves(object, <<>>) \cup leaves

\* A request that is identified is an instance of its type and was captured whole: one cut
\* short at the limit, or that grows past it, is not identified (Decoder.Request).
RequestsConform(d, request) ==
    LET identified == Request(d, request)
    IN  identified # Error =>
            /\ Validate(d.types, identified.type, identified.message)
            /\ ~request.overflow /\ EncodedSize(identified.message) <= d.limit

=============================================================================

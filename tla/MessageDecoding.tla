---------------------------- MODULE MessageDecoding ----------------------------
(***************************************************************************)
(* internal/httpserver/message and codec: how requests and responses       *)
(* become comparable content.                                              *)
(*                                                                         *)
(* A body is Empty or a record: its text (None when it is not UTF-8), the  *)
(* JSON value that it is in its format (None when malformed), the protobuf *)
(* message tree, its inflated size, whether it is compressed, and its      *)
(* gRPC frame.  A decoder d has the types of the schema, the names of      *)
(* protobuf messages, operations, streaming methods and the size limit.    *)
(***************************************************************************)
EXTENDS Schema

CONSTANTS Error,
          Empty,   \* a body of no bytes
          Control  \* the path segments that begin with "grpc."

EmptyObject == <<"object", [k \in {} |-> None]>>

\* requestWire: the wire that a content type names.
requestWire(contentType) ==
    CASE contentType = "json" -> "connect"
      [] contentType \in {"grpc", "protobuf"} -> contentType
      [] OTHER -> Error

\* Bytes read as they are: those of a compressed body are neither text nor a message.
Plain(body) ==
    IF body = Empty THEN [text |-> "", value |-> None]
    ELSE IF body.gzip THEN [text |-> None, value |-> None]
    ELSE [text |-> body.text, value |-> body.value]

\* Reading a compressed body up to one byte more than the limit.
Inflate(d, body) ==
    IF body = Empty THEN Error
    ELSE IF ~body.gzip \/ body.size > d.limit THEN Error
    ELSE [text |-> body.text, value |-> body.value]

\* decompressHTTPBody
decompress(d, m) ==
    CASE m.encoding = "identity" -> Plain(m.body)
      [] m.encoding = "gzip" -> Inflate(d, m.body)
      [] OTHER -> Error

\* grpcPayload: a body is exactly one frame, compressed as its flag and headers say.
grpcPayload(d, m) ==
    IF m.body = Empty THEN Error
    ELSE IF m.body.frame = None THEN Error
    ELSE IF ~m.body.frame.exact THEN Error
    ELSE CASE m.body.frame.flag = 0 -> Plain(m.body)
           [] m.body.frame.flag = 1 -> IF m.grpcEncoding = "gzip" THEN Inflate(d, m.body) ELSE Error
           [] OTHER -> Error

-----------------------------------------------------------------------------
(* Protobuf messages.  A message has unknown bytes or not, and a sequence  *)
(* of fields, each with its kind ("message" or "group") and the sequence   *)
(* of messages that it holds.                                              *)

RECURSIVE containsUnknown(_)

\* containsUnknown: fields of MessageKind are looked at until one has unknown bytes.
containsUnknown(message) ==
    \/ message.unknown
    \/ FoldLeft(LAMBDA unknown, field :
                    \/ unknown
                    \/ field.kind = "message" /\ \E m \in ToSet(field.messages) : containsUnknown(m),
                FALSE, message.fields)

\* protojson's EmitDefaultValues: what fields without presence hold when they are not set.
Default(shape) ==
    CASE shape.kind = "string" -> <<"string", "">>
      [] shape.kind = "number" -> <<"number", 0>>
      [] shape.kind = "boolean" -> <<"boolean", FALSE>>
      [] shape.kind = "enum" -> <<"string", shape.literals[1]>>
      [] shape.kind = "list" -> <<"list", <<>>>>
      [] OTHER -> EmptyObject

\* A message in ProtoJSON: an instance of the type with its defaults, or Error.
ProtoJSON(types, root, v) ==
    IF v[1] # "object" THEN Error
    ELSE LET unset == {i \in DOMAIN types[root] : ~types[root][i].optional /\ types[root][i].name \notin DOMAIN v[2]}
             names == {types[root][i].name : i \in unset}
             filled == <<"object", [k \in DOMAIN v[2] \cup names |->
                                        IF k \in names THEN Default(Field(types[root], k).value) ELSE v[2][k]]>>
         IN  IF Validate(types, root, filled) THEN filled ELSE Error

\* The leaves of a value: its members that are not objects, by path.
RECURSIVE Leaves(_, _)
Leaves(v, path) ==
    IF v[1] # "object" THEN {<<path, v>>}
    ELSE UNION {Leaves(v[2][key], Append(path, key)) : key \in DOMAIN v[2]}

\* The size of a value's JSON, measured by its leaves.
EncodedSize(v) == Cardinality(Leaves(v, <<>>))

\* Codec.Decode, unmarshalProtoJSON and payloadValue.  No bytes are a protobuf message, not JSON.
codecDecode(d, root, wire, m) ==
    LET payload == IF wire = "grpc" THEN grpcPayload(d, m) ELSE Plain(m.body)
        bare == wire # "connect" /\ payload # Error /\ m.body = Empty
        v == IF payload = Error THEN Error
             ELSE IF bare THEN ProtoJSON(d.types, root, EmptyObject)
             ELSE IF payload.value = None THEN Error ELSE ProtoJSON(d.types, root, payload.value)
    IN  IF root \notin d.messages \/ v = Error THEN Error
        ELSE IF wire # "connect" /\ ~bare /\ containsUnknown(m.body.message) THEN Error
        ELSE IF EncodedSize(v) > d.limit THEN Error ELSE v

\* decodePayload
decodePayload(d, root, wire, m) ==
    IF wire # "http" THEN codecDecode(d, root, wire, m)
    ELSE IF m.body = Empty THEN EmptyObject
    ELSE IF m.contentType # "json" THEN Error
    ELSE LET plain == decompress(d, m)
         IN  IF plain = Error THEN Error ELSE IF plain.value = None THEN Error ELSE plain.value

-----------------------------------------------------------------------------
(* Responses.  What a response is compared by is its status and message;   *)
(* otherwise it is ignored or it cannot be decoded.                        *)

HTTP(response) == <<"http", response.status>>

Content(outcome, status, type, message) ==
    [outcome |-> outcome, status |-> status, type |-> type, message |-> message]

\* newContent: payload is Error, None for no message, or the message's value.
newContent(status, type, payload) ==
    IF payload = Error THEN Content("failure", status, None, None)
    ELSE Content("content", status, IF payload = None THEN None ELSE type, payload)

\* decodeTyped and decodeResponse
decodeTyped(d, p, response) ==
    LET payload == decodePayload(d, p.type, p.wire, response)
    IN  IF payload = Error THEN Error
        ELSE IF Validate(d.types, p.type, payload) THEN payload ELSE Error

Bodyless(p, response) == response.body = Empty /\ (p.method = "HEAD" \/ response.status \in {204, 304})

\* Mutant: responses that should have no body are compared by status alone even when they have.
decodeHTTPJSONStatus(d, p, response) ==
    IF p.method = "HEAD" \/ response.status \in {204, 304} THEN None ELSE decodeTyped(d, p, response)

decodeHTTPJSON(d, p, response) ==
    IF Bodyless(p, response) THEN None ELSE decodeTyped(d, p, response)

decodeText(d, p, response) ==
    LET plain == decompress(d, response)
    IN  IF Bodyless(p, response) THEN None
        ELSE IF plain = Error THEN Error ELSE IF plain.text = None THEN Error ELSE <<"string", plain.text>>

\* decodeConnect and connectErrorPayload: an error's envelope has no type.
decodeConnect(d, p, response) ==
    LET envelope == IF response.body = Empty THEN <<"null">> ELSE Plain(response.body).value
    IN  IF response.contentType # "json" THEN newContent(HTTP(response), None, Error)
        ELSE IF response.status = 200 THEN newContent(HTTP(response), p.type, decodeTyped(d, p, response))
        ELSE newContent(HTTP(response), None, IF envelope = None THEN Error ELSE envelope)

\* grpcStatus: from the headers of a trailers-only response, or from the trailers.
grpcStatus(response) ==
    LET code == IF response.headerStatus # None THEN response.headerStatus ELSE response.trailerStatus
    IN  IF code = None THEN Error ELSE IF code < 0 THEN Error ELSE code

\* decodeGRPC: only an HTTP error or a gRPC status can be compared.
decodeGRPC(d, p, response) ==
    LET code == grpcStatus(response)
    IN  IF response.status # 200 THEN newContent(HTTP(response), None, Error)
        ELSE IF response.contentType # "grpc" \/ code = Error THEN newContent(None, None, Error)
        ELSE newContent(<<"grpc", code>>, p.type, IF code # 0 THEN None ELSE decodeTyped(d, p, response))

decodeProtobuf(d, p, response) ==
    IF response.status # 200 THEN None
    ELSE IF response.contentType # "protobuf" THEN Error ELSE decodeTyped(d, p, response)

\* decoding.decode
decode(d, p, response) ==
    CASE p.wire = "ignored" -> Content("ignored", HTTP(response), None, None)
      [] p.wire = "failed" -> newContent(HTTP(response), None, Error)
      [] p.wire = "text" -> newContent(HTTP(response), None, decodeText(d, p, response))
      [] p.wire = "grpc" -> decodeGRPC(d, p, response)
      [] p.wire = "connect" -> decodeConnect(d, p, response)
      [] p.wire = "http" -> newContent(HTTP(response), p.type, decodeHTTPJSON(d, p, response))
      [] p.wire = "protobuf" -> newContent(HTTP(response), p.type, decodeProtobuf(d, p, response))

\* rpcMethod: the last two segments of a path, as a method's name.
rpcMethod(path) == IF Len(path) < 2 THEN None ELSE <<path[Len(path) - 1], path[Len(path)]>>

excludedRequestPath(path) == path # <<>> /\ path[1] \in Control

connectGet(request) == request.method = "GET" /\ request.query.encoding = "json"

\* conventionalMethod: the operation that a path names, None when it names none or streams.
conventionalMethod(d, path) ==
    IF rpcMethod(path) \in DOMAIN d.operations \ d.streaming THEN d.operations[rpcMethod(path)] ELSE None

Plan(wire, type, request) == [wire |-> wire, type |-> type, method |-> request.method]

\* unruled: how responses that no rule selects are decoded.
unruled(d, request) ==
    LET wire == requestWire(request.contentType)
        named == conventionalMethod(d, request.path)
    IN  IF wire = Error /\ ~(request.contentType = None /\ connectGet(request)) THEN Plan("ignored", None, request)
        ELSE IF rpcMethod(request.path) \in d.streaming THEN Plan("ignored", None, request)
        ELSE IF named = None THEN Plan("failed", None, request)
        ELSE Plan(IF wire = Error THEN "connect" ELSE wire, named.response, request)

\* matched: a rule's type, or text when it has none.
matched(d, request, type) ==
    LET wire == requestWire(request.contentType)
    IN  IF type = None THEN Plan("text", None, request)
        ELSE IF type \notin DOMAIN d.types THEN Plan("failed", None, request)
        ELSE Plan(IF wire \in {"grpc", "protobuf"} THEN wire ELSE "http", type, request)

\* Responses: what no rule selects is planned before any response arrives.
Responses(d, request) ==
    [rules |-> request.rules /\ ~excludedRequestPath(request.path) /\ ~request.ignored,
     unruled |-> IF excludedRequestPath(request.path) \/ request.ignored THEN Plan("ignored", None, request)
                 ELSE unruled(d, request)]

\* ResponsePlan.Ignored
IgnoredPlan(plan) == ~plan.rules /\ plan.unruled.wire = "ignored"

\* ResponsePlan.Decode: selected is what selecting a rule for the response gives.
Decode(d, request, selected, response) ==
    LET plan == Responses(d, request)
    IN  IF ~plan.rules \/ selected = None THEN decode(d, plan.unruled, response)
        ELSE IF selected = Error THEN newContent(HTTP(response), None, Error)
        ELSE CASE selected.action = "ignore" -> Content("ignored", HTTP(response), None, None)
               [] selected.action = "match" -> decode(d, matched(d, request, selected.type), response)

=============================================================================

-------------------------------- MODULE Schema --------------------------------
(***************************************************************************)
(* internal/schema: the payload types that scripts and the host share, and *)
(* how they are read from checked TypeScript declarations.                 *)
(*                                                                         *)
(* A JSON value is <<type>> or <<type, content>>: a list holds a sequence  *)
(* and an object a function of its keys.  A schema's types are a function  *)
(* from type names to sequences of fields.                                 *)
(***************************************************************************)
EXTENDS Integers, Sequences, SequencesExt, FiniteSets

CONSTANT None

Object(name) == [kind |-> "object", type |-> name]
ListOf(element) == [kind |-> "list", element |-> element]
MapOf(element) == [kind |-> "map", element |-> element]
NumberOr(literals) == [kind |-> "number", literals |-> literals]
EnumOf(literals) == [kind |-> "enum", literals |-> literals]
StringKind == [kind |-> "string"]
BooleanKind == [kind |-> "boolean"]

FieldNames(fields) == {fields[i].name : i \in DOMAIN fields}

\* Field: the first field of the name.
Field(fields, name) == fields[SelectInSeq(fields, LAMBDA f : f.name = name)]

Count(s, x) == Len(SelectSeq(s, LAMBDA y : y = x))

RECURSIVE Equal(_, _)

\* Mutant: literals are compared in the order in which they were read.
EqualInOrder(v, w) ==
    /\ v.kind = w.kind
    /\ CASE v.kind \in {"enum", "number"} -> v.literals = w.literals
         [] v.kind = "object" -> v.type = w.type
         [] v.kind \in {"list", "map"} -> Equal(v.element, w.element)
         [] OTHER -> TRUE

Equal(v, w) ==
    /\ v.kind = w.kind
    /\ CASE v.kind \in {"enum", "number"} ->
                \A x \in ToSet(v.literals \o w.literals) : Count(v.literals, x) = Count(w.literals, x)
         [] v.kind = "object" -> v.type = w.type
         [] v.kind \in {"list", "map"} -> Equal(v.element, w.element)
         [] OTHER -> TRUE

\* checkValue
RECURSIVE checkValue(_, _)
checkValue(names, v) ==
    CASE v.kind = "object" -> v.type \in names
      [] v.kind \in {"list", "map"} -> checkValue(names, v.element)
      [] v.kind = "enum" -> v.literals # <<>>
      [] OTHER -> TRUE

\* New: whether declared types, a sequence of name and fields, and operations make a schema.
New(declared, operations) ==
    LET names == {declared[i].name : i \in DOMAIN declared}
    IN  /\ \A i, j \in DOMAIN declared : declared[i].name = declared[j].name => i = j
        /\ \A i, j \in DOMAIN operations : operations[i].name = operations[j].name => i = j
        /\ \A i \in DOMAIN declared :
              LET fields == declared[i].fields
              IN  /\ Cardinality(FieldNames(fields)) = Len(fields)
                  /\ \A k \in DOMAIN fields : checkValue(names, fields[k].value)
        /\ \A i \in DOMAIN operations : {operations[i].request, operations[i].response} \subseteq names

RECURSIVE validate(_, _, _)

validateObject(types, name, object) ==
    /\ name \in DOMAIN types
    /\ DOMAIN object \subseteq FieldNames(types[name])
    /\ \A i \in DOMAIN types[name] :
          LET field == types[name][i]
          IN  IF field.name \in DOMAIN object
              THEN validate(types, field.value, object[field.name])
              ELSE field.optional

validate(types, expected, v) ==
    CASE expected.kind \in {"string", "boolean"} -> v[1] = expected.kind
      [] expected.kind = "number" ->
            v[1] = "number" \/ (v[1] = "string" /\ v[2] \in ToSet(expected.literals))
      [] expected.kind = "enum" -> v[1] = "string" /\ v[2] \in ToSet(expected.literals)
      [] expected.kind = "list" ->
            v[1] = "list" /\ \A i \in DOMAIN v[2] : validate(types, expected.element, v[2][i])
      [] expected.kind = "map" ->
            v[1] = "object" /\ \A key \in DOMAIN v[2] : validate(types, expected.element, v[2][key])
      [] expected.kind = "object" -> v[1] = "object" /\ validateObject(types, expected.type, v[2])

Validate(types, name, v) == validate(types, Object(name), v)

-----------------------------------------------------------------------------
(* Reading a checked program.  A checked type is a record with a flag: a   *)
(* primitive's, "union" with its members, "literal", "array", "index" for  *)
(* a map, "named" for an object type with its symbol, and "other".  A      *)
(* program gives each symbol its flags and properties.                     *)

\* union: string literals make an enum, or a number's literals beside number.
union(members) ==
    LET literals == SelectSeq(members, LAMBDA t : t.flag = "literal")
        texts == [i \in DOMAIN literals |-> literals[i].text]
    IN  IF \E i \in DOMAIN members : members[i].flag \notin {"literal", "number"} THEN None
        ELSE IF Len(literals) < Len(members) THEN NumberOr(texts) ELSE EnumOf(texts)

\* value and object: the shape that a checked type accepts, None for one not supported.
RECURSIVE value(_)
value(t) ==
    CASE t.flag = "string" -> StringKind
      [] t.flag = "boolean" -> BooleanKind
      [] t.flag = "number" -> NumberOr(<<>>)
      [] t.flag = "literal" -> union(<<t>>)
      [] t.flag = "union" -> union(t.members)
      [] t.flag = "array" -> LET e == value(t.element) IN IF e = None THEN None ELSE ListOf(e)
      [] t.flag = "index" -> LET e == value(t.element) IN IF e = None THEN None ELSE MapOf(e)
      [] t.flag = "named" -> Object(t.symbol)
      [] OTHER -> None

\* The named types that reading t queues.
RECURSIVE Queues(_)
Queues(t) ==
    CASE t.flag = "named" -> {t.symbol}
      [] t.flag \in {"array", "index"} -> Queues(t.element)
      [] OTHER -> {}

\* operation: a method's request and response, None unless it takes one object and returns one.
operation(service, method) ==
    LET types == [i \in DOMAIN method.types |-> value(method.types[i])]
    IN  IF /\ method.method /\ ~method.optional /\ method.inSchema /\ Len(types) = 2
           /\ \A i \in 1..2 : types[i] # None /\ types[i].kind = "object"
        THEN [name |-> <<service, method.name>>, request |-> types[1].type, response |-> types[2].type]
        ELSE None

\* interfaceDeclaration: an interface with a method is a service.
IsService(program, symbol) ==
    \E i \in DOMAIN program[symbol].properties : program[symbol].properties[i].method

\* objectType: a named type's fields, None when it is not one of properties in schema files.
objectType(program, symbol) ==
    LET properties == program[symbol].properties
        fields == [i \in DOMAIN properties |->
                      [name |-> properties[i].name, optional |-> properties[i].optional,
                       value |-> value(properties[i].types[1])]]
    IN  IF \/ program[symbol].flag \in {"class", "generic"}
           \/ \E i \in DOMAIN properties :
                 \/ properties[i].method \/ ~properties[i].inSchema
                 \/ fields[i].value = None
        THEN None ELSE [name |-> symbol, fields |-> fields]

\* members: what one export adds: the types it queues and its operations; None when refused.
\* The type of an interface is "named", "index" when it has an index signature, and "other"
\* when it can be called.
member(program, export) ==
    IF ~export.inSchema \/ export.flag \in {"value", "generic"} THEN None
    ELSE IF export.flag = "interface" /\ IsService(program, export.symbol)
         THEN LET methods == program[export.symbol].properties
                  operations == [i \in DOMAIN methods |-> operation(export.symbol, methods[i])]
              IN  IF None \in ToSet(operations) THEN None
                  ELSE [queued |-> UNION {UNION {Queues(t) : t \in ToSet(m.types)} : m \in ToSet(methods)},
                        operations |-> operations]
    ELSE IF value(export.type) = None THEN None
    ELSE [queued |-> Queues(export.type), operations |-> <<>>]

\* read's loop: pending types are read in turn, and queue each named type once.
RECURSIVE Drain(_, _, _, _)

Drain(program, pending, queued, types) ==
    IF pending = <<>> THEN types
    ELSE LET next == objectType(program, Head(pending))
             properties == program[Head(pending)].properties
             found == UNION {Queues(properties[i].types[1]) : i \in DOMAIN properties} \ queued
         IN  IF next = None THEN None
             ELSE Drain(program, Tail(pending) \o SetToSeq(found), queued \cup found, Append(types, next))

\* FromProgram and read: the types and operations of a program's exports, None when refused.
read(program, exports) ==
    LET found == [i \in DOMAIN exports |-> member(program, exports[i])]
        queued == UNION {found[i].queued : i \in DOMAIN found}
        types == Drain(program, SetToSeq(queued), queued, <<>>)
    IN  IF None \in ToSet(found) THEN None
        ELSE IF types = None THEN None
        ELSE [types |-> types, operations |-> FlattenSeq([i \in DOMAIN found |-> found[i].operations])]

-----------------------------------------------------------------------------
(* What the schema promises.                                               *)

\* The instances of a value type, built from its shape, with lists of at most two
\* elements, maps of the given keys and named types nested to a depth.
RECURSIVE Instances(_, _, _, _, _)
Instances(types, v, texts, keys, depth) ==
    CASE v.kind = "string" -> {<<"string", x>> : x \in texts}
      [] v.kind = "boolean" -> {<<"boolean", TRUE>>}
      [] v.kind = "number" -> {<<"number", 1>>} \cup {<<"string", x>> : x \in ToSet(v.literals)}
      [] v.kind = "enum" -> {<<"string", x>> : x \in ToSet(v.literals)}
      [] v.kind = "list" ->
            {<<"list", s>> : s \in SeqOf(Instances(types, v.element, texts, keys, depth), 2)}
      [] v.kind = "map" ->
            {<<"object", f>> : f \in UNION {[ks -> Instances(types, v.element, texts, keys, depth)] : ks \in SUBSET keys}}
      [] v.kind = "object" ->
            IF depth = 0 THEN {}
            ELSE LET fields == types[v.type]
                     members(name) == Instances(types, Field(fields, name).value, texts, keys, depth - 1)
                     required == {f \in FieldNames(fields) : ~Field(fields, f).optional}
                     objects(present) ==
                        {o \in [present -> UNION {members(name) : name \in present}] :
                            \A name \in present : o[name] \in members(name)}
                 IN  UNION {{<<"object", o>> : o \in objects(present)} :
                                present \in {p \in SUBSET FieldNames(fields) : required \subseteq p}}

\* Validate accepts a JSON value exactly when it is an instance of the type: every key is
\* a declared field of its type, every required field is there, and nothing is null.
ValidateExact(types, name, values, texts, keys, depth) ==
    {v \in values : Validate(types, name, v)} = values \cap Instances(types, Object(name), texts, keys, depth)

\* Equal value types accept the same JSON values, whatever the order of their literals;
\* types that accept the same values are equal unless they name object types.
RECURSIVE NamesObject(_)
NamesObject(v) == v.kind = "object" \/ (v.kind \in {"list", "map"} /\ NamesObject(v.element))

EqualExact(types, v, w, values) ==
    LET same == \A x \in values : validate(types, v, x) <=> validate(types, w, x)
    IN  /\ Equal(v, w) => same
        /\ same /\ ~NamesObject(v) /\ ~NamesObject(w) => Equal(v, w)

\* Reading a program never leaves New anything to refuse: every named type that is
\* reached, recursive ones included, is declared exactly once, and operations resolve.
ReadsClosed(program, exports) ==
    LET schema == read(program, exports)
    IN  schema # None =>
            /\ New(schema.types, schema.operations)
            /\ \A i \in DOMAIN exports :
                  exports[i].flag = "interface" /\ ~IsService(program, exports[i].symbol) =>
                      \A symbol \in Queues(exports[i].type) : \E k \in DOMAIN schema.types : schema.types[k].name = symbol

=============================================================================

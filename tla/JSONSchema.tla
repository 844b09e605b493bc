------------------------------ MODULE JSONSchema ------------------------------
(***************************************************************************)
(* TypeScript declarations of JSON schemas (internal/jsonschema): which    *)
(* schemas are inside the subset, how inline objects are hoisted into      *)
(* types of their own, and how recursive schemas are told from those that  *)
(* have no finite type.                                                    *)
(*                                                                         *)
(* The compiled schemas are a function from locations to nodes, whose      *)
(* subschemas are locations.  A node's properties are in the order of      *)
(* their names, and a name is a sequence of characters.  The converter is  *)
(* the record [names, values, fields]: the declared name of each schema,   *)
(* the value that references to it have, and the fields of each object.    *)
(* additionalProperties is "open", "closed" or a schema.                   *)
(***************************************************************************)
EXTENDS Schema

CONSTANTS
    Error,       \* the schemas have no declarations
    Upper,       \* the upper case of each lower case letter
    Digits,
    Punctuation  \* characters that are neither letters nor digits

\* A schema without any keyword.
EmptySchema == [ref |-> None, bool |-> None, unsupported |-> FALSE, types |-> {}, enum |-> <<>>, properties |-> <<>>,
          additional |-> None, items |-> None, required |-> {}, min |-> 0, max |-> None]

PropertyNames(node) == {node.properties[i].name : i \in DOMAIN node.properties}
NamesTaken(c) == {c.names[s] : s \in DOMAIN c.names}

-----------------------------------------------------------------------------
(* The subset.                                                             *)

\* Nothing beside $ref may change the shape.
checkRef(node) == node = [EmptySchema EXCEPT !.ref = node.ref]

\* The schema at the end of a chain of references, Error if the chain has no end.
RECURSIVE resolve(_, _, _)
resolve(schemas, source, followed) ==
    LET node == schemas[source]
    IN  IF node.ref = None THEN source
        ELSE IF source \in followed \/ ~checkRef(node) THEN Error
        ELSE resolve(schemas, node.ref, followed \cup {source})

\* The one JSON type that a schema accepts, inferred from its other keywords; constants
\* are enums of one value.
jsonType(node) ==
    LET found == CASE node.types # {} -> node.types
                   [] node.types = {} /\ node.enum # <<>> -> {x[1] : x \in ToSet(node.enum)}
                   [] node.types = {} /\ node.enum = <<>> /\ (node.properties # <<>> \/ node.additional # None) -> {"object"}
                   [] OTHER -> IF node.items # None THEN {"list"} ELSE {}
        types == {IF t = "integer" THEN "number" ELSE t : t \in found}
    IN  IF "null" \in types \/ Cardinality(types) # 1 THEN Error ELSE CHOOSE t \in types : TRUE

stringShape(node) ==
    CASE node.enum = <<>> -> StringKind
      [] node.enum # <<>> /\ (\A i \in DOMAIN node.enum : node.enum[i][1] = "string") ->
            EnumOf([i \in DOMAIN node.enum |-> node.enum[i][2]])
      [] OTHER -> Error

\* Counts that constrain which optional members appear together are refused.
checkPropertyCounts(node) ==
    /\ node.min <= Cardinality(node.required)
    /\ node.max # None => node.max >= Len(node.properties)

\* An interface, or a map of the additionalProperties schema.
objectShape(node) ==
    LET isSchema == node.additional \notin {None, "open", "closed"}
    IN  IF ~(node.required \subseteq PropertyNames(node)) THEN Error
        ELSE IF node.properties = <<>> /\ node.additional # "closed"
             THEN IF isSchema THEN MapOf(node.additional) ELSE Error
        ELSE IF ~isSchema /\ checkPropertyCounts(node) THEN Object(None) ELSE Error

\* A keyword beyond the subset, whichever it is.
unsupportedKeyword(node) == node.unsupported

\* The kind of a resolved schema, with the schema of its elements.
shapeOf(node) ==
    IF node.bool # None \/ unsupportedKeyword(node) THEN Error
    ELSE CASE jsonType(node) = "string" -> stringShape(node)
           [] jsonType(node) = "number" -> NumberOr(<<>>)
           [] jsonType(node) = "boolean" -> BooleanKind
           [] jsonType(node) = "list" -> IF node.items = None THEN Error ELSE ListOf(node.items)
           [] jsonType(node) = "object" -> objectShape(node)
           [] OTHER -> Error

-----------------------------------------------------------------------------
(* Naming.                                                                 *)

\* The words of a text in PascalCase, Error if that is no identifier.
typeName(text) ==
    LET write(written, char) ==
            IF char \in Punctuation THEN [written EXCEPT !.upper = TRUE]
            ELSE [upper |-> FALSE,
                  name |-> Append(written.name, IF written.upper /\ char \in DOMAIN Upper THEN Upper[char] ELSE char)]
        name == FoldLeft(write, [upper |-> TRUE, name |-> <<>>], text).name
    IN  IF name = <<>> THEN Error ELSE IF Head(name) \in Digits THEN Error ELSE name

\* Names a schema inside a scope, <<>> at the top. A schema has one name, and a name one schema.
declare(c, source, scope, text) ==
    LET local == typeName(text)
    IN  IF local = Error \/ source \in DOMAIN c.names THEN Error
        ELSE IF Append(scope, local) \in NamesTaken(c) THEN Error
        ELSE [c EXCEPT !.names = [s \in DOMAIN @ \cup {source} |-> IF s = source THEN Append(scope, local) ELSE @[s]]]

-----------------------------------------------------------------------------
(* Conversion.  Each step gives the converter and a value, or Error.       *)

Result(c, v) == [c |-> c, value |-> v]
Record(function, key, v) == [x \in DOMAIN function \cup {key} |-> IF x = key THEN v ELSE function[x]]

RECURSIVE convertValue(_, _, _, _, _, _)
RECURSIVE convertFields(_, _, _, _)

\* A list or map of what its element is; suggested names an inline object in it.
inlineValue(schemas, c, visiting, shape, scope, suggested) ==
    LET name == IF suggested # <<>> THEN suggested ELSE IF shape.kind = "list" THEN <<"i">> ELSE <<"v">>
        element == convertValue(schemas, c, visiting, shape.element, scope, name)
    IN  IF shape.kind \notin {"list", "map"} THEN Result(c, shape)
        ELSE IF element = Error THEN Error ELSE Result(element.c, [shape EXCEPT !.element = element.value])

aliasValue(source, result) ==
    IF result = Error THEN Error
    ELSE Result([result.c EXCEPT !.values = Record(@, source, result.value)], result.value)

\* Fills in a declaration. An object's value is recorded before its members, which may refer to it.
namedValue(schemas, c, visiting, source) ==
    LET node == schemas[source]
        name == c.names[source]
        shape == shapeOf(node)
    IN  IF source \in DOMAIN c.values THEN Result(c, c.values[source])
        ELSE IF source \in visiting THEN Error
        ELSE IF node.ref # None
             THEN IF ~checkRef(node) THEN Error
                  ELSE aliasValue(source, convertValue(schemas, c, visiting \cup {source}, node.ref, name, <<"t">>))
        ELSE IF shape = Error THEN Error
        ELSE IF shape.kind # "object"
             THEN aliasValue(source, inlineValue(schemas, c, visiting \cup {source}, shape, name, <<>>))
        ELSE convertFields(schemas,
                           [c EXCEPT !.values = Record(@, source, Object(name)), !.fields = Record(@, name, <<>>)],
                           visiting, source)

\* The members of an object in turn.
convertFields(schemas, c, visiting, source) ==
    LET name == c.names[source]
        done == Len(c.fields[name])
        property == schemas[source].properties[done + 1]
        v == convertValue(schemas, c, visiting, property.schema, name, property.name)
        field == [name |-> property.name, optional |-> property.name \notin schemas[source].required, value |-> v.value]
    IN  IF done = Len(schemas[source].properties) THEN Result(c, c.values[source])
        ELSE IF v = Error THEN Error
        ELSE convertFields(schemas, [v.c EXCEPT !.fields[name] = Append(@, field)], visiting, source)

\* The value of a member or an element.
convertValue(schemas, c, visiting, source, scope, suggested) ==
    LET target == resolve(schemas, source, {})
        shape == shapeOf(schemas[target])
        hoisted == declare(c, target, scope, suggested)
    IN  IF target = Error THEN Error
        ELSE IF target \in DOMAIN c.names THEN namedValue(schemas, c, visiting, target)
        ELSE IF shape = Error THEN Error
        ELSE IF shape.kind = "object"
             THEN IF hoisted = Error THEN Error ELSE namedValue(schemas, hoisted, visiting, target)
        ELSE IF target \in visiting THEN Error
        ELSE inlineValue(schemas, c, visiting \cup {target}, shape, scope, suggested)

\* Declarations: the titled roots and definitions are declared, then converted in turn.
Declarations(schemas, tops) ==
    LET nothing == [names |-> [s \in {} |-> <<>>], values |-> [s \in {} |-> None], fields |-> [n \in {} |-> <<>>]]
        named(c, top) == IF c = Error THEN Error ELSE declare(c, top[1], <<>>, top[2])
        convert(c, top) ==
            IF c = Error THEN Error
            ELSE LET result == namedValue(schemas, c, {}, top[1]) IN IF result = Error THEN Error ELSE result.c
    IN  FoldLeft(convert, FoldLeft(named, nothing, tops), tops)

-----------------------------------------------------------------------------
\* A JSON value that a schema accepts, when its objects have no members besides the declared
\* ones. A count or a constant narrows a type; without narrowing, those are left out.
RECURSIVE Accepts(_, _, _, _)
Accepts(schemas, source, v, narrowing) ==
    LET node == schemas[source]
        members == {i \in DOMAIN node.properties : node.properties[i].name \in DOMAIN v[2]}
        typed == IF node.types # {} THEN node.types ELSE {x[1] : x \in ToSet(node.enum)}
    IN  IF node.ref # None THEN Accepts(schemas, node.ref, v, narrowing)
        ELSE /\ typed # {} => v[1] \in {IF t = "integer" THEN "number" ELSE t : t \in typed}
             /\ typed = {} /\ (node.properties # <<>> \/ node.additional # None) => v[1] = "object"
             /\ typed = {} /\ node.items # None => v[1] = "list"
             /\ node.enum # <<>> /\ (narrowing \/ v[1] = "string") => v \in ToSet(node.enum)
             /\ v[1] = "list" /\ node.items # None => \A i \in DOMAIN v[2] : Accepts(schemas, node.items, v[2][i], narrowing)
             /\ v[1] = "object" =>
                  /\ \A i \in members : Accepts(schemas, node.properties[i].schema, v[2][node.properties[i].name], narrowing)
                  /\ \A key \in DOMAIN v[2] \ PropertyNames(node) :
                        /\ node.additional \notin {None, "open", "closed"}
                        /\ Accepts(schemas, node.additional, v[2][key], narrowing)
                  /\ node.required \subseteq DOMAIN v[2]
                  /\ narrowing => Cardinality(DOMAIN v[2]) >= node.min
                  /\ narrowing /\ node.max # None => Cardinality(DOMAIN v[2]) <= node.max

\* Declared types accept every value of their schemas, and nothing else but what constants and
\* counts would narrow; they make a schema, in which each name is declared once.
DeclaresSchemas(schemas, tops, values) ==
    LET c == Declarations(schemas, tops)
        types == SetToSeq({[name |-> n, fields |-> c.fields[n]] : n \in DOMAIN c.fields})
    IN  c # Error =>
            /\ New(types, <<>>)
            /\ Cardinality(NamesTaken(c)) = Cardinality(DOMAIN c.names)
            /\ \A s \in DOMAIN c.values : \A v \in values :
                  /\ Accepts(schemas, s, v, TRUE) => validate(c.fields, c.values[s], v)
                  /\ validate(c.fields, c.values[s], v) => Accepts(schemas, s, v, FALSE)

==============================================================================

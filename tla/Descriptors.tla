----------------------------- MODULE Descriptors -----------------------------
(***************************************************************************)
(* Protobuf descriptors (internal/descriptors): merging descriptor sets,   *)
(* the TypeScript declarations rendered from them, and the check that      *)
(* declarations agree with them.                                           *)
(*                                                                         *)
(* Files are a function from paths to records of messages (nested ones     *)
(* beside the others), enums, services and extensions.  A field's kind     *)
(* stands for the kinds that ProtoJSON writes alike; a map field has the   *)
(* kind and the type of its values.                                        *)
(***************************************************************************)
EXTENDS Schema

CONSTANT Error

floatValue == NumberOr(<<"Infinity", "NaN">>)

\* The well-known messages that ProtoJSON writes as a scalar; None for another.
scalarMessageValue(name) ==
    CASE name \in {"Timestamp", "Duration", "FieldMask", "StringValue", "BytesValue", "Int64Value"} -> StringKind
      [] name \in {"DoubleValue", "FloatValue"} -> floatValue
      [] name \in {"Int32Value", "UInt32Value"} -> NumberOr(<<>>)
      [] name = "BoolValue" -> BooleanKind
      [] OTHER -> None

isUntypedMessage(name) == name \in {"Any", "Struct", "Value", "ListValue", "NullValue"}

Messages(files) == UNION {ToSet(files[path].messages) : path \in DOMAIN files}
Enums(files) == UNION {ToSet(files[path].enums) : path \in DOMAIN files}
Services(files) == UNION {ToSet(files[path].services) : path \in DOMAIN files}
Named(descriptors, name) == CHOOSE d \in descriptors : d.name = name

\* Messages without an object shape of their own.
Skipped(message) ==
    message.entry \/ isUntypedMessage(message.name) \/ scalarMessageValue(message.name) # None

\* ParentFile of a message or an enum.
FileOf(files, name) ==
    CHOOSE path \in DOMAIN files : \E d \in ToSet(files[path].messages) \cup ToSet(files[path].enums) : d.name = name

-----------------------------------------------------------------------------
(* Which files have declarations.                                          *)

HasContent(files, path) == files[path].messages # <<>> \/ files[path].enums # <<>> \/ files[path].services # <<>>

\* collectSchemaEdges: the files of the types that a file's fields and methods name.
collectSchemaEdges(files, path) ==
    LET fields == UNION {ToSet(m.fields) : m \in ToSet(files[path].messages)}
        methods == UNION {ToSet(s.methods) : s \in ToSet(files[path].services)}
    IN  {FileOf(files, f.type) : f \in {f \in fields : f.type # None}}
            \cup UNION {{FileOf(files, m.input), FileOf(files, m.output)} : m \in methods}

\* The queue of schemaFiles: what has content and is reached from the roots.
RECURSIVE Reached(_, _)
Reached(files, paths) ==
    LET next == {path \in UNION {collectSchemaEdges(files, p) : p \in paths} : HasContent(files, path)}
    IN  IF next \subseteq paths THEN paths ELSE Reached(files, paths \cup next)

\* Roots are the files nothing imports, and those with services.
schemaFiles(files) ==
    LET imported == UNION {files[path].imports : path \in DOMAIN files}
    IN  Reached(files, {path \in DOMAIN files :
                            HasContent(files, path) /\ (path \notin imported \/ files[path].services # <<>>)})

-----------------------------------------------------------------------------
(* The type of a message.                                                  *)

\* indexExtensions: the extensions of a message that any file declares, by number.
indexExtensions(files, name) ==
    SetToSortSeq({f \in UNION {ToSet(files[path].extensions) : path \in DOMAIN files} : f.extends = name},
                 LAMBDA f, g : f.number < g.number)

messageFields(files, message) == message.fields \o indexExtensions(files, message.name)

\* An open enum may be any number.
enumValue(enum) == IF enum.closed THEN EnumOf(enum.literals) ELSE NumberOr(enum.literals)

\* "string" stands for bytes and 64-bit integers too. Error for what has no type.
singularValue(files, field) ==
    CASE field.kind = "string" -> StringKind
      [] field.kind = "bool" -> BooleanKind
      [] field.kind = "int32" -> NumberOr(<<>>)
      [] field.kind = "float" -> floatValue
      [] field.kind = "enum" ->
            IF isUntypedMessage(field.type) THEN Error ELSE enumValue(Named(Enums(files), field.type))
      [] field.kind = "message" ->
            IF scalarMessageValue(field.type) # None THEN scalarMessageValue(field.type)
            ELSE IF isUntypedMessage(field.type) THEN Error ELSE Object(field.type)

fieldValue(files, field) ==
    LET element == singularValue(files, field)
    IN  IF element = Error \/ field.card = "one" THEN element
        ELSE IF field.card = "map" THEN MapOf(element) ELSE ListOf(element)

\* Mutant: an extension is required like a field without presence.
messageTypeRequired(files, message) ==
    LET fields == messageFields(files, message)
        declared == [i \in DOMAIN fields |->
                        [name |-> fields[i].name, optional |-> fields[i].presence, value |-> fieldValue(files, fields[i])]]
    IN  IF \E i \in DOMAIN declared : declared[i].value = Error THEN Error ELSE declared

\* The fields of a message's type, Error if one has no type.
messageType(files, message) ==
    LET fields == messageFields(files, message)
        declared == [i \in DOMAIN fields |->
                        [name |-> fields[i].name, optional |-> fields[i].presence \/ fields[i].extends # None,
                         value |-> fieldValue(files, fields[i])]]
    IN  IF \E i \in DOMAIN declared : declared[i].value = Error THEN Error ELSE declared

checkMethodTypes(method) ==
    \A name \in {method.input, method.output} : ~isUntypedMessage(name) /\ scalarMessageValue(name) = None

Unary(service) == SelectSeq(service.methods, LAMBDA m : ~m.streaming)

-----------------------------------------------------------------------------
(* Rendering.  What is rendered is what the TypeScript checker makes of    *)
(* the text, which puts the members of a union in an order of its own.     *)

Quoted(literals) == [i \in DOMAIN literals |-> [flag |-> "literal", text |-> literals[i]]]

Union(members) == IF Len(members) = 1 THEN members[1] ELSE [flag |-> "union", members |-> Reverse(members)]

RECURSIVE Format(_)

\* Value.Format
Format(v) ==
    CASE v.kind = "enum" -> Union(Quoted(v.literals))
      [] v.kind = "number" -> Union(<<[flag |-> "number"]>> \o Quoted(v.literals))
      [] v.kind = "object" -> [flag |-> "named", symbol |-> v.type]
      [] v.kind = "list" -> [flag |-> "array", element |-> Format(v.element)]
      [] v.kind = "map" -> [flag |-> "index", element |-> Format(v.element)]
      [] OTHER -> [flag |-> v.kind]

Property(name, optional, method, types) ==
    [name |-> name, optional |-> optional, method |-> method, inSchema |-> TRUE, types |-> types]

\* renderMessage: an interface, Error if a field has no type. A reference to a type of a file
\* without declarations does not resolve.
renderMessage(files, message) ==
    LET fields == messageFields(files, message)
        declared == messageType(files, message)
        inlined(f) == f.type = None \/ scalarMessageValue(f.type) # None
        shown(i) == IF inlined(fields[i]) \/ FileOf(files, fields[i].type) \in schemaFiles(files)
                    THEN Format(declared[i].value) ELSE [flag |-> "other"]
    IN  IF declared = Error THEN Error
        ELSE [flag |-> "interface",
              properties |-> [i \in DOMAIN declared |-> Property(declared[i].name, declared[i].optional, FALSE, <<shown(i)>>)]]

\* renderService: an interface of the unary methods, Error if one has no object to compare.
renderService(service) ==
    IF \E m \in ToSet(Unary(service)) : ~checkMethodTypes(m) THEN Error
    ELSE [flag |-> "interface",
          properties |-> [i \in DOMAIN Unary(service) |->
                LET m == Unary(service)[i]
                IN  Property(m.name, FALSE, TRUE, <<Format(Object(m.input)), Format(Object(m.output))>>)]]

\* renderFile for every file that payloads can reach: the program and its exports, or Error.
\* Only files that declare something are written.
Rendered(files) ==
    LET paths == schemaFiles(files)
        messages == {m \in UNION {ToSet(files[path].messages) : path \in paths} : ~Skipped(m)}
        services == {s \in UNION {ToSet(files[path].services) : path \in paths} : Unary(s) # <<>>}
        enums == {e \in UNION {ToSet(files[path].enums) : path \in paths} : ~isUntypedMessage(e.name)}
        program == [name \in {d.name : d \in messages \cup services} |->
                        IF \E m \in messages : m.name = name THEN renderMessage(files, Named(messages, name))
                        ELSE renderService(Named(services, name))]
        declares(path) == \/ ToSet(files[path].messages) \cap messages # {} \/ ToSet(files[path].services) \cap services # {}
                          \/ ToSet(files[path].enums) \cap enums # {}
        export(flag, symbol, type) == [flag |-> flag, symbol |-> symbol, type |-> type, inSchema |-> TRUE]
    IN  IF \/ \E path \in paths : files[path].package = "" \/ ~files[path].local
           \/ \E path, other \in {p \in paths : declares(p)} : path # other /\ files[path].declaration = files[other].declaration
           \/ \E name \in DOMAIN program : program[name] = Error
        THEN Error
        ELSE [program |-> program,
              exports |-> SetToSeq({export("interface", name, [flag |-> "named", symbol |-> name]) : name \in DOMAIN program}
                                       \cup {export("alias", None, Format(enumValue(e))) : e \in enums})]

-----------------------------------------------------------------------------
(* Agreement of a schema's types and operations with the descriptors.      *)

sameFields(expected, declared) ==
    /\ \A i \in DOMAIN expected :
          /\ expected[i].name \in FieldNames(declared)
          /\ Field(declared, expected[i].name).optional = expected[i].optional
          /\ Equal(Field(declared, expected[i].name).value, expected[i].value)
    /\ FieldNames(declared) \subseteq FieldNames(expected)

checkMessages(files, messages, loaded) ==
    \A m \in messages : ~Skipped(m) =>
        /\ messageType(files, m) # Error
        /\ m.name \in {t.name : t \in ToSet(loaded.types)}
        /\ sameFields(messageType(files, m), Named(ToSet(loaded.types), m.name).fields)

checkMethod(service, method, loaded) ==
    /\ checkMethodTypes(method)
    /\ \E o \in ToSet(loaded.operations) :
          o.name = <<service.name, method.name>> /\ o.request = method.input /\ o.response = method.output

CheckAgreement(files, loaded) ==
    /\ \A path \in schemaFiles(files) :
          /\ checkMessages(files, ToSet(files[path].messages), loaded)
          /\ \A s \in ToSet(files[path].services) : \A m \in ToSet(Unary(s)) : checkMethod(s, m, loaded)
    /\ \A t \in ToSet(loaded.types) : \A m \in Messages(files) : m.name = t.name => ~Skipped(m)
    /\ \A o \in ToSet(loaded.operations) : \A s \in Services(files) : \A m \in ToSet(s.methods) :
          o.name = <<s.name, m.name>> => ~m.streaming

\* Declarations: what reading the rendered program gives, Error when anything refuses it.
Declarations(files) ==
    LET rendered == Rendered(files)
        loaded == IF rendered = Error THEN None ELSE read(rendered.program, rendered.exports)
    IN  IF loaded = None THEN Error
        ELSE IF ~CheckAgreement(files, loaded) THEN Error ELSE loaded

-----------------------------------------------------------------------------
(* Loading.  A file has a name, a schema, imports and metadata.            *)

withoutMetadata(file) == [file EXCEPT !.metadata = None]

\* Merge: the first copy of each file, Error if copies differ in more than metadata.
Merge(sets) ==
    LET all == FlattenSeq(sets)
        first(name) == all[SelectInSeq(all, LAMBDA f : f.name = name)]
    IN  IF \E i \in DOMAIN all : withoutMetadata(all[i]) # withoutMetadata(first(all[i].name)) THEN Error
        ELSE {first(all[i].name) : i \in DOMAIN all}

\* NewRegistry: every import resolves within the set.
NewRegistry(set) == \A f \in set : f.imports \subseteq {g.name : g \in set}

\* LoadDescriptorSets of the .pb files of a directory, in lexical order.
LoadDescriptorSets(sets) ==
    IF sets = <<>> \/ <<>> \in ToSet(sets) THEN Error
    ELSE IF Merge(sets) = Error THEN Error
    ELSE IF NewRegistry(Merge(sets)) THEN Merge(sets) ELSE Error

\* loadServiceFiles: the files that reflection returns for the services, one after another.
loadServiceFiles(answers) ==
    LET all == FlattenSeq(answers)
    IN  IF \/ \E i \in DOMAIN all : all[i].name = ""
           \/ \E i, j \in DOMAIN all : all[i].name = all[j].name /\ all[i] # all[j]
        THEN Error ELSE ToSet(all)

-----------------------------------------------------------------------------
\* The objects that ProtoJSON writes for a message with default values emitted, its messages
\* nested to a depth: what has presence, and an extension, only if it is set.  One member at a
\* time takes each of its values.
RECURSIVE ProtoJSON(_, _, _)
ProtoJSON(files, message, depth) ==
    LET fields == messageFields(files, message)
        names == {f.name : f \in ToSet(fields)}
        required == {f.name : f \in {f \in ToSet(fields) : ~f.presence /\ f.extends = None}}
        enum(f) == Named(Enums(files), f.type)
        one(f) ==
            CASE f.kind = "string" \/ f.type \in {"Timestamp", "Int64Value"} -> {<<"string", "1">>}
              [] f.kind = "bool" -> {<<"boolean", TRUE>>}
              [] f.kind = "int32" -> {<<"number", 1>>}
              [] f.kind = "float" \/ f.type = "DoubleValue" -> {<<"number", 1>>, <<"string", "NaN">>}
              [] f.kind = "enum" ->
                    {<<"string", x>> : x \in ToSet(enum(f).literals)} \cup (IF enum(f).closed THEN {} ELSE {<<"number", 7>>})
              [] OTHER -> IF depth = 0 THEN {} ELSE ProtoJSON(files, Named(Messages(files), f.type), depth - 1)
        many(f) == CASE f.card = "one" -> one(f)
                     [] f.card = "list" -> {<<"list", s>> : s \in {<<>>} \cup {<<x>> : x \in one(f)}}
                     [] f.card = "map" -> {<<"object", g>> : g \in {[k \in {} |-> None]} \cup {[k \in {"k"} |-> x] : x \in one(f)}}
        of(name) == many(Named(ToSet(fields), name))
        writable == {name \in names : of(name) # {}}
        any(present) == [name \in present |-> CHOOSE x \in of(name) : TRUE]
    IN  {<<"object", any(p)>> : p \in {p \in SUBSET writable : required \subseteq p}}
            \cup {<<"object", [any(writable) EXCEPT ![name] = x]>> : <<name, x>> \in UNION {{name} \X of(name) : name \in writable}}

Types(loaded) == [name \in {t.name : t \in ToSet(loaded.types)} |-> Named(ToSet(loaded.types), name).fields]

\* Declarations that are rendered and read back always agree with their descriptors, and every
\* message that ProtoJSON writes is valid for its declared type.
DeclaresPayloads(files, depth) ==
    LET rendered == Rendered(files)
        loaded == IF rendered = Error THEN None ELSE read(rendered.program, rendered.exports)
    IN  loaded # None =>
            /\ Declarations(files) = loaded
            /\ \A t \in ToSet(loaded.types) :
                  \A v \in ProtoJSON(files, Named(Messages(files), t.name), depth) : Validate(Types(loaded), t.name, v)

\* Declarations that differ from the rendered ones in a single field or operation are refused.
ChangesRefused(files, others) ==
    LET loaded == Declarations(files)
        changed(i, fields) == [loaded EXCEPT !.types[i].fields = fields]
    IN  loaded # Error =>
            /\ \A i \in DOMAIN loaded.types : LET fields == loaded.types[i].fields IN
                /\ ~CheckAgreement(files, changed(i, Append(fields, [name |-> "more", optional |-> TRUE, value |-> StringKind])))
                /\ \A k \in DOMAIN fields :
                      /\ ~CheckAgreement(files, changed(i, RemoveAt(fields, k)))
                      /\ ~CheckAgreement(files, changed(i, [fields EXCEPT ![k].optional = ~@]))
                      /\ \A v \in others : CheckAgreement(files, changed(i, [fields EXCEPT ![k].value = v])) => Equal(v, fields[k].value)
            /\ \A k \in DOMAIN loaded.operations : ~CheckAgreement(files, [loaded EXCEPT !.operations = RemoveAt(@, k)])

\* Whatever the order of the sets, merging fails alike or gives the same schemas; it fails only
\* if some file has two schemas, every file is there, and reflection never accepts what merging
\* refuses.
MergeOrderless(sets) ==
    LET schemas(set) == {withoutMetadata(f) : f \in set}
        all == schemas(ToSet(FlattenSeq(sets)))
    IN  /\ Merge(sets) = Error <=> Cardinality({f.name : f \in all}) < Cardinality(all)
        /\ (LoadDescriptorSets(sets) = Error) = (LoadDescriptorSets(Reverse(sets)) = Error)
        /\ LoadDescriptorSets(sets) # Error =>
              /\ schemas(Merge(sets)) = all
              /\ schemas(Merge(sets)) = schemas(Merge(Reverse(sets)))
              /\ Cardinality(Merge(sets)) = Cardinality({f.name : f \in Merge(sets)})
        /\ loadServiceFiles(sets) # Error => Merge(sets) = loadServiceFiles(sets)
        /\ loadServiceFiles(sets) = loadServiceFiles(Reverse(sets))

==============================================================================

----------------------------- MODULE Normalisation -----------------------------
(***************************************************************************)
(* internal/comparison/internal: how declared normalisers are applied to   *)
(* one decoded payload.  A path is a sequence of parts <<"field", name>>   *)
(* and <<"index", position>>; a document is a JSON value, None once its    *)
(* root is removed.  A target is a record of its kind, the type it is      *)
(* declared for, the steps of its field path and the rank of its key.      *)
(***************************************************************************)
EXTENDS Schema

CONSTANTS Error,    \* the result of an operation that fails
          Dropped,  \* the values that a normaliser removes
          Thrown    \* the values that it throws on

-----------------------------------------------------------------------------
(* Documents.                                                              *)

\* The member of a value that a path's part names, None where there is none.
Member(v, part) ==
    IF /\ v[1] = (IF part[1] = "index" THEN "list" ELSE "object")
       /\ part[2] \in DOMAIN v[2]
    THEN v[2][part[2]] ELSE None

RECURSIVE Value(_, _)
Value(document, path) ==
    IF document = None \/ path = <<>> THEN document
    ELSE Value(Member(document, Head(path)), Tail(path))

Without(v, part) ==
    IF part[1] = "index" THEN <<"list", RemoveAt(v[2], part[2])>>
    ELSE <<"object", [key \in DOMAIN v[2] \ {part[2]} |-> v[2][key]]>>

With(v, part, replacement) ==
    <<v[1], [key \in DOMAIN v[2] \cup {part[2]} |-> IF key = part[2] THEN replacement ELSE v[2][key]]>>

\* deleteDocumentValue
RECURSIVE deleteDocumentValue(_, _)
deleteDocumentValue(v, parts) ==
    LET part == Head(parts)
    IN  IF v[1] # (IF part[1] = "index" THEN "list" ELSE "object")
        THEN IF v[1] = "null" THEN v ELSE Error
        ELSE IF Member(v, part) = None THEN v
        ELSE IF Len(parts) = 1 THEN Without(v, part)
        ELSE LET updated == deleteDocumentValue(Member(v, part), Tail(parts))
             IN  IF updated = Error THEN Error ELSE With(v, part, updated)

Delete(document, path) ==
    IF document = None \/ path = <<>> THEN None ELSE deleteDocumentValue(document, path)

\* set: the parent must hold the kind of member that the path ends with.
RECURSIVE set(_, _, _)
set(v, path, replacement) ==
    IF Len(path) = 1
    THEN IF \/ path[1][1] = "index" /\ (v[1] # "list" \/ path[1][2] \notin DOMAIN v[2])
            \/ path[1][1] = "field" /\ v[1] # "object"
         THEN Error ELSE With(v, path[1], replacement)
    ELSE IF Member(v, path[1]) = None THEN Error
    ELSE LET updated == set(Member(v, path[1]), Tail(path), replacement)
         IN  IF updated = Error THEN Error ELSE With(v, path[1], updated)

Set(document, path, replacement) ==
    IF path = <<>> THEN replacement ELSE IF document = None THEN Error ELSE set(document, path, replacement)

-----------------------------------------------------------------------------
(* Where targets apply.                                                    *)

\* resolveField: whether a field path, a sequence of names with or without [], resolves
\* from a type, and ends in a field rather than in a list's elements.
RECURSIVE resolveField(_, _, _)

resolveField(types, name, parts) ==
    LET part == Head(parts)
        v == Field(types[name], part.name).value
        inner == IF v.kind = "list" THEN v.element ELSE v
    IN  /\ part.name \in FieldNames(types[name])
        /\ part.elements => v.kind = "list"
        /\ part.elements => Len(parts) > 1
        /\ Len(parts) > 1 =>
              /\ v.kind = "list" => part.elements
              /\ inner.kind = "object"
              /\ resolveField(types, inner.type, Tail(parts))

\* NewPlan: every target must resolve.
NewPlan(types, targets) ==
    \A i \in DOMAIN targets :
        /\ targets[i].type \in DOMAIN types
        /\ targets[i].kind = "field" => resolveField(types, targets[i].type, targets[i].steps)

\* Elements and entries of the list or map at a path, each with its path.
Children(document, path, tag) ==
    LET v == Value(document, path)
    IN  IF v = None THEN <<>>
        ELSE IF v[1] # (IF tag = "index" THEN "list" ELSE "object") THEN <<>>
        ELSE LET keys == IF tag = "index" THEN [i \in DOMAIN v[2] |-> i] ELSE SetToSeq(DOMAIN v[2])
             IN  [i \in DOMAIN keys |-> Append(path, <<tag, keys[i]>>)]

\* findMessages' walk: the paths of objects of the target's type, those of absent
\* fields of present parents included.
RECURSIVE walk(_, _, _, _, _)
walk(types, document, target, v, path) ==
    LET below(element, tag) ==
            LET paths == Children(document, path, tag)
            IN  FlattenSeq([i \in DOMAIN paths |-> walk(types, document, target, element, paths[i])])
    IN  CASE v.kind = "object" ->
                (IF v.type = target THEN <<path>> ELSE <<>>) \o
                (IF Value(document, path) = None THEN <<>>
                 ELSE FlattenSeq([i \in DOMAIN types[v.type] |->
                          walk(types, document, target, types[v.type][i].value,
                               Append(path, <<"field", types[v.type][i].name>>))]))
          [] v.kind = "list" -> below(v.element, "index")
          [] v.kind = "map" -> below(v.element, "field")
          [] OTHER -> <<>>

findMessages(types, document, root, target) == walk(types, document, target, Object(root), <<>>)

\* descendField, for all the steps of a path.
RECURSIVE descendFields(_, _, _)
descendFields(document, path, steps) ==
    LET fieldPath == Append(path, <<"field", Head(steps).name>>)
        bases == IF Head(steps).elements THEN Children(document, fieldPath, "index") ELSE <<fieldPath>>
    IN  IF Len(steps) = 1 THEN <<fieldPath>>
        ELSE IF Value(document, fieldPath) = None THEN <<>>
        ELSE FlattenSeq([i \in DOMAIN bases |-> descendFields(document, bases[i], Tail(steps))])

\* fieldTarget.occurrences and messageTarget.occurrences
occurrences(types, document, root, target) ==
    LET messages == findMessages(types, document, root, target.type)
        present == SelectSeq(messages, LAMBDA path : Value(document, path) # None)
        paths == IF target.kind = "message" THEN messages
                 ELSE FlattenSeq([i \in DOMAIN present |-> descendFields(document, present[i], target.steps)])
    IN  [i \in DOMAIN paths |-> [target |-> target, path |-> paths[i]]]

priority(target) == IF target.kind = "field" THEN 0 ELSE 1

indexedSiblingBefore(p, q) ==
    /\ p # <<>> /\ Len(p) = Len(q)
    /\ Last(p)[1] = "index" /\ Last(q)[1] = "index" /\ Front(p) = Front(q)
    /\ Last(p)[2] > Last(q)[2]

\* Mutant: elements of a list are normalised from its first.
beforeAscending(o, other) ==
    \/ Len(o.path) > Len(other.path)
    \/ Len(o.path) = Len(other.path) /\ priority(o.target) < priority(other.target)
    \/ /\ Len(o.path) = Len(other.path) /\ priority(o.target) = priority(other.target)
       /\ o.target.key < other.target.key

before(o, other) ==
    \/ Len(o.path) > Len(other.path)
    \/ Len(o.path) = Len(other.path) /\ priority(o.target) < priority(other.target)
    \/ /\ Len(o.path) = Len(other.path) /\ priority(o.target) = priority(other.target)
       /\ \/ indexedSiblingBefore(o.path, other.path)
          \/ ~indexedSiblingBefore(other.path, o.path) /\ o.target.key < other.target.key

\* sort.SliceStable of at most 20 elements: each is moved forward past those it comes before.
\* Longer slices are sorted in blocks of 20, which are then merged.
InsertSorted(sorted, o) ==
    LET passed == {i \in 0..Len(sorted) : \A j \in i + 1..Len(sorted) : before(o, sorted[j])}
    IN  InsertAt(sorted, Min(passed) + 1, o)

\* collectOccurrences: a field normaliser replaces a message normaliser at its location.
collectOccurrences(types, document, root, targets) ==
    LET all == FlattenSeq([i \in DOMAIN targets |-> occurrences(types, document, root, targets[i])])
        fieldPaths == {all[i].path : i \in {k \in DOMAIN all : all[k].target.kind = "field"}}
        kept == SelectSeq(all, LAMBDA o : o.target.kind = "message" => o.path \notin fieldPaths)
    IN  FoldLeft(InsertSorted, <<>>, kept)

\* A script's normaliser, which keeps a record of what it was given.
Script(target, v) ==
    IF v \in Dropped THEN None ELSE IF v \in Thrown THEN Error
    ELSE <<"list", IF v = None THEN <<<<"number", target.key>>>> ELSE <<<<"number", target.key>>, v>>>>

\* One step of normalisationRun.normalise: an occurrence is read, normalised and applied.
NormaliseStep(document, o) ==
    IF document = Error THEN Error
    ELSE LET normalised == Script(o.target, Value(document, o.path))
         IN  IF normalised = Error THEN Error
             ELSE IF normalised = None THEN Delete(document, o.path)
             ELSE Set(document, o.path, normalised)

\* Plan.Normalise
Normalise(types, document, root, targets) ==
    FoldLeft(NormaliseStep, document, collectOccurrences(types, document, root, targets))

-----------------------------------------------------------------------------
(* What normalisation promises.                                            *)

\* The normalisers at one location, applied to its value: every field normaliser in the
\* order of keys, or else the message normaliser of its type.
Located(v, fields, shape, targets) ==
    LET messages == {t \in targets : t.kind = "message" /\ shape = Object(t.type)}
        ordered == SetToSortSeq(IF fields # {} THEN fields ELSE messages, LAMBDA t, u : t.key < u.key)
    IN  FoldLeft(LAMBDA w, t : IF w = Error THEN Error ELSE Script(t, w), v, ordered)

\* A value rewritten from the inside out, with no paths: steps holds the field targets
\* that pass through it and what is left of their steps.
RECURSIVE Rewrite(_, _, _, _, _)
Rewrite(types, v, shape, steps, targets) ==
    IF v = None THEN None
    ELSE CASE shape.kind = "object" ->
            LET all == steps \cup {[target |-> t, rest |-> t.steps] :
                                      t \in {u \in targets : u.kind = "field" /\ u.type = shape.type}}
                arriving(name) == {s \in all : Head(s.rest).name = name}
                passing(name) == {[target |-> s.target, rest |-> Tail(s.rest)] :
                                     s \in {a \in arriving(name) : Len(a.rest) > 1}}
                ending(name) == {s.target : s \in {a \in arriving(name) : Len(a.rest) = 1}}
                rewritten(name) ==
                    IF name \notin FieldNames(types[shape.type]) THEN v[2][name]
                    ELSE LET field == Field(types[shape.type], name).value
                         IN  Located(Rewrite(types, Member(v, <<"field", name>>), field, passing(name), targets),
                                     ending(name), field, targets)
                members == [name \in FieldNames(types[shape.type]) \cup DOMAIN v[2] |-> rewritten(name)]
            IN  IF \E name \in DOMAIN members : members[name] = Error THEN Error
                ELSE <<"object", [name \in {n \in DOMAIN members : members[n] # None} |-> members[name]]>>
          [] shape.kind \in {"list", "map"} ->
            LET passing == IF shape.kind = "list" THEN steps ELSE {}
                members == [i \in DOMAIN v[2] |->
                               Located(Rewrite(types, v[2][i], shape.element, passing, targets),
                                       {}, shape.element, targets)]
            IN  IF \E i \in DOMAIN members : members[i] = Error THEN Error
                ELSE IF shape.kind = "list" THEN <<"list", SelectSeq(members, LAMBDA m : m # None)>>
                ELSE <<"object", [k \in {n \in DOMAIN members : members[n] # None} |-> members[k]]>>
          [] OTHER -> v

\* Applying normalisers at paths that were collected before anything changed, in the
\* plan's order, rewrites a payload from the inside out whatever the order in which the
\* scripts registered them: a removal never shifts a path that is still to come, no
\* path's parent is missing when it is set, and only a script's own failure is an error.
NormalisesInsideOut(types, document, root, targets) ==
    LET declared == ToSet(targets)
    IN  NewPlan(types, targets) =>
            Normalise(types, document, root, targets) =
                Located(Rewrite(types, document, Object(root), {}, declared), {}, Object(root), declared)

\* A value at the end of a field path, followed name by name.
RECURSIVE Reached(_, _)
Reached(v, parts) ==
    LET child == Member(v, <<"field", Head(parts).name>>)
    IN  /\ child # None
        /\ Len(parts) > 1 =>
              IF Head(parts).elements
              THEN child[1] = "list" /\ \E i \in DOMAIN child[2] : Reached(child[2][i], Tail(parts))
              ELSE Reached(child, Tail(parts))

\* A field target is accepted exactly when it can reach a field of some payload, so no
\* accepted normaliser is one that never runs.
TargetsReach(types, name, parts, payloads) ==
    resolveField(types, name, parts) <=>
        ~Last(parts).elements /\ \E v \in payloads : Reached(v, parts)

=============================================================================

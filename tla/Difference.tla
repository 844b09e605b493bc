------------------------------ MODULE Difference ------------------------------
(***************************************************************************)
(* internal/comparison/internal/diff.go: where and how two payloads        *)
(* differ.  A reported path holds <<"any">> for a key that is payload      *)
(* data.  The differ is a record of the differences it has recorded and    *)
(* whether it was cut short.                                               *)
(***************************************************************************)
EXTENDS Schema

CONSTANT MaxDifferences  \* maxDifferences

\* reported: a path with each list index as a wildcard.
Wildcards(path) == [i \in DOMAIN path |-> IF path[i][1] = "index" THEN <<"any">> ELSE path[i]]

\* add: counted against an equal difference already recorded.
add(d, path, change, retype) ==
    LET entry == [path |-> path, change |-> change, retype |-> retype]
        equal == {i \in DOMAIN d.differences : d.differences[i].entry = entry}
    IN  IF equal # {}
        THEN [d EXCEPT !.differences[Min(equal)].count = @ + 1]
        ELSE [d EXCEPT !.differences = Append(@, [entry |-> entry, count |-> 1])]

ElementOf(shape) == IF shape # None /\ shape.kind = "list" THEN shape.element ELSE None

\* member: only a declared field is named in a path; other keys are payload data.
memberPath(types, path, shape, key) ==
    IF shape # None /\ shape.kind = "object" /\ key \in FieldNames(types[shape.type])
    THEN [path |-> Append(path, <<"field", key>>), shape |-> Field(types[shape.type], key).value]
    ELSE [path |-> Append(path, <<"any">>),
          shape |-> IF shape # None /\ shape.kind = "map" THEN shape.element ELSE None]

RECURSIVE diff(_, _, _, _, _, _)

\* diffItem: either side may lack the item, as None.
diffItem(types, d, reference, candidate, path, shape) ==
    CASE reference # None /\ candidate = None -> add(d, path, "missing", None)
      [] reference = None /\ candidate # None -> add(d, path, "added", None)
      [] OTHER -> diff(types, d, reference, candidate, path, shape)

At(content, key) == IF key \in DOMAIN content THEN content[key] ELSE None

diff(types, d, reference, candidate, path, shape) ==
    IF Len(d.differences) >= MaxDifferences
    THEN [d EXCEPT !.truncated = @ \/ reference # candidate]
    ELSE IF reference = candidate THEN d
    ELSE IF reference[1] # candidate[1] THEN add(d, path, "retyped", <<reference[1], candidate[1]>>)
    ELSE IF reference[1] \notin {"object", "list"} THEN add(d, path, "changed", None)
    ELSE LET both == DOMAIN reference[2] \cup DOMAIN candidate[2]
             keys == IF reference[1] = "list" THEN [i \in both |-> i] ELSE SetToSeq(both)
             item(e, key) ==
                LET next == IF reference[1] = "object" THEN memberPath(types, path, shape, key)
                            ELSE [path |-> Append(path, <<"index", key>>), shape |-> ElementOf(shape)]
                IN  diffItem(types, e, At(reference[2], key), At(candidate[2], key), next.path, next.shape)
         IN  FoldLeft(item, d, keys)

\* mergeIndexes: differences that differ only in list indexes become one.
mergeIndexes(differences) ==
    LET general(i) == [differences[i].entry EXCEPT !.path = Wildcards(@)]
        group(i) == {k \in DOMAIN differences : general(k) = general(i)}
        firsts == SetToSortSeq({Min(group(i)) : i \in DOMAIN differences}, <)
    IN  [n \in DOMAIN firsts |->
            LET i == firsts[n]
            IN  [entry |-> IF group(i) = {i} THEN differences[i].entry ELSE general(i),
                 count |-> FoldSet(LAMBDA k, sum : sum + differences[k].count, 0, group(i))]]

\* compare and Diff
Diff(types, reference, candidate, shape) ==
    LET d == diffItem(types, [differences |-> <<>>, truncated |-> FALSE], reference, candidate, <<>>, shape)
    IN  [differences |-> mergeIndexes(d.differences), truncated |-> d.truncated]

-----------------------------------------------------------------------------
(* What a report promises.                                                 *)

\* The places where two values really differ, each with its own path and the keys of it.
RECURSIVE Places(_, _, _)
Places(reference, candidate, path) ==
    IF reference = candidate THEN {}
    ELSE IF None \in {reference, candidate} THEN {<<path, IF candidate = None THEN "missing" ELSE "added">>}
    ELSE IF reference[1] # candidate[1] THEN {<<path, "retyped">>}
    ELSE IF reference[1] \notin {"object", "list"} THEN {<<path, "changed">>}
    ELSE UNION {Places(At(reference[2], key), At(candidate[2], key), Append(path, key)) :
                   key \in DOMAIN reference[2] \cup DOMAIN candidate[2]}

\* Whether a reported path follows declared fields from a shape.
RECURSIVE Declared(_, _, _)
Declared(types, path, shape) ==
    path = <<>> \/
        CASE Head(path)[1] = "field" ->
                /\ shape # None /\ shape.kind = "object"
                /\ Head(path)[2] \in FieldNames(types[shape.type])
                /\ Declared(types, Tail(path), Field(types[shape.type], Head(path)[2]).value)
          [] Head(path)[1] = "index" -> Declared(types, Tail(path), ElementOf(shape))
          [] OTHER -> \E inner \in {None} \cup (IF shape # None /\ shape.kind \in {"list", "map"} THEN {shape.element} ELSE {}) :
                         Declared(types, Tail(path), inner)

\* A report accounts for every place where two payloads differ, and is empty exactly when
\* they are equal: its counts add up to the places, whatever was merged, unless it says
\* that it was truncated, and then they are fewer.  Paths name declared fields only.
ReportExact(types, reference, candidate, shape) ==
    LET report == Diff(types, reference, candidate, shape)
        counted == FoldLeft(LAMBDA sum, x : sum + x.count, 0, report.differences)
        places == Places(reference, candidate, <<>>)
    IN  /\ (report.differences = <<>> /\ ~report.truncated) <=> reference = candidate
        /\ IF report.truncated THEN counted < Cardinality(places) ELSE counted = Cardinality(places)
        /\ \A i \in DOMAIN report.differences :
              /\ Declared(types, report.differences[i].entry.path, shape)
              /\ \A k \in DOMAIN report.differences :
                    report.differences[i].entry = report.differences[k].entry => i = k

=============================================================================

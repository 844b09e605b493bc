--------------------------- MODULE MigrationState ---------------------------
(***************************************************************************)
(* The migration state file (internal/state): the parser, which collects   *)
(* every problem of a decoded TOML document, and Unreached.                *)
(*                                                                         *)
(* A TOML value is a table (a function from keys), an array of node IDs,   *)
(* or anything else.  A problem is the key path that it is reported at and *)
(* what is wrong; its wording is left out.                                 *)
(***************************************************************************)
EXTENDS Integers, Sequences, SequencesExt, FiniteSets

CONSTANTS
    Keys,     \* every key of a document, in the order of sortedKeys
    NodeIDs,  \* the keys that match nodeIDPattern
    None      \* no value

Other == [kind |-> "other"]
Array(ids) == [kind |-> "array", ids |-> ids]
Table(entries) == [kind |-> "table", entries |-> entries]
IsTable(value) == value.kind = "table"

sortedKeys(table) == SelectSeq(Keys, LAMBDA key : key \in DOMAIN table)

\* The problems that Find reports for each element, in order.
ForEach(seq, Find(_)) == FlattenSeq([i \in DOMAIN seq |-> Find(seq[i])])

reportf(path, what) == <<[path |-> path, what |-> what]>>

-----------------------------------------------------------------------------
(* The catalog.  A kind is <<direction, protocol>>; a setting has a name,  *)
(* may be required, keyed and unique, and a keyed one has Entry settings.  *)

\* Kinds in listing order: by protocol, ingress first.
KindBefore(a, b, Protocols) ==
    LET place(kind) == SelectInSeq(Protocols, LAMBDA p : p = kind[2])
    IN  place(a) < place(b) \/ (place(a) = place(b) /\ a[1] = "ingress" /\ b[1] = "egress")

\* NewCatalog: the supports in listing order, unless two of them are of one kind.
NewCatalog(supports, Protocols) ==
    LET kinds == {supports[i].kind : i \in DOMAIN supports}
    IN  IF Cardinality(kinds) < Len(supports) THEN None
        ELSE SortSeq(supports, LAMBDA a, b : KindBefore(a.kind, b.kind, Protocols))

Support(catalog, kind) ==
    LET i == SelectInSeq(catalog, LAMBDA support : support.kind = kind)
    IN  IF i = 0 THEN None ELSE catalog[i]

-----------------------------------------------------------------------------
(* The parser.                                                             *)

RECURSIVE settings(_, _, _)
settings(path, table, specs) ==
    LET required(spec) ==
            IF spec.required /\ spec.name \notin DOMAIN table THEN reportf(path, "required") ELSE <<>>
        entry(spec, at, value) ==
            IF ~IsTable(value) THEN reportf(at, "entry must be a table")
            ELSE settings(at, value.entries, spec.entry)
        found(spec, at, value) ==
            CASE ~spec.keyed /\ IsTable(value) -> reportf(at, "must be a value")
              [] ~spec.keyed /\ ~IsTable(value) -> <<>>
              [] spec.keyed /\ ~IsTable(value) -> reportf(at, "must be a keyed table")
              [] spec.keyed /\ IsTable(value) ->
                    ForEach(sortedKeys(value.entries),
                            LAMBDA key : entry(spec, Append(at, key), value.entries[key]))
        check(key) ==
            LET i == SelectInSeq(specs, LAMBDA spec : spec.name = key)
                at == Append(path, key)
            IN  IF i = 0 THEN reportf(at, "unknown setting") ELSE found(specs[i], at, table[key])
    IN  ForEach(specs, required) \o ForEach(sortedKeys(table), check)

\* kinds: the problems of a node's table for one direction, and the kinds it gains.
kindProblems(path, direction, value, catalog) ==
    LET check(protocol) ==
            LET support == Support(catalog, <<direction, protocol>>)
                at == Append(path, protocol)
                given == value.entries[protocol]
            IN  CASE support = None -> reportf(at, "unsupported")
                  [] support # None /\ ~IsTable(given) -> reportf(at, "must be a table")
                  [] support # None /\ IsTable(given) -> settings(at, given.entries, support.settings)
    IN  IF ~IsTable(value) THEN reportf(path, "must be keyed by protocol")
        ELSE ForEach(sortedKeys(value.entries), check)

kinds(direction, value, catalog) ==
    IF ~IsTable(value) THEN {}
    ELSE {<<direction, protocol>> : protocol \in
            {p \in DOMAIN value.entries :
                Support(catalog, <<direction, p>>) # None /\ IsTable(value.entries[p])}}

\* The value of a key of a node's table.
Given(table, key) == IF key \in DOMAIN table THEN table[key] ELSE None

dependsOn(value) == IF value # None /\ value.kind = "array" THEN value.ids ELSE <<>>

Status(value) == IF value # None /\ value.kind = "migrated" THEN "migrated" ELSE "pending"

\* node: what the parser keeps of a table, and what it reports.
node(id, value, catalog) ==
    LET table == IF IsTable(value) THEN value.entries ELSE [key \in {} |-> None]
        of(direction) ==
            IF direction \in DOMAIN table THEN kinds(direction, table[direction], catalog) ELSE {}
    IN  [id |-> id, dependsOn |-> dependsOn(Given(table, "depends_on")),
         status |-> Status(Given(table, "status")), io |-> of("ingress") \cup of("egress"), table |-> table]

nodeProblems(path, table, catalog) ==
    LET check(key) ==
            LET at == Append(path, key)
                value == table[key]
            IN  CASE key = "depends_on" ->
                        IF value.kind = "array" THEN <<>> ELSE reportf(at, "must be an array")
                  [] key = "status" ->
                        IF value.kind \in {"pending", "migrated"} THEN <<>> ELSE reportf(at, "must be a status")
                  [] key \in {"ingress", "egress"} -> kindProblems(at, key, value, catalog)
                  [] OTHER -> reportf(at, "unknown key")
    IN  ForEach(sortedKeys(table), check)

\* state: the nodes in the order of their IDs, with the problems of the document itself.
nodesOf(root, catalog) ==
    IF "nodes" \notin DOMAIN root \/ ~IsTable(Given(root, "nodes")) THEN <<>>
    ELSE LET ids == sortedKeys(root["nodes"].entries)
         IN  [i \in DOMAIN ids |-> node(ids[i], root["nodes"].entries[ids[i]], catalog)]

stateProblems(root, catalog) ==
    LET unknown(key) == IF key = "nodes" THEN <<>> ELSE reportf(<<key>>, "unknown key")
        nodes == root["nodes"].entries
        check(id) ==
            LET path == <<"nodes", id>>
            IN  (IF id \in NodeIDs THEN <<>> ELSE reportf(path, "must be kebab-case")) \o
                (IF IsTable(nodes[id]) THEN nodeProblems(path, nodes[id].entries, catalog)
                 ELSE reportf(path, "must be a table"))
    IN  ForEach(sortedKeys(root), unknown) \o
        (CASE "nodes" \notin DOMAIN root -> <<>>
           [] "nodes" \in DOMAIN root /\ ~IsTable(Given(root, "nodes")) -> reportf(<<"nodes">>, "must be a table")
           [] OTHER -> ForEach(sortedKeys(nodes), check))

-----------------------------------------------------------------------------
(* The checks across nodes.                                                *)

IDs(nodes) == {nodes[i].id : i \in DOMAIN nodes}
NodeOf(nodes, id) == nodes[SelectInSeq(nodes, LAMBDA n : n.id = id)]
DependsOn(nodes, id) == IF id \in IDs(nodes) THEN NodeOf(nodes, id).dependsOn ELSE <<>>

dependencyProblems(nodes) ==
    LET path(n) == <<"nodes", n.id, "depends_on">>
        check(n, i) ==
            LET id == n.dependsOn[i]
            IN  CASE id = n.id -> reportf(path(n), "depends on itself")
                  [] id # n.id /\ id \notin IDs(nodes) -> reportf(path(n), "not a node")
                  [] id \in IDs(nodes) \ {n.id} /\ (\E j \in 1 .. i - 1 : n.dependsOn[j] = id) ->
                        reportf(path(n), "listed twice")
                  [] OTHER ->
                        IF n.status = "migrated" /\ NodeOf(nodes, id).status = "pending"
                        THEN reportf(<<"nodes", n.id, "status">>, "depends on a pending node") ELSE <<>>
    IN  ForEach(nodes, LAMBDA n : FlattenSeq([i \in DOMAIN n.dependsOn |-> check(n, i)]))

\* Mutant: a node is done as soon as it is visited.
RECURSIVE visitOnce(_, _, _)
visitOnce(nodes, stack, done) ==
    LET id == Last(stack)
        next(found, dependency) ==
            CASE found.cycle # <<>> \/ dependency = id -> found
              [] dependency \in found.done -> found
              [] OTHER -> visitOnce(nodes, Append(stack, dependency), found.done \cup {id})
    IN  FoldLeft(next, [cycle |-> <<>>, done |-> done \cup {id}], DependsOn(nodes, id))

\* visit: depth first along the stack; a dependency on the stack closes a cycle.
RECURSIVE visit(_, _, _)
visit(nodes, stack, done) ==
    LET id == Last(stack)
        next(found, dependency) ==
            LET start == SelectInSeq(stack, LAMBDA s : s = dependency)
            IN  CASE found.cycle # <<>> \/ dependency = id -> found
                  [] found.cycle = <<>> /\ dependency # id /\ start > 0 ->
                        [found EXCEPT !.cycle = SubSeq(stack, start, Len(stack))]
                  [] OTHER -> visit(nodes, Append(stack, dependency), found.done)
        all == FoldLeft(next, [cycle |-> <<>>, done |-> done], DependsOn(nodes, id))
    IN  IF id \in done THEN [cycle |-> <<>>, done |-> done]
        ELSE [all EXCEPT !.done = IF all.cycle = <<>> THEN @ \cup {id} ELSE @]

\* checkCycles: the first cycle found from the lowest node ID.
checkCycles(nodes) ==
    LET next(found, n) == IF found.cycle # <<>> THEN found ELSE visit(nodes, <<n.id>>, found.done)
    IN  FoldLeft(next, [cycle |-> <<>>, done |-> {}], nodes).cycle

\* The keys of a node's keyed setting.
SettingKeys(n, kind, name) ==
    IF kind \notin n.io THEN <<>>
    ELSE LET table == n.table[kind[1]].entries[kind[2]].entries
         IN  IF name \in DOMAIN table /\ IsTable(table[name]) THEN sortedKeys(table[name].entries) ELSE <<>>

uniqueProblems(nodes, catalog) ==
    LET owned(kind, name, i, key) ==
            \E j \in 1 .. i - 1 : key \in ToSet(SettingKeys(nodes[j], kind, name))
        check(kind, name, i) ==
            ForEach(SettingKeys(nodes[i], kind, name),
                LAMBDA key : IF owned(kind, name, i, key)
                             THEN reportf(<<"nodes", nodes[i].id, kind[1], kind[2], name, key>>, "also listed")
                             ELSE <<>>)
        over(kind, name) == FlattenSeq([i \in DOMAIN nodes |-> check(kind, name, i)])
    IN  ForEach(catalog, LAMBDA support :
            ForEach(support.settings, LAMBDA spec : IF spec.unique THEN over(support.kind, spec.name) ELSE <<>>))

\* parse: every problem, in the order of lines and else as found; no problem, a state.
parse(root, lines, catalog) ==
    LET nodes == nodesOf(root, catalog)
        cycle == checkCycles(nodes)
        found == stateProblems(root, catalog) \o dependencyProblems(nodes)
                 \o (IF cycle = <<>> THEN <<>> ELSE reportf(<<"nodes", cycle[1], "depends_on">>, "cycle"))
                 \o uniqueProblems(nodes, catalog)
        line(i) == IF found[i].path \in DOMAIN lines THEN lines[found[i].path] ELSE 0
        order == SetToSortSeq(DOMAIN found, LAMBDA i, j : line(i) < line(j) \/ (line(i) = line(j) /\ i < j))
    IN  [nodes |-> IF found = <<>> THEN nodes ELSE <<>>, problems |-> [i \in DOMAIN found |-> found[order[i]]]]

-----------------------------------------------------------------------------
\* Unreached: breadth first from the ingress nodes along their dependencies.
RECURSIVE reach(_, _, _)
reach(nodes, queue, reached) ==
    IF queue = <<>> THEN reached
    ELSE IF Head(queue) \in reached THEN reach(nodes, Tail(queue), reached)
    ELSE reach(nodes, Tail(queue) \o DependsOn(nodes, Head(queue)), reached \cup {Head(queue)})

hasIngress(n) == \E kind \in n.io : kind[1] = "ingress"

Unreached(nodes) ==
    LET ingress == SelectSeq(nodes, hasIngress)
        reached == reach(nodes, [i \in DOMAIN ingress |-> ingress[i].id], {})
    IN  {id \in IDs(nodes) : id \notin reached}

-----------------------------------------------------------------------------
(* Reference definitions.                                                  *)

RECURSIVE Conforms(_, _)
Conforms(table, specs) ==
    LET names == {specs[i].name : i \in DOMAIN specs}
        spec(name) == specs[SelectInSeq(specs, LAMBDA s : s.name = name)]
    IN  /\ DOMAIN table \subseteq names
        /\ \A name \in names : spec(name).required => name \in DOMAIN table
        /\ \A name \in DOMAIN table :
              /\ spec(name).keyed <=> IsTable(table[name])
              /\ spec(name).keyed => \A key \in DOMAIN table[name].entries :
                    /\ IsTable(table[name].entries[key])
                    /\ Conforms(table[name].entries[key].entries, spec(name).entry)

NodeConforms(table, catalog) ==
    /\ DOMAIN table \subseteq {"depends_on", "status", "ingress", "egress"}
    /\ "depends_on" \in DOMAIN table => table["depends_on"].kind = "array"
    /\ "status" \in DOMAIN table => table["status"].kind \in {"pending", "migrated"}
    /\ \A direction \in {"ingress", "egress"} \cap DOMAIN table :
          /\ IsTable(table[direction])
          /\ \A protocol \in DOMAIN table[direction].entries :
                LET given == table[direction].entries[protocol]
                IN  \E i \in DOMAIN catalog :
                      /\ catalog[i].kind = <<direction, protocol>>
                      /\ IsTable(given)
                      /\ Conforms(given.entries, catalog[i].settings)

\* Dependencies name other nodes, once each, without a cycle, and nothing that is migrated
\* depends on anything pending.
DependenciesSound(nodes) ==
    /\ \A i \in DOMAIN nodes :
          /\ ToSet(nodes[i].dependsOn) \subseteq IDs(nodes) \ {nodes[i].id}
          /\ Cardinality(ToSet(nodes[i].dependsOn)) = Len(nodes[i].dependsOn)
          /\ nodes[i].status = "migrated" =>
                \A id \in ToSet(nodes[i].dependsOn) : NodeOf(nodes, id).status = "migrated"
    /\ \A ids \in SUBSET IDs(nodes) \ {{}} :
          \E id \in ids : ToSet(DependsOn(nodes, id)) \cap ids = {}

\* No two nodes list one key of a unique setting.
KeysUnique(nodes, catalog) ==
    \A s \in DOMAIN catalog : \A t \in DOMAIN catalog[s].settings :
        LET keys(i) == ToSet(SettingKeys(nodes[i], catalog[s].kind, catalog[s].settings[t].name))
        IN  catalog[s].settings[t].unique =>
                \A i, j \in DOMAIN nodes : i # j => keys(i) \cap keys(j) = {}

\* The state parser accepts a document exactly when every table conforms to the catalog,
\* the dependencies are sound and no unique key is listed twice; it reports problems in
\* the order of their lines; and Unreached warns of exactly the nodes that some set closed
\* under depends_on, holding every ingress node, leaves out.
StateFileExact(root, lines, catalog) ==
    LET parsed == parse(root, lines, catalog)
        nodes == nodesOf(root, catalog)
        line(i) == IF parsed.problems[i].path \in DOMAIN lines THEN lines[parsed.problems[i].path] ELSE 0
        closed == {ids \in SUBSET IDs(nodes) :
                      /\ \A i \in DOMAIN nodes : hasIngress(nodes[i]) => nodes[i].id \in ids
                      /\ \A id \in ids : ToSet(DependsOn(nodes, id)) \cap IDs(nodes) \subseteq ids}
    IN  /\ parsed.problems = <<>> <=>
              /\ DOMAIN root \subseteq {"nodes"}
              /\ "nodes" \in DOMAIN root =>
                    /\ IsTable(root["nodes"])
                    /\ \A id \in DOMAIN root["nodes"].entries :
                          /\ id \in NodeIDs
                          /\ IsTable(root["nodes"].entries[id])
                          /\ NodeConforms(root["nodes"].entries[id].entries, catalog)
              /\ DependenciesSound(nodes)
              /\ KeysUnique(nodes, catalog)
        /\ \A i, j \in DOMAIN parsed.problems : i < j => line(i) <= line(j)
        /\ Unreached(nodes) = {id \in IDs(nodes) : \E ids \in closed : id \notin ids}

=============================================================================

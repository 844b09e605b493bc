----------------------------- MODULE MCComparison -----------------------------
(***************************************************************************)
(* Inputs for Schema, Normalisation, Difference, Comparison and            *)
(* ScriptRules.                                                            *)
(***************************************************************************)
EXTENDS Integers, Sequences, SequencesExt, FiniteSets, TLC

CONSTANTS None, Error, Function, Slots, Dropped, Thrown, MaxDifferences

CM == INSTANCE Comparison
SR == INSTANCE ScriptRules

Text(x) == <<"string", x>>
Obj(f) == <<"object", f>>
Lst(s) == <<"list", s>>
NoMembers == [k \in {} |-> None]
Maybe(key, values) == {NoMembers} \cup {key :> v : v \in values}

\* A payload type with a field of each kind, and one that refers to itself.
Typed(name, v) == [name |-> name, optional |-> TRUE, value |-> v]
U == CM!Object("U")
MCTypes == [T |-> <<Typed("s", CM!StringKind), Typed("u", U), Typed("l", CM!ListOf(U)), Typed("m", CM!MapOf(U))>>,
            U |-> <<Typed("s", CM!StringKind), Typed("c", U)>>]

\* Scripts drop these; Made is what target 7 makes of the absent c of a U.
Made == Lst(<<<<"number", 7>>>>)
MCDropped == {Text("drop"), Obj("s" :> Text("drop")), Obj(NoMembers), Obj("c" :> Made),
              Obj("c" :> Made @@ "s" :> Text("drop"))}
MCThrown == {Text("throw")}

Us == {Obj(f) : f \in Maybe("s", {Text("x"), Text("drop")})}
Nested == Us \cup {Obj("c" :> u) : u \in Us} \cup {Obj("c" :> u @@ "s" :> Text("throw")) : u \in Us}
Lists == {Lst(s) : s \in SeqOf(Us, 2) \cup {<<Obj(NoMembers), Obj("s" :> Text("x")), Obj("s" :> Text("drop"))>>}}
Maps == {Obj(f) : f \in Maybe("s", Us) \cup {"k" :> Obj(NoMembers) @@ "s" :> Obj("s" :> Text("x"))}}
Payloads ==
    {Obj(f @@ g) : f \in Maybe("l", Lists), g \in Maybe("u", {Obj("c" :> Obj(NoMembers))})}
        \cup {Obj(f @@ g) : f \in Maybe("u", Nested), g \in Maybe("m", Maps)}

Step(name, elements) == [name |-> name, elements |-> elements]
FieldOf(key, type, steps) == [key |-> key, kind |-> "field", type |-> type, steps |-> steps]
MessageOf(key, type) == [key |-> key, kind |-> "message", type |-> type, steps |-> <<>>]
MCTargets ==
    <<FieldOf(1, "T", <<Step("u", FALSE)>>), FieldOf(2, "U", <<Step("s", FALSE)>>),
      FieldOf(3, "T", <<Step("l", TRUE), Step("s", FALSE)>>), FieldOf(4, "T", <<Step("l", FALSE)>>),
      FieldOf(5, "T", <<Step("u", FALSE), Step("c", FALSE)>>), MessageOf(6, "T"), MessageOf(7, "U")>>
Plans == {<<>>, MCTargets, Reverse(MCTargets)} \cup {<<MCTargets[i], MCTargets[j]>> : i \in {1, 3, 4, 5, 6}, j \in {2, 7}}

\* Normalisers are applied from the inside out (Normalisation.NormalisesInsideOut).
Normalised == [of : {"normalise"}, payload : Payloads, plan : Plans]
NormalisersApply(input) == CM!NormalisesInsideOut(MCTypes, input.payload, "T", input.plan)

\* Targets that scripts may declare, of up to three steps (Normalisation.TargetsReach).
Targets == [of : {"target"}, parts : UNION {[1..n -> [name : {"s", "u", "l", "m", "c", "z"}, elements : BOOLEAN]] : n \in 1..3}]
Deep == Obj("s" :> Text("x") @@ "c" :> Obj("s" :> Text("x") @@ "c" :> Obj("s" :> Text("x"))))
Whole == Obj("s" :> Text("x") @@ "u" :> Deep @@ "l" :> Lst(<<Deep>>) @@ "m" :> Obj("k" :> Deep))
TargetsAccepted(input) == CM!TargetsReach(MCTypes, "T", input.parts, {Whole})

\* Payloads that differ, with keys that no type declares (Difference.ReportExact).
Differing ==
    {Obj(f @@ g) : f \in Maybe("l", {Lst(<<>>), Lst(<<Obj(NoMembers)>>), Text("x"),
                                     Lst(<<Obj("s" :> Text("x")), Obj("s" :> Text("y")), Text("x")>>),
                                     Lst(<<Obj("s" :> Text("z")), Obj("s" :> Text("z"))>>)}),
                   g \in Maybe("m", {Obj(h) : h \in Maybe("s", Us) \cup [{"k", "s"} -> {Obj("s" :> Text("x")), Obj("s" :> Text("y"))}]})}
        \cup {Obj(f @@ g) : f \in Maybe("s", {Text("x"), <<"null">>, <<"number", 1>>}), g \in Maybe("z", {Text("x"), Obj("s" :> Text("x"))})}
        \cup {Lst(<<Text("x")>>), Text("x"), <<"null">>, None}
Pairs == [of : {"diff"}, reference : Differing, candidate : Differing, shape : {None, CM!Object("T")}]
ReportsAccount(input) == CM!ReportExact(MCTypes, input.reference, input.candidate, input.shape)

\* Payloads compared and hashed (Comparison.HashAgreesWithCompare).
Compared == {Obj(f) : f \in Maybe("u", Nested) \cup Maybe("l", {Lst(<<u>>) : u \in Us})}
Comparisons == [of : {"compare"}, reference : Compared, candidate : Compared,
                type : {None, "T"}, plan : {<<>>, <<FieldOf(2, "U", <<Step("s", FALSE)>>), MessageOf(7, "U")>>, <<MessageOf(6, "T")>>,
                                        <<MessageOf(7, "U")>>}]
ComparisonsAgree(input) ==
    CM!HashAgreesWithCompare(MCTypes, input.type, input.plan, input.reference, input.candidate)

-----------------------------------------------------------------------------
(* Schemas.                                                                *)

Enums == {CM!EnumOf(e) : e \in {<<"a">>, <<"a", "b">>, <<"b", "a">>}}
Numbers == {CM!NumberOr(e) : e \in {<<>>, <<"a">>, <<"a", "b">>, <<"b", "a">>}}
Shapes0 == Enums \cup Numbers \cup {CM!StringKind, CM!BooleanKind}
Shapes1 == Shapes0 \cup {CM!ListOf(v) : v \in Shapes0} \cup {CM!MapOf(v) : v \in Shapes0} \cup {U, CM!ListOf(U)}
JSON0 == {Text("a"), Text("b"), Text("c"), <<"number", 1>>, <<"boolean", TRUE>>, <<"null">>}
JSON1 == JSON0 \cup {Lst(x) : x \in SeqOf(JSON0, 2)} \cup {Obj(f) : f \in UNION {[ks -> JSON0] : ks \in SUBSET {"s", "z"}}}
            \cup {Lst(<<Obj("s" :> x), Obj("s" :> Text("a"))>>) : x \in JSON0}
Candidates == {Obj(f @@ g) : f \in Maybe("p", JSON1), g \in Maybe("q", {Text("a"), <<"null">>}) \cup {"z" :> Text("a")}}
OfShape(v) == [V |-> <<[name |-> "p", optional |-> FALSE, value |-> v], Typed("q", CM!StringKind)>>] @@ MCTypes

\* Values are validated (Schema.ValidateExact) and types compared (Schema.EqualExact).
Instanced == [of : {"validate"}, shape : Shapes1]
TypesExact(input) ==
    /\ CM!ValidateExact(OfShape(input.shape), "V", Candidates, {"a", "b", "c"}, {"s", "z"}, 2)
    /\ \A w \in Shapes1 : CM!EqualExact(MCTypes, input.shape, w, JSON1)

\* Programs of two types and a service (Schema.ReadsClosed).
Named(symbol) == [flag |-> "named", symbol |-> symbol]
Checked == {Named("A"), Named("B"), [flag |-> "array", element |-> Named("B")], [flag |-> "other"],
            [flag |-> "union", members |-> <<[flag |-> "literal", text |-> "a"], [flag |-> "number"]>>]}
MapOf(t) == [flag |-> "index", element |-> t]
Property(name, method, inSchema, types) ==
    [name |-> name, optional |-> FALSE, method |-> method, inSchema |-> inSchema, types |-> types]
Export(flag, symbol, type) == [flag |-> flag, symbol |-> symbol, type |-> type, inSchema |-> TRUE]
Programs ==
    {[of |-> "program", exports |-> exports,
      program |-> [A |-> [flag |-> flag, properties |-> <<Property("p", FALSE, TRUE, <<a>>)>>],
                   B |-> [flag |-> "interface", properties |-> <<Property("p", FALSE, inSchema, <<b>>)>>],
                   S |-> [flag |-> "interface", properties |-> <<Property("call", TRUE, TRUE, <<a, b>>)>>]]] :
        flag \in {"interface", "generic"}, a \in Checked, b \in Checked, inSchema \in BOOLEAN,
        exports \in {e \in SeqOf({Export("interface", "A", t) : t \in {Named("A"), MapOf(Named("B")), [flag |-> "other"]}}
                          \cup {Export("interface", "S", Named("S")),
                                Export("alias", None, Named("B")), Export("value", None, None)}, 2) :
                       Len(e) = 2 => e[1] # e[2]}}
ProgramsClosed(input) == CM!ReadsClosed(input.program, input.exports)

-----------------------------------------------------------------------------
(* Scripts.                                                                *)

MCSlots == <<"request", "reqX", "status", "resX">>
Messages == [pattern : {"p", "q"}, request : {"r"}, reqX : {None, "x"}, status : {200, 404}, resX : {None, "x"}]

Answers(values, v, yes) == [x \in values |-> IF x = v THEN yes ELSE "no"]
Call(slot, values, function) == [slot |-> slot, function |-> function, values |-> values]
RuleOf(pattern, function, calls) ==
    [of |-> "rule", pattern |-> pattern, function |-> function, calls |-> calls, action |-> "ignore"]
Declarations ==
    <<RuleOf("p", None, <<>>), RuleOf("p", None, <<Call("status", <<200>>, None)>>),
      RuleOf("p", None, <<Call("status", <<200, 200>>, None)>>), RuleOf("p", None, <<Call("status", <<404, 200>>, None)>>),
      RuleOf("p", None, <<Call("resX", <<"x">>, None)>>), RuleOf("p", None, <<Call("reqX", <<>>, Answers({None, "x"}, None, "yes"))>>),
      RuleOf("p", None, <<Call("status", <<>>, Answers({200, 404}, 200, "throws")), Call("resX", <<"x">>, None)>>),
      RuleOf("p", None, <<Call("status", <<200>>, None), Call("status", <<404>>, None)>>),
      RuleOf(None, Answers({"r"}, "r", "yes"), <<>>), RuleOf(None, Answers({"r"}, "r", "no"), <<>>),
      [of |-> "endpoint", pattern |-> "p", type |-> "T"], [of |-> "normaliser", target |-> "T.s"]>>

\* Scripts of up to three declarations, evaluated again as they were, reversed or cut short
\* (ScriptRules.RulesDecide).
Scripts == [of : {"script"}, script : SeqOf(DOMAIN Declarations, 3)]
ScriptsDecide(input) ==
    LET script == [i \in DOMAIN input.script |-> Declarations[input.script[i]]]
    IN  \A message \in Messages :
            /\ SR!RulesDecide(script, script, message)
            /\ SR!RulesDecide(script, Reverse(script), message)
            /\ SR!RulesDecide(script, SubSeq(script, 1, Len(script) - 1), message)

\* Calls in a source of five tokens (ScriptRules.ArgumentsInPlace).
SourceCalls == {[offset |-> offset, spectre |-> TRUE, owner |-> f[1], function |-> f[2], types |-> f[3]] :
                   offset \in 0..4,
                   f \in {<<"IngressHTTPRule", "match", <<"T">>>>, <<"IngressHTTPRule", "match", <<"Text">>>>, <<None, "message", <<"Text">>>>,
                          <<None, "field", <<"T", "s">>>>, <<None, "field", <<"T", Error>>>>, <<"IngressHTTPRule", "status", <<>>>>}}
Sources == [of : {"source"}, calls : {calls \in UNION {{{a, b, c} : a \in SourceCalls, b \in SourceCalls, c \in SourceCalls}} :
                                         \A a, b \in calls : a.offset = b.offset => a = b}]
CallsRewritten(input) == SR!ArgumentsInPlace({"T"}, <<"t1", "t2", "t3", "t4", "t5">>, input.calls)

\* What response normalisers return (ScriptRules.NormalisedConforms).
Results == [of : {"result"}, type : {None, "U"},
            result : {None, Text("x")} \cup {Obj(f @@ g @@ h) :
                         f \in Maybe("status", {<<"number", 99>>, <<"number", 200>>, <<"number", 600>>, Text("x")}),
                         g \in Maybe("body", {Text("x"), Obj("s" :> Text("x")), Obj("z" :> Text("x")), <<"null">>}),
                         h \in Maybe("other", {<<"null">>})}]
ResultsConform(input) == SR!NormalisedConforms(MCTypes, input.type, input.result)

=============================================================================

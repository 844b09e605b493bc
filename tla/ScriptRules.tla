------------------------------ MODULE ScriptRules ------------------------------
(***************************************************************************)
(* internal/comparison/javascript and the rules of comparison/scripts.go:  *)
(* what scripts register, how calls get their type arguments, and which    *)
(* rule decides a response.  A rule's selectors are a function from the    *)
(* slots they narrow (the request, a header of either message, the status) *)
(* to the values they accept, or to Function where a script decides.       *)
(***************************************************************************)
EXTENDS Schema

CONSTANTS Slots,     \* the slots in the order in which selectors are tried
          Function,  \* marks a selector that is a script function
          Error

Status == "status"

-----------------------------------------------------------------------------
(* Registration.  A builder holds a pattern, None for a request function,  *)
(* its selectors and their functions.                                      *)

\* httpRule: a rule starts from a pattern or from a request function.
httpRule(pattern, function) ==
    IF pattern # None
    THEN [pattern |-> pattern, wants |-> [s \in {} |-> {}], functions |-> [s \in {} |-> {}]]
    ELSE [pattern |-> None, wants |-> [s \in {"request"} |-> Function], functions |-> [s \in {"request"} |-> function]]

Extend(f, key, v) == [k \in DOMAIN f \cup {key} |-> IF k = key THEN v ELSE f[k]]

\* withStatus and withHeader: a slot is narrowed once, to values or by a function.
Narrow(builder, call) ==
    IF builder = Error THEN Error
    ELSE IF \/ call.slot \in DOMAIN builder.wants
            \/ /\ call.slot = Status /\ call.function = None
               /\ \/ call.values = <<>>
                  \/ \E i \in DOMAIN call.values : call.values[i] \notin 100..599
                  \/ Cardinality(ToSet(call.values)) < Len(call.values)
    THEN Error
    ELSE IF call.function = None THEN [builder EXCEPT !.wants = Extend(@, call.slot, call.values)]
    ELSE [builder EXCEPT !.wants = Extend(@, call.slot, Function), !.functions = Extend(@, call.slot, call.function)]

\* Mutant: rules are the same when their patterns and statuses are.
samePatternAndStatus(r, other) ==
    /\ r.pattern # None /\ r.pattern = other.pattern
    /\ \A rule \in {r, other} : \A s \in DOMAIN rule.wants : rule.wants[s] # Function
    /\ (Status \in DOMAIN r.wants) = (Status \in DOMAIN other.wants)
    /\ Status \in DOMAIN r.wants => r.wants[Status] = other.wants[Status]

\* sameSelectors: two rules select the same responses, without script functions.
sameSelectors(r, other) ==
    /\ r.pattern # None /\ r.pattern = other.pattern
    /\ r.wants = other.wants
    /\ \A s \in DOMAIN r.wants : r.wants[s] # Function

\* matchRule, ignore and addRule: a repeated rule is refused.
addRule(registry, builder, action) ==
    LET rule == [pattern |-> builder.pattern, wants |-> builder.wants, action |-> action]
    IN  IF builder = Error THEN Error
        ELSE IF \E i \in DOMAIN registry.rules : sameSelectors(rule, registry.rules[i]) THEN Error
        ELSE [registry EXCEPT !.rules = Append(@, rule), !.callbacks = Append(@, builder.functions)]

\* matchEndpoint and registration: endpoints and normalisers are declared once each.
Declare(registry, declaration) ==
    IF registry = Error THEN Error
    ELSE CASE declaration.of = "rule" ->
                addRule(registry, FoldLeft(Narrow, httpRule(declaration.pattern, declaration.function), declaration.calls),
                        declaration.action)
           [] declaration.of = "endpoint" ->
                IF \E i \in DOMAIN registry.endpoints : registry.endpoints[i].pattern = declaration.pattern
                THEN Error
                ELSE [registry EXCEPT !.endpoints =
                         Append(@, [pattern |-> declaration.pattern, type |-> declaration.type])]
           [] declaration.of = "normaliser" ->
                IF declaration.target \in registry.targets THEN Error
                ELSE [registry EXCEPT !.targets = @ \cup {declaration.target}]

\* newEvaluator and loadSpectreModule: one evaluation of the scripts, Error if it throws.
Evaluate(script) ==
    FoldLeft(Declare, [rules |-> <<>>, callbacks |-> <<>>, endpoints |-> <<>>, targets |-> {}], script)

\* NewEvaluator: evaluating the scripts again must register what they did at startup.
NewEvaluator(program, again) ==
    IF again = Error THEN Error
    ELSE IF \/ again.endpoints # program.endpoints \/ again.rules # program.rules
            \/ again.targets # program.targets
    THEN Error
    ELSE again.callbacks

-----------------------------------------------------------------------------
(* Selection.  A message gives each slot its value, None for a header that *)
(* is not there; a function answers "yes", "no" or throws.                 *)

\* Evaluator.selects and its callers: the answer of the function at a rule's index.
Answer(callbacks, index, slot, message) ==
    IF callbacks = Error THEN Error
    ELSE IF index \notin DOMAIN callbacks THEN Error
    ELSE IF slot \notin DOMAIN callbacks[index] THEN Error
    ELSE LET answer == callbacks[index][slot][message[slot]]
         IN  IF answer = "throws" THEN Error ELSE answer = "yes"

\* selects, selectsStatus and selectsHeaders: the first selector that does not accept decides.
RECURSIVE selects(_, _, _, _, _)
selects(rule, index, slots, message, callbacks) ==
    IF slots = <<>> THEN TRUE
    ELSE LET slot == Head(slots)
             accepted == IF slot \notin DOMAIN rule.wants THEN TRUE
                         ELSE IF rule.wants[slot] = Function THEN Answer(callbacks, index, slot, message)
                         ELSE message[slot] \in ToSet(rule.wants[slot])
         IN  IF accepted = TRUE THEN selects(rule, index, Tail(slots), message, callbacks) ELSE accepted

\* SelectRule over the rules whose patterns match: the first that selects, or an error.
RECURSIVE SelectRule(_, _, _, _)
SelectRule(rules, index, message, callbacks) ==
    IF index > Len(rules) THEN None
    ELSE LET rule == rules[index]
             selected == IF rule.pattern \notin {None, message.pattern} THEN FALSE
                         ELSE selects(rule, index, Slots, message, callbacks)
         IN  IF selected = Error THEN Error
             ELSE IF selected THEN index ELSE SelectRule(rules, index + 1, message, callbacks)

\* NormaliseResponse and normalisedResponse: what a rule's normaliser may return.
normalisedResponse(types, typeName, result) ==
    IF result = None THEN Error
    ELSE IF result[1] # "object" THEN Error
    ELSE LET members == result[2]
             body == IF "body" \in DOMAIN members THEN members["body"] ELSE None
             status == IF "status" \in DOMAIN members THEN members["status"] ELSE None
         IN  IF ~ DOMAIN members \subseteq {"status", "body"} THEN Error
             ELSE IF status # None /\ (status[1] # "number" \/ status[2] \notin 100..599) THEN Error
             ELSE IF body # None /\ ~(IF typeName = None THEN body[1] = "string" ELSE Validate(types, typeName, body))
             THEN Error
             ELSE [status |-> IF status = None THEN None ELSE status[2], body |-> body]

-----------------------------------------------------------------------------
(* Type arguments.  A source is a sequence of tokens; a call has its       *)
(* offset, the function it resolves to with its owner, and its type        *)
(* arguments.                                                              *)

\* bodyTypeName and the schema's Type: a name that a call may give as its body's.  Only the
\* rules of an ingress compare bodies as Text.
BodyTypes(names, call) ==
    names \cup (IF call.owner = "IngressHTTPRule" /\ call.function = "match" THEN {"Text"} ELSE {})

\* typeArguments: what is inserted after a call's parenthesis; None for other calls.  A type
\* argument that is no string literal type is Error as a field's path.
typeArguments(names, call) ==
    IF ~call.spectre \/ call.function \in {"ignore", "status", "requestHeader", "responseHeader", "http"} THEN None
    ELSE IF Len(call.types) # (IF call.function = "field" THEN 2 ELSE 1) THEN Error
    ELSE IF call.types[1] \notin BodyTypes(names, call) \/ Error \in ToSet(call.types) THEN Error
    ELSE [offset |-> call.offset, text |-> call.types]

\* passTypeArguments: later offsets first, so that earlier ones stay valid.
InsertAll(source, insertions) ==
    FoldLeft(LAMBDA s, x : SubSeq(s, 1, x.offset) \o x.text \o SubSeq(s, x.offset + 1, Len(s)), source,
             SetToSortSeq(insertions, LAMBDA x, y : x.offset > y.offset))

passTypeArguments(names, source, calls) ==
    LET found == {typeArguments(names, c) : c \in calls}
    IN  IF Error \in found THEN Error ELSE InsertAll(source, found \ {None})

-----------------------------------------------------------------------------
(* What the scripts are promised.                                          *)

Accepts(rule, callbacks, message, slot) ==
    slot \in DOMAIN rule.wants =>
        IF rule.wants[slot] = Function THEN callbacks[slot][message[slot]] = "yes"
        ELSE message[slot] \in ToSet(rule.wants[slot])

Throws(callbacks, message) == \E slot \in DOMAIN callbacks : callbacks[slot][message[slot]] = "throws"

\* The first rule declared whose pattern matches and whose selectors all accept a response
\* decides it; a rule is refused as a repetition only when it could never decide; and the
\* functions of a later evaluation answer only for the rules they were declared with:
\* whatever the scripts register then, the outcome is an error, or what needs no function,
\* or what they now decide.
RulesDecide(script, again, message) ==
    LET program == Evaluate(script)
        before == Evaluate(Front(script))
        chosen == SelectRule(program.rules, 1, message, program.callbacks)
        deciding == {i \in DOMAIN program.rules :
                        /\ program.rules[i].pattern \in {None, message.pattern}
                        /\ \A slot \in ToSet(Slots) :
                              Accepts(program.rules[i], program.callbacks[i], message, slot)}
    IN  IF script = <<>> THEN TRUE
        ELSE IF program # Error
        THEN /\ (\A i \in DOMAIN program.callbacks : ~Throws(program.callbacks[i], message)) =>
                    chosen = IF deciding = {} THEN None ELSE Min(deciding)
             /\ LET later == Evaluate(again)
                IN  SelectRule(program.rules, 1, message, NewEvaluator(program, later)) \in
                        {Error, SelectRule(program.rules, 1, message, Error)}
                            \cup {SelectRule(x.rules, 1, message, x.callbacks) : x \in {later} \ {Error}}
        ELSE before # Error /\ Last(script).of = "rule" =>
                LET builder == FoldLeft(Narrow, httpRule(Last(script).pattern, Last(script).function), Last(script).calls)
                    rule == [pattern |-> builder.pattern, wants |-> builder.wants, action |-> Last(script).action]
                IN  builder # Error =>
                        SelectRule(Append(before.rules, rule), 1, message, Append(before.callbacks, builder.functions))
                            # Len(before.rules) + 1

\* Inserting type arguments leaves the script's own text as it was, and puts each call's
\* arguments just after its parenthesis, however calls are nested or ordered.
ArgumentsInPlace(names, source, calls) ==
    LET passed == passTypeArguments(names, source, calls)
        text(offset) == LET at == {c \in calls : c.offset = offset /\ typeArguments(names, c) # None}
                        IN  IF at = {} THEN <<>> ELSE (CHOOSE c \in at : TRUE).types
    IN  passed # Error =>
            passed = FlattenSeq([i \in 1..2 * Len(source) + 1 |->
                         IF i % 2 = 1 THEN text(i \div 2) ELSE <<source[i \div 2]>>])

\* A response normaliser's result is accepted exactly when it is an instance of the type
\* with an optional status and an optional body of the rule's type, and the status is real.
NormalisedConforms(types, typeName, result) ==
    LET optional(name, v) == [name |-> name, optional |-> TRUE, value |-> v]
        response == <<optional("status", NumberOr(<<>>)),
                      optional("body", IF typeName = None THEN StringKind ELSE Object(typeName))>>
        extended == [t \in DOMAIN types \cup {"response"} |-> IF t = "response" THEN response ELSE types[t]]
    IN  (normalisedResponse(types, typeName, result) # Error) <=>
            /\ result # None
            /\ Validate(extended, "response", result)
            /\ "status" \in DOMAIN result[2] => result[2]["status"][2] \in 100..599

=============================================================================

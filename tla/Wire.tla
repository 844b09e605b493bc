--------------------------------- MODULE Wire ---------------------------------
(***************************************************************************)
(* internal/server/wire and internal/model: the messages in which mirrors  *)
(* report to the server and the server answers lists, and the filters of   *)
(* lists.                                                                  *)
(*                                                                         *)
(* None is a message or an optional value that is absent; a plain protobuf *)
(* string that is not set is "".  An enum's number is its place in the     *)
(* sequence of its names, and 0 is UNSPECIFIED.                            *)
(***************************************************************************)
EXTENDS Integers, Sequences, SequencesExt, FiniteSets, TLC

CONSTANTS None, Error,
          Names  \* the names of services and environments, in their order

Directions == <<"ingress", "egress">>
Kinds == <<"divergent", "unable", "unmatched", "unlisted", "capacity", "pairing">>
Changes == <<"missing", "added", "changed", "retyped">>
JSONTypes == <<"null", "boolean", "number", "string", "object", "list">>

\* directionMessage, kindMessage, changeMessage, jsonTypeMessage and their inverses.
EnumMessage(names, name) == IF name \in ToSet(names) THEN SelectInSeq(names, LAMBDA n : n = name) ELSE 0
EnumFromMessage(names, number) == IF number \in DOMAIN names THEN names[number] ELSE Error

\* The restored elements of a repeated field, Error when one is refused.
Restored(Restore(_), messages) ==
    LET restored == [i \in DOMAIN messages |-> Restore(messages[i])]
    IN  IF \E i \in DOMAIN messages : restored[i] = Error THEN Error ELSE restored

differenceMessage(difference) ==
    [path |-> difference.path, change |-> EnumMessage(Changes, difference.change),
     count |-> IF difference.count < 0 THEN 0 ELSE difference.count,
     types |-> IF difference.retype = None THEN <<0, 0>>
               ELSE [i \in 1..2 |-> EnumMessage(JSONTypes, difference.retype[i])]]

\* Only a retyped difference has types, and it must have both.
differenceFromMessage(message) ==
    LET change == EnumFromMessage(Changes, message.change)
        types == [i \in 1..2 |-> EnumFromMessage(JSONTypes, message.types[i])]
    IN  IF change = Error \/ (change = "retyped" /\ Error \in {types[1], types[2]}) THEN Error
        ELSE [path |-> message.path, change |-> change, count |-> message.count,
              retype |-> IF change = "retyped" THEN types ELSE None]

QuarantineMessage(direction, quarantine) ==
    LET reason == quarantine.reason
    IN  [direction |-> EnumMessage(Directions, direction), since |-> quarantine.since,
         kind |-> EnumMessage(Kinds, reason.kind),
         differences |-> [i \in DOMAIN reason.differences |-> differenceMessage(reason.differences[i])],
         node |-> reason.node,
         traffic |-> IF reason.traffic = None THEN None
                     ELSE [direction |-> EnumMessage(Directions, reason.traffic.direction), route |-> reason.traffic.route]]

\* reasonFromMessage: an empty node is none.
reasonFromMessage(message) ==
    LET kind == EnumFromMessage(Kinds, message.kind)
        differences == Restored(differenceFromMessage, message.differences)
        direction == IF message.traffic = None THEN None ELSE EnumFromMessage(Directions, message.traffic.direction)
    IN  IF Error \in {kind, direction} \/ differences = Error THEN Error
        ELSE [kind |-> kind, differences |-> differences, node |-> IF message.node = "" THEN None ELSE message.node,
              traffic |-> IF message.traffic = None THEN None ELSE [direction |-> direction, route |-> message.traffic.route]]

\* QuarantineFromMessage and quarantineFromMessage
QuarantineFromMessage(message) ==
    LET direction == EnumFromMessage(Directions, message.direction)
        reason == reasonFromMessage(message)
    IN  IF message.since = None \/ direction = Error \/ reason = Error THEN Error
        ELSE [direction |-> direction, quarantine |-> [since |-> message.since, reason |-> reason]]

\* A message has no routes rather than an empty table of them.
CallsMessage(calls) ==
    [routes |-> IF DOMAIN calls.routes = {} THEN None ELSE calls.routes, other |-> calls.other]

\* CallsFromMessage: an absent message counts no calls.
CallsFromMessage(message) ==
    LET none == [r \in {} |-> 0]
        routes == IF message = None THEN none ELSE IF message.routes = None THEN none ELSE message.routes
    IN  IF "" \in DOMAIN routes THEN Error
        ELSE [routes |-> routes, other |-> IF message = None THEN 0 ELSE message.other]

Identity(x) == [service |-> x.service, environment |-> x.environment, revision |-> x.revision]
Identified(x) == "" \notin {x.service, x.environment, x.revision}

QuarantineMessages(state) ==
    LET held == SelectSeq(Directions, LAMBDA d : d \in DOMAIN state.quarantines)
    IN  [i \in DOMAIN held |-> QuarantineMessage(held[i], state.quarantines[held[i]])]

\* Mutant: counts are left out when no route is counted.
StateMessageRouted(state) ==
    [id |-> Identity(state.id), uptime |-> state.uptime, quarantines |-> QuarantineMessages(state),
     calls |-> IF DOMAIN state.calls.routes # {} THEN CallsMessage(state.calls) ELSE None]

StateMessage(state) ==
    [id |-> Identity(state.id), uptime |-> state.uptime, quarantines |-> QuarantineMessages(state),
     calls |-> IF DOMAIN state.calls.routes # {} \/ state.calls.other > 0 THEN CallsMessage(state.calls) ELSE None]

StateFromMessage(message) ==
    LET calls == CallsFromMessage(message.calls)
        quarantines == Restored(QuarantineFromMessage, message.quarantines)
        of(d) == {i \in DOMAIN quarantines : quarantines[i].direction = d}
    IN  IF ~Identified(message.id) \/ message.uptime = None \/ calls = Error \/ quarantines = Error THEN Error
        ELSE IF \E d \in ToSet(Directions) : Cardinality(of(d)) > 1 THEN Error
        ELSE [id |-> message.id, uptime |-> message.uptime, calls |-> calls,
              quarantines |-> [d \in {quarantines[i].direction : i \in DOMAIN quarantines} |->
                                  quarantines[CHOOSE i \in of(d) : TRUE].quarantine]]

\* UpdateMessage and UpdateFromMessage: an update is a pair of its kind and content.
UpdateMessage(update) ==
    CASE update[1] = "state" -> <<"state", StateMessage(update[2])>>
      [] update[1] = "quarantine" -> <<"quarantine", QuarantineMessage(update[2].direction, update[2].quarantine)>>
      [] update[1] = "calls" -> <<"calls", CallsMessage(update[2])>>

UpdateFromMessage(message) ==
    LET content == CASE message[1] = "state" -> StateFromMessage(message[2])
                     [] message[1] = "quarantine" -> QuarantineFromMessage(message[2])
                     [] message[1] = "calls" -> CallsFromMessage(message[2])
                     [] OTHER -> Error
    IN  IF content = Error THEN Error ELSE <<message[1], content>>

DivergenceMessage(divergence) ==
    [id |-> Identity(divergence.id), quarantine |-> QuarantineMessage(divergence.direction, divergence.quarantine)]

DivergenceFromMessage(message) ==
    LET restored == IF message.quarantine = None THEN Error ELSE QuarantineFromMessage(message.quarantine)
    IN  IF ~Identified(message.id) \/ restored = Error THEN Error
        ELSE [id |-> message.id, direction |-> restored.direction, quarantine |-> restored.quarantine]

ListResponse(states, divergences) ==
    [states |-> [i \in DOMAIN states |-> StateMessage(states[i])],
     divergences |-> [i \in DOMAIN divergences |-> DivergenceMessage(divergences[i])]]

ListFromResponse(response) ==
    LET states == Restored(StateFromMessage, response.states)
        divergences == Restored(DivergenceFromMessage, response.divergences)
    IN  IF states = Error \/ divergences = Error THEN Error ELSE <<states, divergences>>

\* State.Quarantined
Quarantined(state, direction, quarantine) ==
    [state EXCEPT !.quarantines = [d \in DOMAIN @ \cup {direction} |-> IF d = direction THEN quarantine ELSE @[d]]]

-----------------------------------------------------------------------------
(* Filters.                                                                *)

\* matches: an absent filter matches every value.
matches(filter, v) == filter = None \/ v = filter

MatchesIdentity(filter, id) ==
    /\ matches(filter.service, id.service)
    /\ matches(filter.environment, id.environment)
    /\ matches(filter.revision, id.revision)

Matches(filter, divergence) ==
    MatchesIdentity(filter, divergence.id) /\ matches(filter.node, divergence.quarantine.reason.node)

MatchesState(filter, state) ==
    /\ MatchesIdentity(filter, state.id)
    /\ \/ filter.node = None
       \/ \E d \in DOMAIN state.quarantines : matches(filter.node, state.quarantines[d].reason.node)

\* Where two sources are in the order of lists: by service and then by environment.
Rank(name) == SelectInSeq(Names, LAMBDA n : n = name)
Sooner(a, b) ==
    \/ Rank(a.service) < Rank(b.service)
    \/ a.service = b.service /\ Rank(a.environment) < Rank(b.environment)

\* filterStates and filterDivergences: sorted by source, and ingress before egress.
filterStates(states, filter) ==
    SortSeq(SelectSeq(states, LAMBDA s : MatchesState(filter, s)), LAMBDA s, t : Sooner(s.id, t.id))
filterDivergences(divergences, filter) ==
    SortSeq(SelectSeq(divergences, LAMBDA d : Matches(filter, d)),
            LAMBDA d, e : \/ Sooner(d.id, e.id)
                          \/ /\ d.id.service = e.id.service /\ d.id.environment = e.id.environment
                             /\ d.direction = "ingress" /\ e.direction = "egress")

-----------------------------------------------------------------------------
(* What the messages promise.                                              *)

\* The divergences that the server records of a state (service.recordQuarantines).
DivergencesOf(state) ==
    LET held == SelectSeq(Directions, LAMBDA d : d \in DOMAIN state.quarantines)
    IN  [i \in DOMAIN held |-> [id |-> state.id, direction |-> held[i], quarantine |-> state.quarantines[held[i]]]]

\* What a server keeps of the updates that it accepts, a state with a later quarantine and its
\* divergences, can always be listed, and the client restores exactly that.
Listed(state, quarantine) ==
    \A s \in {state} \cup {Quarantined(state, q.direction, q.quarantine) : q \in {quarantine} \ {None}} :
        ListFromResponse(ListResponse(<<s>>, DivergencesOf(s))) = <<<<s>>, DivergencesOf(s)>>

\* An update that is accepted is one that a mirror can hold: sending it again restores it,
\* and what the server keeps of it can be listed (Listed).
AcceptedRestored(message, quarantine) ==
    LET update == UpdateFromMessage(message)
        later == UpdateFromMessage(quarantine)
    IN  update # Error =>
            /\ UpdateFromMessage(UpdateMessage(update)) = update
            /\ update[1] = "state" => Listed(update[2], IF later = Error THEN None ELSE later[2])

\* What a mirror reports is accepted and restored as it was, so that no quarantine, count or
\* difference is lost on its way to the server.
ReportRestored(update) == UpdateFromMessage(UpdateMessage(update)) = update

\* A client refuses a list as a whole for one message in it that it could not restore, and
\* only then: here a state or a quarantine listed after a state that is sound.
ListRefused(message, sound) ==
    LET response == IF message[1] = "state" THEN [states |-> <<sound, message[2]>>, divergences |-> <<>>]
                    ELSE [states |-> <<sound>>, divergences |-> <<[id |-> sound.id, quarantine |-> message[2]]>>]
    IN  message[1] \in {"state", "quarantine"} =>
            (ListFromResponse(response) = Error <=> UpdateFromMessage(message) = Error)

\* Every field that a filter gives is that of a source, or a node of its quarantines.
Selects(filter, id, quarantines) ==
    /\ \A field \in {"service", "environment", "revision"} : filter[field] \in {None, id[field]}
    /\ filter.node \in {None} \cup {q.reason.node : q \in quarantines}

\* list has every member of set, once.
ListsOnce(list, set) == ToSet(list) = set /\ Len(list) = Cardinality(set)

\* A list does not depend on the order of the store, and it has each state and each divergence
\* that the filter selects once, also a divergence whose mirror run has ended.
FiltersExact(states, divergences, filter) ==
    LET listed == filterStates(states, filter)
        diverged == filterDivergences(divergences, filter)
    IN  /\ listed = filterStates(Reverse(states), filter)
        /\ diverged = filterDivergences(Reverse(divergences), filter)
        /\ ListsOnce(listed, {s \in ToSet(states) : Selects(filter, s.id, Range(s.quarantines))})
        /\ ListsOnce(diverged, {d \in ToSet(divergences) : Selects(filter, d.id, {d.quarantine})})

=============================================================================

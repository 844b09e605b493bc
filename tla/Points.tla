-------------------------------- MODULE Points --------------------------------
(***************************************************************************)
(* Forwarding at a point (internal/httpserver/point.go): every forwarded   *)
(* request records its response (recording.go) under a budget (budget.go)  *)
(* and reports it to the engine once, however the reverse proxy ends.      *)
(*                                                                         *)
(* The handler of an exchange writes the recording; after its report the   *)
(* engine may decode, replay and release it.  One action is one call that  *)
(* takes r.mu with the handler's local steps around it.                    *)
(***************************************************************************)
EXTENDS Integers, Sequences, FiniteSets, Functions

CONSTANTS
    Exchanges,  \* forwarded requests
    Shared,     \* the budget that all egress recordings share
    Limit,      \* limit of every budget
    MaxBytes    \* bound: bytes of one response body

ASSUME PointsAssumption ==
    /\ IsFiniteSet(Exchanges) /\ Shared \notin Exchanges
    /\ Limit \in Nat /\ MaxBytes \in Nat

VARIABLES
    point,      \* the point that serves each exchange
    handler,    \* the handler of each exchange
    result,     \* r.finished and r.err: "open", "complete", "failed", or "cut" by the client
    overBudget, \* exchanges with r.overBudget
    reserved,   \* r.reserved, which is also the length of r.body
    released,   \* exchanges with r.released
    used,       \* bytes reserved from each budget
    delivered,  \* body bytes that the tee has read
    whole,      \* exchanges whose body the tee has read to its end
    reports,    \* calls of ProcessResponse and Unable for each exchange
    replay      \* what a candidate got from each egress recording

recordingVars == <<result, overBudget, reserved, released, used>>
vars == <<point, handler, recordingVars, delivered, whole, reports, replay>>

\* The points of both servers, and the options newPoint gets.
PointKinds == {"ingressReference", "ingressCandidate", "egressReference"}
abortCancels(x) == point[x] = "ingressReference"
replaysFailures(x) == point[x] = "egressReference"

\* The budget of a recording: all egress recordings share one.
budget(x) == IF point[x] = "egressReference" THEN Shared ELSE x

Init ==
    /\ point \in [Exchanges -> PointKinds]
    /\ handler = [x \in Exchanges |-> "new"]
    /\ result = [x \in Exchanges |-> "open"]
    /\ overBudget = {}
    /\ reserved = [x \in Exchanges |-> 0]
    /\ released = {}
    /\ used = [b \in Exchanges \cup {Shared} |-> 0]
    /\ delivered = [x \in Exchanges |-> 0]
    /\ whole = {}
    /\ reports = [x \in Exchanges |-> <<>>]
    /\ replay = [x \in Exchanges |-> "none"]

-----------------------------------------------------------------------------
(* The recording.                                                          *)

\* Only the first call of finish has any effect.
finish(x, outcome) ==
    result' = IF result[x] = "open" THEN [result EXCEPT ![x] = outcome] ELSE result

\* dropBody returns the reservation to the budget.
dropBody(x) ==
    /\ used' = [used EXCEPT ![budget(x)] = @ - reserved[x]]
    /\ reserved' = [reserved EXCEPT ![x] = 0]

Release(x) ==
    /\ released' = released \cup {x}
    /\ dropBody(x)

\* write reserves and appends n bytes, or drops the whole body for good.
write(x, n) ==
    \/ /\ x \in released \/ x \in overBudget
       /\ UNCHANGED <<overBudget, reserved, used>>
    \/ /\ x \notin released /\ x \notin overBudget
       /\ used[budget(x)] + n > Limit
       /\ overBudget' = overBudget \cup {x}
       /\ dropBody(x)
    \/ /\ x \notin released /\ x \notin overBudget
       /\ used[budget(x)] + n <= Limit
       /\ reserved' = [reserved EXCEPT ![x] = @ + n]
       /\ used' = [used EXCEPT ![budget(x)] = @ + n]
       /\ UNCHANGED overBudget

-----------------------------------------------------------------------------
(* The handler: forward, with the reverse proxy and its transport.         *)

\* forward has no upstream: it reports unable and has nothing recorded.  Only egress
\* requests may lack one.
NoDestination(x) ==
    /\ handler[x] = "new"
    /\ point[x] = "egressReference"
    /\ reports' = [reports EXCEPT ![x] = Append(@, <<"unable", "asRequest">>)]
    /\ handler' = [handler EXCEPT ![x] = "done"]
    /\ UNCHANGED <<point, recordingVars, delivered, whole, replay>>

\* ServeHTTP sends the request.
Send(x) ==
    /\ handler[x] = "new"
    /\ handler' = [handler EXCEPT ![x] = "sending"]
    /\ UNCHANGED <<point, recordingVars, delivered, whole, reports, replay>>

\* The transport fails or upgrades the connection, which cannot be replayed; either way
\* ServeHTTP returns.
RoundTripFails(x) ==
    /\ handler[x] = "sending"
    /\ finish(x, "failed")
    /\ handler' = [handler EXCEPT ![x] = "returned"]
    /\ UNCHANGED <<point, overBudget, reserved, released, used, delivered, whole, reports, replay>>

\* ServeHTTP returns without running the transport.
TransportNeverRuns(x) ==
    /\ handler[x] = "sending"
    /\ handler' = [handler EXCEPT ![x] = "returned"]
    /\ UNCHANGED <<point, recordingVars, delivered, whole, reports, replay>>

\* start records the response head, and the body is teed into the recording.
StartResponse(x) ==
    /\ handler[x] = "sending"
    /\ handler' = [handler EXCEPT ![x] = "copying"]
    /\ UNCHANGED <<point, recordingVars, delivered, whole, reports, replay>>

\* The tee reads n bytes.
CopyBytes(x, n) ==
    /\ handler[x] = "copying" /\ x \notin whole
    /\ delivered[x] + n <= MaxBytes
    /\ delivered' = [delivered EXCEPT ![x] = @ + n]
    /\ write(x, n)
    /\ UNCHANGED <<point, handler, result, released, whole, reports, replay>>

\* The tee reads EOF.
BodyEnds(x) ==
    /\ handler[x] = "copying" /\ x \notin whole
    /\ whole' = whole \cup {x}
    /\ finish(x, "complete")
    /\ UNCHANGED <<point, handler, overBudget, reserved, released, used, delivered, reports, replay>>

\* The upstream breaks off the body: the reverse proxy closes it and panics.
BodyBreaks(x) ==
    /\ handler[x] = "copying" /\ x \notin whole
    /\ finish(x, "failed")
    /\ handler' = [handler EXCEPT ![x] = "panicking"]
    /\ UNCHANGED <<point, overBudget, reserved, released, used, delivered, whole, reports, replay>>

\* The client goes away: the reverse proxy closes the body, perhaps before its end, and
\* panics.
ClientLeaves(x) ==
    /\ handler[x] = "copying"
    /\ finish(x, "cut")
    /\ handler' = [handler EXCEPT ![x] = "panicking"]
    /\ UNCHANGED <<point, overBudget, reserved, released, used, delivered, whole, reports, replay>>

\* All of the body is copied and ServeHTTP returns.
CopyEnds(x) ==
    /\ handler[x] = "copying" /\ x \in whole
    /\ handler' = [handler EXCEPT ![x] = "returned"]
    /\ UNCHANGED <<point, recordingVars, delivered, whole, reports, replay>>

\* The recording of x is not the whole response, as report sees it after finish.
Incomplete(x) ==
    \/ x \in overBudget
    \/ ~replaysFailures(x) /\ result'[x] # "complete"

\* report ends the exchange as unable after it has released the recording, or passes the
\* recording to the engine.
report(x, context) ==
    \/ /\ Incomplete(x)
       /\ reports' = [reports EXCEPT ![x] = Append(@, <<"unable", context>>)]
       /\ Release(x)
    \/ /\ ~Incomplete(x)
       /\ reports' = [reports EXCEPT ![x] = Append(@, <<"response", context>>)]
       /\ UNCHANGED <<released, used, reserved>>

\* Mutant: reported is set by the deferred call alone.
ReportAndDefer(x) ==
    /\ handler[x] = "returned"
    /\ finish(x, "failed")
    /\ report(x, "asRequest")
    /\ handler' = [handler EXCEPT ![x] = "panicking"]
    /\ UNCHANGED <<point, overBudget, delivered, whole, replay>>

\* The end of forward.  It finishes a recording that the transport never wrote.
ReportReturned(x) ==
    /\ handler[x] = "returned"
    /\ finish(x, "failed")
    /\ report(x, "asRequest")
    /\ handler' = [handler EXCEPT ![x] = "done"]
    /\ UNCHANGED <<point, overBudget, delivered, whole, replay>>

\* Mutant: the report of an aborted response has the request's own context.
PanicUncancelled(x) ==
    /\ handler[x] = "panicking"
    /\ finish(x, "cut")
    /\ report(x, "asRequest")
    /\ handler' = [handler EXCEPT ![x] = "done"]
    /\ UNCHANGED <<point, overBudget, delivered, whole, replay>>

\* The deferred call of forward, as the panic passes.
ReportPanicking(x) ==
    /\ handler[x] = "panicking"
    /\ finish(x, "cut")
    /\ report(x, IF abortCancels(x) THEN "cancelled" ELSE "asRequest")
    /\ handler' = [handler EXCEPT ![x] = "done"]
    /\ UNCHANGED <<point, overBudget, delivered, whole, replay>>

-----------------------------------------------------------------------------
(* The engine, which holds the recording of a reported response.           *)

Held(x) == reports[x] # <<>> /\ reports[x][1][1] = "response" /\ x \notin released

\* A candidate replays an egress recording, including its failure.
RoundTrip(x) ==
    /\ Held(x) /\ point[x] = "egressReference" /\ replay[x] = "none"
    /\ replay' = [replay EXCEPT ![x] = IF result[x] = "complete" THEN "response" ELSE "failure"]
    /\ UNCHANGED <<point, handler, recordingVars, delivered, whole, reports>>

\* The engine is finished with the recording; it may be again.
EngineReleases(x) ==
    /\ reports[x] # <<>> /\ reports[x][1][1] = "response"
    /\ Release(x)
    /\ UNCHANGED <<point, handler, result, overBudget, delivered, whole, reports, replay>>

-----------------------------------------------------------------------------
Sizes == 1 .. MaxBytes

Handle(x) ==
    \/ NoDestination(x) \/ Send(x)
    \/ RoundTripFails(x) \/ TransportNeverRuns(x) \/ StartResponse(x)
    \/ \E n \in Sizes : CopyBytes(x, n)
    \/ BodyEnds(x) \/ BodyBreaks(x) \/ ClientLeaves(x) \/ CopyEnds(x)
    \/ ReportReturned(x) \/ ReportPanicking(x)

\* Every exchange is reported and every recording released.
Quiescent ==
    /\ \A x \in Exchanges : handler[x] = "done" /\ ~Held(x)
    /\ UNCHANGED vars

Next ==
    \/ \E x \in Exchanges : Handle(x) \/ RoundTrip(x) \/ EngineReleases(x)
    \/ Quiescent

Spec == Init /\ [][Next]_vars

\* A handler runs, and its upstream or its client ends the response; the engine
\* releases what it holds.
Fairness ==
    \A x \in Exchanges : WF_vars(Handle(x)) /\ WF_vars(Held(x) /\ EngineReleases(x))

FairSpec == Spec /\ Fairness

-----------------------------------------------------------------------------
(* Properties.                                                             *)

\* Every field of every recording and every handler holds a value of its type.
TypeOK ==
    /\ point \in [Exchanges -> PointKinds]
    /\ handler \in [Exchanges ->
                      {"new", "sending", "copying", "returned", "panicking", "done"}]
    /\ result \in [Exchanges -> {"open", "complete", "failed", "cut"}]
    /\ overBudget \in SUBSET Exchanges
    /\ reserved \in [Exchanges -> 0 .. Limit]
    /\ released \in SUBSET Exchanges
    /\ used \in [Exchanges \cup {Shared} -> 0 .. Limit]
    /\ delivered \in [Exchanges -> 0 .. MaxBytes]
    /\ whole \in SUBSET Exchanges
    /\ reports \in [Exchanges -> Seq({"response", "unable"} \X {"asRequest", "cancelled"})]
    /\ replay \in [Exchanges -> {"none", "response", "failure"}]

\* Every budget is charged for the recorded bodies and for nothing else, although
\* recordings overflow, are released by either side and may be released twice; the rest
\* of the state is well typed.
RecordingConserved ==
    /\ TypeOK
    /\ \A b \in Exchanges \cup {Shared} :
          used[b] = SumFunctionOnSet(reserved, {x \in Exchanges : budget(x) = b})

\* The engine compares and replays only what the upstream really answered: a recording
\* reported as a response holds all of a body that was read to its end, or, at a point
\* that replays failures, a failure; a response over the budget is never reported.
OnlyWholeResponses ==
    \A x \in Exchanges : Held(x) =>
       /\ x \notin overBudget
       /\ result[x] = "complete" => x \in whole /\ reserved[x] = delivered[x]
       /\ result[x] # "complete" => replaysFailures(x)
       /\ replay[x] = "response" => x \in whole

\* abortCancels: a reference response that its own client cut short is reported as
\* cancelled, so it is never a failure that the comparison holds against the candidate.
ClientNotBlamed ==
    \A x \in Exchanges :
       point[x] = "ingressReference" /\ handler[x] = "done" /\ result[x] = "cut" =>
          reports[x] = <<<<"unable", "cancelled">>>>

\* Every exchange's bytes are returned to the budget for good: the engine releases the
\* responses it gets, the handler the recordings it reports as unable.
AllReleased == <>[](\A x \in Exchanges : handler[x] \in {"new", "done"} => reserved[x] = 0)

\* forward reports every exchange exactly once, whether the reverse proxy returns,
\* panics, or never runs its transport.
EveryExchangeReported ==
    \A x \in Exchanges : (handler[x] = "sending") ~> [](Len(reports[x]) = 1)

\* A recording at every moment: the budgets are charged for what is recorded, the engine
\* gets whole responses only, and a client that leaves is not held against the candidate.
RecordingsSound == RecordingConserved /\ OnlyWholeResponses /\ ClientNotBlamed

\* Every exchange is reported once and its bytes are returned for good.
RecordingsEnd == AllReleased /\ EveryExchangeReported

=============================================================================

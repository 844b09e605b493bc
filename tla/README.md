# Verification of SPECTRE

SPECTRE mirrors the traffic of a running service (the *reference*) to its
replacement (the *candidate*).  A request that comes in (*ingress*) goes to both,
and the two responses are compared.  A request that the service sends out
(*egress*) is forwarded only for the reference; the candidate's equal request is
answered with a recording of the reference's response.  The first difference
*quarantines* the candidate: it gets no further traffic, and the reference never
notices.  A mirror reports its state and quarantines to a server.  It runs beside
services that somebody else starts, or under a supervisor that starts both.

This directory holds TLA+ models of that program, the TLC configurations that
check them on small instances, and TLAPS proofs of every safety property of the
concurrent modules for every number of requests, runs and servers.  `PROJECT.json`
maps each definition to the lines it models, and lists the parts of the system and the
hazards of each.

## Parts and modules

| Part | Source under `internal/` | Module |
|---|---|---|
| Egress queue | `protocol/egress.go`, `future` | `EgressQueue`, `EgressShutdown` |
| Ingress pairs | `protocol/ingress.go` | `IngressPairs` |
| Candidate admission | `proxy/candidates.go` | `CandidateRuns` |
| Mirrored bodies, budget | `httpserver/body.go`, `proxy/budget.go` | `StreamBody`, `RequestCapture` |
| Recordings, points | `httpserver/recording.go`, `point.go` | `Points` |
| Ingress handler | `httpserver/ingress.go` | `Mirroring` (composes `CandidateRuns` and `IngressPairs` over `InboundRequests`) |
| Servers, mirror process | `httpserver/serve.go`, `ingress.go`, `egress.go`, `proxies/mirror.go` | `MirrorProcess` |
| Supervisor, cgroups | `supervisor` | `Supervisor` (composes `MirrorProcess`), `ServiceOutput` |
| Stores | `server/storage` | `Store` (abstract), `RedisStore` (detailed) |
| Reporter, state server | `server/reporter`, `server/service.go`, `server/client` | `Reporting` (composes `RedisStore`) |
| Wire format, filters | `server/wire`, `server/filter.go`, `model` | `Wire` |
| Normalisation, differences, hashing | `comparison/internal`, `comparison/scripts.go` | `Normalisation`, `Difference`, `Comparison` |
| Scripts | `comparison/javascript`, `comparison/scripts.go` | `ScriptRules` |
| Schemas | `schema`, `jsonschema`, `descriptors` | `Schema`, `JSONSchema`, `Descriptors` |
| Decoding | `httpserver/message`, `httpserver/codec` | `MessageDecoding`, `Binding` |
| Routes, call counters | `httpserver/route`, `httpserver/ingress.go`, `proxy/calls.go` | `Routes` |
| Addresses | `netaddr`, `httpserver/egress.go`, `ingress.go` | `Addresses` |
| Migration state | `state` | `MigrationState` |

An ingress request is admitted by `CandidateRuns`, paired by `IngressPairs` and
compared by `Comparison` once `MessageDecoding` has read both messages.  An egress
request is hashed by `Comparison` and matched by `EgressQueue`; its body is kept by
`RequestCapture` and its response by `Points`.  Where a concurrent module needs the
result of such an algorithm (a hash, the outcome of a comparison), it takes any
result the algorithm can have, so the two kinds of module are checked apart.

## The concurrent modules

One action is one critical section of a mutex, one command sent to Redis, one
branch of a `select`, or a timer firing: what another goroutine can see.

**EgressQueue.**  References: `Forward` registers the exchange and starts hashing;
`HashFails` abandons it; `AddToWaiter` and `AddToUnused` are the branches of `add`;
`FinishHashing` its deferred call; `ProcessResponse` and `Unable` report the
outcome; `TimerFires`, `Expire` and `AbandonExpired` are the expiry callback.
Candidates: `Arrive` numbers the request; `CandidateHashFails`, `ClaimUnused` and
`ClaimWaits` are the branches of `match` and `claim`; `Receive`, `GiveUp` and `Leave`
the wait of a queued candidate, with its second look after the timeout; `SeeOutcome`
and `SeeCancelled` the wait for the response; `Replay` the copy of the recording and
its release.  `idle` is the number of the last idle channel and `closed` the set of
those closed, so that closing one twice is visible.  `take` and `finish` of a report
are one action: nothing reads `q.exchanges` between the two locks.
**EgressShutdown** adds `egressQueue.shutdown`, which waits outside the lock on the
channel it read under it.

**IngressPairs.**  `Start`, `TakeReference` and `FinishReference` are the reference's
goroutine: the exchange is taken under one lock and its outcome published under
another.  `Join` and `JoinFails` admit a candidate; `CandidateResponse`,
`SeeReference`, `SeeContextDone`, `Compare`, `CandidateUnable` and `FinishCandidate`
are its goroutine; `ContextEnds` its timeout or cancellation.

**CandidateRuns.**  `Admit`, `Refuse` and `ExceedCapacity` are the results of `admit`;
`Finish` ends a run; `Quarantine`, `StartClose`, `CancelRun` and `EndSweep` are the
sweeps that cancel a snapshot of the runs one by one outside the lock;
`ShutdownReturns` is the final `select`; `Receive` the consumer of the notification.

**StreamBody** is the queue of chunks between the reference's upload and its
candidate; a chunk holds positions of the upload, so that lost, repeated or reordered
bytes are visible.  `StartAppend`, `Fill`, `Overflow` and `OverflowCall` are `append`;
`SourceEnds` the tee's report of the end; `ReadWaits`, `Read` and `ReadEnds` the
candidate's transport; `CloseReader` its deferred call.  `used` is the shared budget.
**RequestCapture** is the tee with the egress capture as its sink, read and closed by
two goroutines; the read of the source, the call of the sink and the store of `eof`
are separate actions.

**Points.**  An exchange at one of the three forwarding points.  `NoDestination`,
`Send`, `RoundTripFails`, `StartResponse`, `CopyBytes`, `BodyEnds`, `BodyBreaks` and
`ClientLeaves` are the reverse proxy with the recording transport; `ReportReturned`
and `ReportPanicking` the two ends of `forward`; `RoundTrip` and `EngineReleases` what
the engine does with a response.

**Mirroring.**  `Accept`, `PassThrough`, `StartRun`, `RunRefused`, `CapacityExceeded`,
`StartPair`, `JoinPair` and `Respond` are `serveProxy` in its order;
`CandidateGoroutine` and `FinishRun` the goroutine it starts.  A quarantine that the
engine calls happens in the same step in `CandidateRuns`, and a sweep there ends the
candidate's context in `IngressPairs`.

**MirrorProcess.**  The main goroutine (`StartServer`, `SkipHealth`, `StartFails`,
`WaitEnds`, `Drain`), a `Serve` call per server (`StartBindings`, `LifecycleStart`,
`Cancelled` or `ListenerFails`, `ShutDown`, `Exit`) and ingress's `awaitBackends`
(`AwaitReference`, `SetDecoder`, `CheckContext`, `SetReady`, `CandidateAccepts`,
`CandidateMissing`).

**Supervisor.**  `SetupLimits`, `MirrorStarted`, `StartProcess`, `AwaitAccepting`,
`LaunchFails`, `Place`, `WaitForExit`, `CancelRun`, `DrainComponents` and
`CleanupLimits` are `Supervisor.Run`; `Terminate` and `Reap` the end of a process
group; `MirrorMain` and `MirrorServes` the steps of the mirror, whose context is the
supervisor's.  `run = "proxy"` is the mirror without a supervisor.  `group` holds the
services that have a process which was not sent SIGKILL: a signal that was sent to a
whole process group is taken to end it, although `Reap` waits for its leader only, so a
cgroup may still be busy when it is removed, and the removal fails.  `SetupLimits` may
fail after some cgroups were made.

**Store, RedisStore.**  `Store` is what the interface promises and what the in-memory
store does in one critical section per operation.  `RedisStore` has one action per
command: `ReadWatched`, `Exec` and `RetryRecord` are `Record`; `ReadStates` and
`ForgetIfUnchanged` are `States`; `ClearFields` is `Clear`.  A write to a watched hash
breaks the watches (`Touched`).

**Reporting.**  The reporter's `select` (`OpenStream`, `SendKeepalive`,
`SendQuarantine`, `CloseAged`, `Retry`), the stream handler (`Receive`, `PutState`,
`RecordNext`), `ClearDivergences`, which reads the clock before it calls the store,
and `ListStates`.  `Break`, `StoreFails` and `Restart` are the faults: a broken
stream's handler works on beside that of the next stream.  `history` is a ghost: the
times at which each proxy of the mirror was quarantined, in this process or an earlier
one.

## The algorithms

Each module has the code's functions as operators and states what they are for in
other terms, often a brute-force definition.

* `MigrationState.StateFileExact`: a state file is refused exactly when it departs
  from the format, has a bad dependency, a cycle, or a key used twice; the problems
  are in the order of their lines.
* `Routes`: the route found is the most specific pattern of the request's own method,
  and one is found unless a `GET` pattern with a host hides it (`MatchExact`); a
  rule list cut short for a request decides as the whole list (`ResponsesExact`);
  every call is counted once (`CallsConserved`); a request has one owner
  (`RoutesOwned`).
* `Normalisation.NormalisesInsideOut`: applying normalisers at paths collected in
  advance is the same as rewriting the payload recursively, with no paths.  (The code's
  `sort.SliceStable` is modelled as a stable insertion sort: both give the one stable
  order.)
  `TargetsReach`: the targets accepted are those some payload has.
* `Difference.ReportExact`: the reported places are exactly the places that differ,
  or the report says that it is cut short.  `Comparison.HashAgreesWithCompare`:
  ingress and egress agree on which payloads are the same.
* `Schema`: validation accepts the values a type denotes (`ValidateExact`), equality
  is equality of those sets (`EqualExact`), and reading a program finds every type
  that is referred to (`ReadsClosed`).
* `ScriptRules`: the chosen rule is the one the declared selectors name
  (`RulesDecide`), later evaluations cannot change it, and type arguments are
  inserted in their places (`ArgumentsInPlace`); only `match` of an ingress rule may
  name the type `Text`.
* `MessageDecoding`, `Binding`: different messages have different contents
  (`ContentsTell`), unknown fields are found in single fields, lists and maps at any
  depth outside groups (`UnknownFound`; for groups see `UnknownRefused` below), a
  parameter never overwrites another (`BindsOnce`), and a decoded request conforms to
  its type (`RequestsConform`).
* `Wire`: what is accepted is restored exactly (`AcceptedRestored`,
  `ReportRestored`), and a list has exactly the states and divergences that its filter
  selects, each once, and of states only those that have not expired (`FiltersExact`).
* `Addresses`: a backend that reaches the listener is refused however it is written
  (`LoopsFound`, `SpellingsAlike`), the two backends are not one server
  (`BackendsApart`), and egress never forwards to itself (`NothingLoops`), where what
  an address reaches is defined by the addresses that are bound and dialled.  The
  exceptions are named in the properties: unspecified addresses and `localhost`, below.
* `Descriptors`, `JSONSchema`: the rendered types accept what ProtoJSON or the schema
  accepts (`DeclaresPayloads`, `DeclaresSchemas`), changed declarations are refused
  (`ChangesRefused`), and merging does not depend on order (`MergeOrderless`).
* `ServiceOutput`: the log is the output, in order and in bounded lines, however it
  is chunked (`OutputIntact`); the split memory adds up (`SplitWhole`).

## What the runs check

| Run | Instance | Shows |
|---|---|---|
| `egress_queue` | 3 requests of 2 references and 2 candidates, 1 hash | the inductive invariant with exclusion, arrival order, delivery and fail-closed; one-to-one pairing; no release in use; no missed match; every recording is released and every candidate answered |
| `ingress_pairs` | 2 pairs, 2 protocols, 2 joins | no release in use, no leak, fail closed, justified verdicts, every joined candidate finishes |
| `exchanges` | `Points`: 2 exchanges, up to 3 bytes, budget 2; `CandidateRuns`: 3 runs, limit 2, 2 reasons | exactly one report per exchange, only whole responses, an abort of the client is no fault, every recording released; the limit on runs, idle closed exactly at zero, no run escapes a quarantine, one notification; exceeding the limit quarantines |
| `bodies` | `StreamBody`: 2 bodies of up to 4 bytes, blocks of 2, budget 5; `RequestCapture`: up to 5 bytes, limit 3 | the bytes arrive, the budget balances, abort before error; an overflow quarantines; every reader ends; the hashed body is whole or an error, and comes |
| `mirroring` | 2 requests, 1 request slot, 1 candidate run | joins never fail, runs cover candidates, nothing left, quarantine reaches all; the reference never waits; every run finishes |
| `supervisor` | the mirror alone, with and without reflection, and 2 services with limits | nothing outlives the command and drains are exact; start order and readiness; everything stops together; mirroring starts |
| `reporting` | 1 mirror, 2 stream handlers, 1 list, 1 clear, 1 fault, 2 times | Redis refines the abstract store; decisions hold at `EXEC`; the server invents no quarantine; quarantines are recorded and states catch up |
| `algorithms` | 164,000 inputs | the algorithms above |
| `clear_order` | 2 clears, 2 handlers, 3 times | violated: see below |
| `mirror_early_request` | 3 servers | violated: see below |
| `hostless_routes` | maps of patterns with and without a host | violated: see below |
| `unknown_in_group` | protobuf messages of nested fields | violated: see below |

A run checks a component's module with the constants of its configuration.
`MCEgressQueue` bounds how many requests arrive; `MCExchanges` and `MCBodies` each
check two modules that share no variable, exploring one while the other is at rest, so
that every behaviour of either is seen without their product; `MCMirroring` fixes the order in which requests arrive;
`MCReporting` adds the reports within its bounds; and `MCAlgorithms` (with
`MCDeclarations`, `MCMessages` and `MCComparison`) the inputs of the algorithms.

The type invariant of a module is a conjunct of its main invariant (`Consistent`,
`RunsSound`, `PairsSound`, `BodiesSound`, `RecordingsSound`, `HashesWholeBody`,
`RequestsSound`, `ServicesContained`, `ServerSound`).

Four runs show where the code departs from what the repository says of it.

* `clear_order`: `Clear` stores the time it is given, in both stores, even if it is
  older than the one stored.  The server reads its clock before it calls the store, so
  of two concurrent clears the older may be stored last, and a quarantine that began
  between the two is listed again when it is next reported.  `storage.go` says that
  `Record` ignores a divergence whose environment "was cleared after it began".
* `mirror_early_request`: `Serve` starts its listeners before `lifecycle.start` sets
  `awaitingCandidate`.  A request that is accepted in between is mirrored, although
  CONTRIBUTING.md says that ingress "mirrors nothing until the candidate first accepts
  a connection".
* `hostless_routes`: `Map.Match` asks a `ServeMux`, which prefers a pattern with the
  request's host and lets `GET` serve `HEAD`, and then drops an answer that is a `GET`
  pattern.  Beside `GET h/...`, a `HEAD` request to `h` does not find `HEAD /...`; in
  ingress it is unlisted, which quarantines the candidate.  `route.go` says that "A
  pattern without a host matches every host."
* `unknown_in_group`: `containsUnknown` looks into fields of `MessageKind` only.  An
  unknown field inside a group (or a field with delimited encoding) is dropped, and two
  messages that differ in it compare equal, although the check is there because
  "ProtoJSON silently discards unknown wire fields, which could hide divergence".

Observations made while modelling, for which there is no run:

* `configureSchema` (`ingress.go:472`) checks its context and then sets readiness, in a
  goroutine that `Serve` does not wait for, so `/readyz` can succeed after `Serve` has
  returned.
* The cap on differences is tested only where two values are compared
  (`diff.go:50`); missing and added list items and keys are recorded without it, so a
  report may hold more than `maxDifferences`, although `diff.go:13` says that it
  "bounds both result size and work".
* When `setupLimits` fails after `createLeaf` has made a cgroup, `Run` returns without
  the cleanup that it would otherwise do, because `s.limits` is set only at the end
  (`supervisor.go:152`), and the cgroup stays; `NothingOutlives` names this exception.
* `localhost` and `127.0.0.1` count as different destinations, so a reference and a
  candidate that are one service under these two names are accepted, although
  `ingress.go:226` says that they "must be different".
* `TargetsListener` takes an unspecified backend address (`0.0.0.0`, which dials this
  machine) and an unspecified listener that is written as a mapped IPv6 address for
  addresses like any other, so a backend that loops back to the listener through one of
  these is accepted (`netaddr.go:256`).

### Bounds

Three requests of one hash, out of two references and two candidates, are the least in
which two candidates compete for one reference, a waiter times out beside a delivery, an
unused reference expires while its twin is claimed, and hashes end out of order; all
larger instances are covered by the proofs.  References are interchangeable, and so are
candidates, so one of each is the first to arrive.  Different hashes touch different
queues and meet only in the counters.  A third
run over a limit of two lets one exceed while another is admitted or finishes; runs are
interchangeable too.  Two joins
per pair are the first and one refused.  A body of four bytes in blocks of two has full,
shared and partial chunks, and two of them exceed the budget at every point of an append;
a capture limit of three is met exactly, passed in one read and passed in two.  Two
requests with one candidate run are the least that exceed the limit while a candidate is
in flight; requests are interchangeable, so only one order of their arrival is explored,
and the capacity reason is that of an unlisted route, because no property tells reasons
apart.  In `supervisor`, `Reflected` and `Limited` bound the configurations of
supervised runs; the mirror alone has both settings of reflection.  In `reporting`,
`MaxTime` bounds the clock, `MaxFaults` the faults and `MaxInFlight` the messages in a
stream; one fault with a second handler is enough for two streams of one mirror to
overlap.  In `algorithms`, inputs are built from the shapes that a branch of the code
tells apart: graphs of three nodes, maps of three patterns, payloads nested twice, lists
of up to three elements, and a cap of two differences.

### Fairness

A goroutine that can run does run, a set timer fires, and a context with a deadline
ends.  Nothing is assumed of the reference service or of when clients call, except that
the transport reports every forwarded request in `egress_queue`, because its deferred
report runs whatever the response; that a round trip
returns at all is an assumption on the transport, which is outside the model.  In `mirroring` only handlers are fair: candidates,
sweeps and shutdown may hang; `RunsFinish` alone assumes, inside the property, that
candidate goroutines run and that their timeout passes.  In `supervisor` the program
runs on and a service's process ends after it is terminated; nothing makes the caller
signal, a service listen or a listener fail.  In `exchanges` a cancelled run ends,
because its handler returns once its context stops it.  In `reporting`, sending a
quarantine is strongly fair: it is one ready case of a `select` that is entered again and
again, and Go chooses among the ready ones at random.  Symmetry is not used, because TLC's
liveness checking does not support it.

## What is proved

Every invariant, refinement and action property that a passing run of a concurrent
module checks is also a theorem.  The run shows it on a small instance, the theorem for
all values of the constants that satisfy the named assumptions, which TLC evaluates in
the runs.

| Module | Theorem | For every | Assumes |
|---|---|---|---|
| `EgressQueueProofs` | `Consistency`, and from it `Pairing`, `Replays`, `Exclusion`, `Order`, `NothingStranded`, `FailsClosed`, `Idleness`, `TypeCorrect` and the action property `NoMatchIsMissed` | references, candidates, hashes | `RequestsAssumption` |
| | `ShutdownIsSafe`: `shutdown` returns nil only when every hash in progress at its call has ended | | |
| `MirroringProofs` | `PairsAreSound`, and the action property `VerdictsAreJustified` | requests, protocols, joins | `PairsAssumption` |
| | `RunsAreSound` | requests, limit, reasons | `RunsAssumption` |
| | `RequestsAreSound` | requests, slots, runs | these and `MirroringAssumption`, `KindsAssumption` |
| `RecordingProofs` | `RecordingsAreSound` | exchanges, budgets, sizes | `PointsAssumption` |
| `BodyProofs` | `BodiesAreSound` | bodies, block size, budget, sizes | `BodiesAssumption` |
| | `BodiesAreHashedWhole` | limit and size of the upload | `CaptureAssumption` |
| `ReportingProofs` | `RedisIsAtomic`, with `WatchesHold`: `RedisStore` implements `Store` | servers, mirrors, reports | `StoreAssumption` |
| | `ServersAreSound`, `ReportingIsAtomic`: so do reporters and servers that use it | handlers, times, faults | also `ReportingAssumption` |
| `SupervisorProofs` | `ServicesAreContained`, `StartsAreOrdered` | configurations | `ConfigAssumption` |

The assumptions say that sets of requests, exchanges and bodies are finite, that limits
are natural numbers (positive for block sizes and the number of runs), and that the marks
for "none" are not among the values they stand beside.  `ShutdownIsSafe` has no run: with
`shutdown` beside the queue, TLC needs more time than a run should take.

None of the properties is inductive as it stands.  The inductive invariants are these.

* `Consistent` (`EgressQueue`).  That a delivery never blocks needs that a queued
  waiter's channel is empty; that a reference is claimed once needs that every queued
  reference is unclaimed, unexpired and in one place; that releases are safe needs the
  phase of both the exchange and its candidate.  `Consistent` is the conjunction of the
  properties with these links.  `WaitSound` adds that a channel that was replaced while
  `shutdown` waits on it is closed, and that none closes while an awaited hash goes on.
* `PairsInvariant` says of each pair which maps and flags of the engine hold it, and what
  its verdict rests on, given how far both of its goroutines are.  `RunsInvariant` adds to
  the properties of `CandidateRuns` that idle channels are made in order and that the
  notification is in its channel, or was received, exactly once; the limit on runs is
  kept apart (`WithinLimit`), because it alone needs facts on finite sets.
* `MirroringInvariant` is both, with how the handler, the run and the pair of a request
  fit together (`Links`) and what the sweeps have done (`Swept`).  Every step of the
  composition is shown to be a step of each component (`PairStep`, `RunStep`), so their
  invariants carry over and only the links remain.
* `RecordingsLinked`: each budget is the sum of what its own exchanges reserve.
  `BodiesLinked`: the chunks of a queue follow one another and go on where the reader is,
  and the budget is the sum of what the bodies have allocated.  Both rest on facts on sums
  over finite sets (`SumFacts`), proved in `RecordingProofs` from the recursion that the
  sum computes, by least counterexamples, and taken over at the end of `BodyProofs`.
  `CaptureInvariant`: until the body is captured, the sink has the first bytes of what it
  was told, and an end of the upload that the tee saw or passed on is its end.
* `RedisInv`: what a `Record` call decided from is unchanged unless its watch is broken,
  and what a `States` call found stale was received before its time.  `Timely`: no message,
  state or clear carries a time that has not come, so what the servers send to the store
  are commands of `RedisStore`; and every quarantine in a message or a handler did begin
  then, which `StoreGenuine` carries on to what is stored.
* `SupervisorInvariant`: the supervisor and the mirror each count what they have started,
  one for each part that runs and one for each exit not yet received (`MirrorCounts`,
  `RunCounts`), with what has been started, configured and accepted given how far each
  goroutine is.  That the counts are the cardinalities in the properties follows from the
  definition of `Cardinality` for sets of three elements (`CountsThree`).

The proofs have one lemma per action or group of actions, with a step per conjunct that
the action can disturb.  `EgressQueueClaims` has the facts on queues as sequences and a
candidate's steps up to its claim, `EgressQueueSteps` the steps after it and those that
fill a queue, `EgressQueueProofs` the other steps and the theorems.  `BodyProofs` takes
only `SumFacts` from `RecordingProofs`; the other proof modules stand alone.

Only model-checked:

* Liveness (`ExchangesEnd`, `CapacityQuarantines`, `CandidatesFinish`,
  `OverflowQuarantines`, `ReaderEnds`, `RecordingsEnd`, `HashingEnds`,
  `ReferenceNeverWaits`, `RunsFinish`, `StopsTogether`, `MirroringStarts`,
  `QuarantinesRecorded`, `StateCatchesUp`): fairness and `ENABLED` are out of the prover's
  reach.
* The algorithms: what their recursive definitions compute would need induction over data,
  which the prover cannot do.

## Not modelled

* The bytes of messages, and the libraries that read them: JSON, protobuf, TOML, the
  TypeScript compiler and the JavaScript engine appear as what the code gets from them.
  What a recursive schema or a script computes is a bounded or given answer.
* `net/http`: connections, header copying, its transports and its own shutdown, which is
  one step.
* Wording: log lines, problem texts, command-line output, rendered declarations.
* Kernel interfaces: the seccomp filter, namespaces, and the values written to cgroup
  files.  Only which cgroups exist, and who is in them, is modelled.
* The egress handlers composed with `EgressQueue` and `CandidateRuns`: the product of
  the three has more states than TLC can enumerate at a size where they interact.
* Names are not resolved: what a host name other than `localhost` reaches is not known.
  Failures of the supervisor's own output.
* Flag parsing, default values, the protocol engine's constructor, scaffolding, the
  sample service, generated code and the repository's linters: they have no state.

------------------------------ MODULE Reporting ------------------------------
(***************************************************************************)
(* How a mirror reports to the SPECTRE server: the reporter streams its    *)
(* state (internal/server/reporter/reporter.go, client/client.go), each    *)
(* stream is handled by some server (internal/server/service.go) and kept  *)
(* in the store that all servers share (RedisStore).  Streams break, a     *)
(* broken stream's handler works on beside that of the next stream, store  *)
(* commands fail, and the mirror is restarted.                             *)
(*                                                                         *)
(* One mirror is modelled.  A step of the reporter is one case of its      *)
(* select; a step of a handler ends at its next call of the store.  A      *)
(* state is its quarantines: uptime, call counts and the length of the     *)
(* retry delay are left out.                                               *)
(***************************************************************************)
EXTENDS RedisStore, Sequences

CONSTANTS
    Mirror,       \* the service environment
    Clears,       \* calls of ClearDivergences
    MaxTime,      \* bound: readings of the clock
    MaxInFlight,  \* bound: messages in flight when a keepalive is sent
    MaxFaults     \* bound: broken streams, failed store commands and restarts

ASSUME ReportingAssumption ==
    /\ Mirror \in Mirrors
    /\ 1 \in Handlers
    /\ MaxTime \in Nat \ {0}
    /\ [Directions -> 0 .. MaxTime] \subseteq Reports

VARIABLES
    began,     \* when each proxy's quarantine began, 0 before
    history,   \* every value began has had, those before a restart included
    channel,   \* the channel quarantines of Run
    reported,  \* r.quarantines
    reporter,  \* the goroutine of Run
    current,   \* the stream it uses
    conn,      \* each stream: the client's end and the messages in flight
    handler,   \* the Update call of each stream
    clear,     \* the calls of ClearDivergences
    faults     \* faults so far

mirrorVars == <<began, history, channel, reported, reporter, current>>
streamVars == <<conn, handler>>
envVars == <<clear, faults>>
redisVars == <<now, storeVars, callVars>>
vars == <<redisVars, mirrorVars, streamVars, envVars>>

NoQuarantines == [d \in Directions |-> 0]

\* A stream that nobody uses, and the handler of none.
NoConn == [client |-> "none", messages |-> <<>>]
NoHandler == [phase |-> "none", state |-> Forgotten, todo |-> {}, received |-> 0]

Init ==
    /\ RedisInit
    /\ began = NoQuarantines
    /\ history = [d \in Directions |-> {0}]
    /\ channel = {}
    /\ reported = NoQuarantines
    /\ reporter = "opening"
    /\ current = 1
    /\ conn = [s \in Handlers |-> NoConn]
    /\ handler = [s \in Handlers |-> NoHandler]
    /\ clear = [c \in Clears |-> [phase |-> "none", at |-> 0]]
    /\ faults = 0

-----------------------------------------------------------------------------
(* The mirror.                                                             *)

\* A proxy quarantines its candidate, and forward passes that on.
Quarantine(d) ==
    /\ began[d] = 0
    /\ began' = [began EXCEPT ![d] = now]
    /\ history' = [history EXCEPT ![d] = @ \cup {now}]
    /\ channel' = channel \cup {d}
    /\ UNCHANGED <<redisVars, reported, reporter, current, streamVars, envVars>>

\* The messages of wire.UpdateMessage.
StateMessage == [kind |-> "state", state |-> reported]
QuarantineMessage(d) == [kind |-> "quarantine", direction |-> d, since |-> began[d]]
Keepalive == [kind |-> "keepalive"]

\* Neither end uses the stream, so that its number is free for the next one.
Free(s) == conn[s].client \in {"none", "lost"} /\ handler[s].phase \in {"none", "ended", "failed"}

\* The stream reaches a handler that still receives.
Live(s) == conn[s].client = "open" /\ handler[s].phase \notin {"ended", "failed"}

\* Send succeeds on a broken stream until the client knows that it is broken.
Send(message) ==
    conn' = IF Live(current) THEN [conn EXCEPT ![current].messages = Append(@, message)] ELSE conn

\* stream opens on some server and sends the whole state.
OpenStream(s) ==
    /\ reporter = "opening"
    /\ Free(s) /\ \A t \in Handlers : t < s => ~Free(t)
    /\ conn' = [conn EXCEPT ![s] = [client |-> "open", messages |-> <<StateMessage>>]]
    /\ handler' = [handler EXCEPT ![s] = [NoHandler EXCEPT !.phase = "receive"]]
    /\ reporter' = "streaming"
    /\ current' = s
    /\ UNCHANGED <<redisVars, began, history, channel, reported, envVars>>

OpenFails ==
    /\ reporter = "opening"
    /\ faults < MaxFaults
    /\ faults' = faults + 1
    /\ reporter' = "retrying"
    /\ UNCHANGED <<redisVars, began, history, channel, reported, current, streamVars, clear>>

\* The keepalive timer: changed call counts or a keepalive, which the handler treats alike.
SendKeepalive ==
    /\ reporter = "streaming"
    /\ Len(conn[current].messages) < MaxInFlight
    /\ Send(Keepalive)
    /\ UNCHANGED <<redisVars, began, history, channel, reported, reporter, current, handler, envVars>>

\* Mutant: the quarantine is kept only once it has been sent.
SendQuarantineUnrecorded(d) ==
    /\ reporter = "streaming"
    /\ d \in channel
    /\ channel' = channel \ {d}
    /\ reported' = IF Live(current) THEN [reported EXCEPT ![d] = began[d]] ELSE reported
    /\ Send(QuarantineMessage(d))
    /\ UNCHANGED <<redisVars, began, history, reporter, current, handler, envVars>>

\* The quarantine is recorded first, then sent.
SendQuarantine(d) ==
    /\ reporter = "streaming"
    /\ d \in channel
    /\ channel' = channel \ {d}
    /\ reported' = [reported EXCEPT ![d] = began[d]]
    /\ Send(QuarantineMessage(d))
    /\ UNCHANGED <<redisVars, began, history, reporter, current, handler, envVars>>

\* A send fails on a broken stream, and failed closes it.
SendFails ==
    /\ reporter = "streaming"
    /\ ~Live(current)
    /\ conn' = [conn EXCEPT ![current].client = "lost"]
    /\ reporter' = "retrying"
    /\ UNCHANGED <<redisVars, began, history, channel, reported, current, handler, envVars>>

\* The age timer: CloseAndReceive closes the client's end and waits for the handler.
CloseAged ==
    /\ reporter = "streaming"
    /\ reporter' = "closing"
    /\ conn' = [conn EXCEPT ![current].client = IF @ = "open" THEN "closed" ELSE @]
    /\ UNCHANGED <<redisVars, began, history, channel, reported, current, handler, envVars>>

\* The server accepts it closing, or ended it with an error.
Closed ==
    /\ reporter = "closing"
    /\ conn[current].client = "lost" \/ handler[current].phase \in {"ended", "failed"}
    /\ reporter' = IF handler[current].phase = "ended" THEN "opening" ELSE "retrying"
    /\ conn' = [conn EXCEPT ![current].client = "lost"]
    /\ UNCHANGED <<redisVars, began, history, channel, reported, current, handler, envVars>>

\* The retry delay passes.
Retry ==
    /\ reporter = "retrying"
    /\ reporter' = "opening"
    /\ UNCHANGED <<redisVars, began, history, channel, reported, current, streamVars, envVars>>

-----------------------------------------------------------------------------
(* The environment.                                                        *)

\* The connection of a stream breaks; what is in flight may still arrive.
Break(s) ==
    /\ conn[s].client \in {"open", "closed"}
    /\ faults < MaxFaults
    /\ faults' = faults + 1
    /\ conn' = [conn EXCEPT ![s].client = "lost"]
    /\ UNCHANGED <<redisVars, mirrorVars, handler, clear>>

\* The mirror's process is replaced: its memory is lost, its stream breaks.
Restart ==
    /\ faults < MaxFaults
    /\ faults' = faults + 1
    /\ began' = NoQuarantines
    /\ channel' = {}
    /\ reported' = NoQuarantines
    /\ reporter' = "opening"
    /\ conn' = [conn EXCEPT ![current].client = IF @ = "none" THEN @ ELSE "lost"]
    /\ UNCHANGED <<redisVars, history, current, handler, clear>>

Time ==
    /\ now < MaxTime
    /\ Tick
    /\ UNCHANGED <<callVars, mirrorVars, streamVars, envVars>>

-----------------------------------------------------------------------------
(* Update.                                                                 *)

\* Mutant: a quarantine begins when the server hears of it.
nextStateArrived(state, message) ==
    CASE message.kind = "state" -> message.state
      [] message.kind # "state" /\ state = Forgotten -> Forgotten
      [] message.kind = "quarantine" /\ state # Forgotten -> [state EXCEPT ![message.direction] = now]
      [] OTHER -> state

\* nextState applies a message to the state that the stream has built.
nextState(state, message) ==
    CASE message.kind = "state" -> message.state
      [] message.kind # "state" /\ state = Forgotten -> Forgotten
      [] message.kind = "quarantine" /\ state # Forgotten ->
            [state EXCEPT ![message.direction] = message.since]
      [] OTHER -> state

\* recordQuarantines follows a state or a quarantine, not a keepalive or call counts.
ToRecord(state, message) ==
    {d \in Directions : message.kind \in {"state", "quarantine"} /\ state[d] # 0}

\* Receive and nextState; a stream that does not begin with a state is refused.
Receive(s) ==
    /\ handler[s].phase = "receive"
    /\ conn[s].messages # <<>>
    /\ LET message == Head(conn[s].messages)
           state == nextState(handler[s].state, message)
       IN  handler' = [handler EXCEPT ![s] =
                          IF state = Forgotten THEN [NoHandler EXCEPT !.phase = "failed"]
                          ELSE [phase |-> "put", state |-> state, todo |-> ToRecord(state, message),
                                received |-> now]]
    /\ conn' = [conn EXCEPT ![s].messages = Tail(@)]
    /\ UNCHANGED <<redisVars, mirrorVars, envVars>>

\* Receive returns io.EOF once the client has closed, or the error of a broken stream.
ReceiveEnds(s) ==
    /\ handler[s].phase = "receive"
    /\ \/ conn[s].client = "closed" /\ conn[s].messages = <<>>
       \/ conn[s].client = "lost"
    /\ handler' = [handler EXCEPT ![s] =
                      [NoHandler EXCEPT !.phase = IF conn[s].client = "closed" THEN "ended" ELSE "failed"]]
    /\ conn' = [conn EXCEPT ![s].messages = <<>>]
    /\ UNCHANGED <<redisVars, mirrorVars, envVars>>

\* Mutant: only a whole state is stored.
PutFirstState(s) ==
    /\ handler[s].phase = "put"
    /\ IF states[Mirror] = Forgotten THEN PutField(Mirror, handler[s].state, handler[s].received)
       ELSE UNCHANGED redisVars
    /\ handler' = [handler EXCEPT ![s].phase = "record", ![s].received = 0]
    /\ UNCHANGED <<mirrorVars, conn, envVars>>

PutState(s) ==
    /\ handler[s].phase = "put"
    /\ PutField(Mirror, handler[s].state, handler[s].received)
    /\ handler' = [handler EXCEPT ![s].phase = "record", ![s].received = 0]
    /\ UNCHANGED <<mirrorVars, conn, envVars>>

\* recordQuarantines calls Record for each direction in turn.
RecordNext(s) ==
    /\ handler[s].phase = "record" /\ record[s] = NoRecord
    /\ \/ /\ handler[s].todo = {}
          /\ handler' = [handler EXCEPT ![s].phase = "receive"]
          /\ UNCHANGED redisVars
       \/ \E d \in handler[s].todo :
             /\ ReadWatched(s, Mirror, d, handler[s].state[d])
             /\ handler' = [handler EXCEPT ![s].todo = @ \ {d}]
    /\ UNCHANGED <<mirrorVars, conn, envVars>>

RecordEnds(s) ==
    /\ Exec(s) \/ RetryRecord(s)
    /\ UNCHANGED <<mirrorVars, streamVars, envVars>>

\* A command of Put or Record fails, which ends the stream with an error.
StoreFails(s) ==
    /\ faults < MaxFaults
    /\ faults' = faults + 1
    /\ handler[s].phase \in {"put", "record"}
    /\ RecordFails(s)
    /\ handler' = [handler EXCEPT ![s] = [NoHandler EXCEPT !.phase = "failed"]]
    /\ UNCHANGED <<mirrorVars, conn, clear>>

-----------------------------------------------------------------------------
(* ClearDivergences and ListDivergences.                                   *)

\* The handler reads the clock before it calls the store.
ReadClock(c) ==
    /\ clear[c].phase = "none"
    /\ clear' = [clear EXCEPT ![c] = [phase |-> "clearing", at |-> now]]
    /\ UNCHANGED <<redisVars, mirrorVars, streamVars, faults>>

ClearDivergences(c) ==
    /\ clear[c].phase = "clearing"
    /\ ClearFields(Mirror, clear[c].at)
    /\ clear' = [clear EXCEPT ![c].phase = "done"]
    /\ UNCHANGED <<mirrorVars, streamVars, faults>>

ListStates(h) ==
    /\ \/ ReadStates(h)
       \/ \E m \in Mirrors : ForgetIfUnchanged(h, m)
       \/ StatesFails(h)
    /\ UNCHANGED <<mirrorVars, streamVars, envVars>>

-----------------------------------------------------------------------------
ReporterStep ==
    \/ \E s \in Handlers : OpenStream(s)
    \/ SendFails
    \/ Closed
    \/ Retry

HandlerStep(s) ==
    \/ Receive(s)
    \/ ReceiveEnds(s)
    \/ PutState(s)
    \/ RecordNext(s)
    \/ RecordEnds(s)

Next ==
    \/ \E d \in Directions : Quarantine(d)
    \/ ReporterStep
    \/ OpenFails
    \/ SendKeepalive
    \/ \E d \in Directions : SendQuarantine(d)
    \/ CloseAged
    \/ \E s \in Handlers : Break(s) \/ HandlerStep(s) \/ StoreFails(s)
    \/ \E h \in Listers : ListStates(h)
    \/ \E c \in Clears : ReadClock(c) \/ ClearDivergences(c)
    \/ Restart
    \/ Time

Spec == Init /\ [][Next]_vars

\* Goroutines run on, timers fire, the select of stream chooses among ready cases at
\* random.  Nothing makes a stream break or a client clear or list.
FairSpec ==
    /\ Spec
    /\ WF_vars(ReporterStep)
    /\ WF_vars(SendKeepalive)
    /\ WF_vars(CloseAged)
    /\ \A d \in Directions : SF_vars(SendQuarantine(d))
    /\ \A s \in Handlers : WF_vars(HandlerStep(s))

-----------------------------------------------------------------------------
(* Properties.                                                             *)

Messages ==
    [kind : {"state"}, state : Reports]
        \cup [kind : {"quarantine"}, direction : Directions, since : 1 .. MaxTime]
        \cup {Keepalive}

\* The variables of the mirror and the servers have their types.
TypeOK ==
    /\ began \in [Directions -> 0 .. MaxTime]
    /\ reported \in [Directions -> 0 .. MaxTime]
    /\ channel \subseteq Directions
    /\ reporter \in {"opening", "streaming", "closing", "retrying"}
    /\ \A s \in Handlers :
          /\ conn[s].client \in {"none", "open", "closed", "lost"}
          /\ \A i \in DOMAIN conn[s].messages : conn[s].messages[i] \in Messages
          /\ handler[s].phase \in {"none", "receive", "put", "record", "ended", "failed"}

\* A state of which every quarantine began when it says, in this process of the mirror or
\* in an earlier one.
Genuine(state) == \A d \in Directions : state[d] \in history[d]

\* The server invents nothing: whatever is in flight, applied by a handler, even that of a
\* broken stream, stored or listed names only quarantines that a proxy of the mirror did
\* enter at that time.
NothingInvented ==
    /\ \A s \in Handlers :
          /\ \A i \in DOMAIN conn[s].messages :
                LET message == conn[s].messages[i]
                IN  /\ message.kind = "state" => Genuine(message.state)
                    /\ message.kind = "quarantine" => message.since \in history[message.direction]
          /\ handler[s].state # Forgotten => Genuine(handler[s].state)
    /\ states[Mirror] # Forgotten => Genuine(states[Mirror].state)
    /\ Genuine(divergences[Mirror])

\* Under broken streams whose handlers still record, clears, failed commands and restarts,
\* every watched Record call decides as it read (RedisStore), and the server invents nothing.
ServerSound == TypeOK /\ WatchHolds /\ NothingInvented

\* A quarantine is settled once the server lists it or a later one of its source, or has
\* been told to clear those that began by then.
Settled(d) == divergences[Mirror][d] >= began[d] \/ cleared[Mirror] >= began[d]

\* Whatever streams and store commands fail in between, the quarantines that a mirror
\* holds end up in the store of the server and stay there: reporter.go, "a stream may fail
\* at any time without losing state".  A clear that read the clock before a quarantine
\* began may still delete it; the next stream records it again.
QuarantinesRecorded == <>[](\A d \in Directions : began[d] # 0 => Settled(d))

\* The state that the server stores becomes what the mirror holds and stays so, although
\* the handler of a broken stream may store an older state after a newer one.
StateCatchesUp ==
    <>[](states[Mirror] # Forgotten /\ states[Mirror].state = reported)

\* storage.go: Record keeps a divergence "unless its source has already reported a later
\* quarantine, or its service environment was cleared after it began".  Of two clears,
\* the older may be stored last.
ClearedStaysCleared ==
    \A c \in Clears : clear[c].phase = "done" =>
        \A d \in Directions : divergences[Mirror][d] \in {0} \cup clear[c].at .. MaxTime

=============================================================================

---------------------------- MODULE CandidateRuns ----------------------------
(***************************************************************************)
(* Admission of candidate work (internal/proxy/candidates.go): request     *)
(* handlers Start and Finish runs while quarantine and shutdown refuse     *)
(* further runs and cancel the active ones.                                *)
(*                                                                         *)
(* One action is one critical section of c.mu, one call of a run's cancel  *)
(* function, or one receive.  The cancel functions are called outside      *)
(* c.mu from a snapshot of the runs, one by one, by three sweeps: the      *)
(* goroutine of Quarantine, Close and Shutdown.                            *)
(***************************************************************************)
EXTENDS Integers, FiniteSets, Sequences, InboundRequests

CONSTANTS
    MaxInFlight,  \* maxInFlight
    Reasons,      \* reasons that callers of Quarantine give
    Capacity,     \* the reason that Start gives
    None          \* no quarantine

ASSUME RunsAssumption ==
    /\ IsFiniteSet(Requests)
    /\ MaxInFlight \in Nat \ {0}
    /\ None \notin Reasons \cup {Capacity}

VARIABLES
    closing,      \* c.closing
    quarantine,   \* c.quarantine
    quarantined,  \* c.quarantined: the buffered channel
    runs,         \* c.runs
    idle,         \* c.idle, as the number of the channel made last
    closed,       \* numbers of the idle channels that are closed
    work,         \* the handler of each run
    cancelled,    \* runs whose context was cancelled by a sweep
    sweep,        \* progress of each sweep
    left,         \* runs that each sweep has still to cancel
    waitsOn,      \* the idle channel that Shutdown waits on
    received      \* what the consumer of Quarantined received

gateVars == <<closing, quarantine, quarantined, runs, idle, closed>>
sweepVars == <<cancelled, sweep, left, waitsOn>>
runVars == <<gateVars, work, sweepVars, received>>

Sweeps == {"quarantine", "close", "shutdown"}

RunsInit ==
    /\ closing = FALSE
    /\ quarantine = None
    /\ quarantined = <<>>
    /\ runs = {}
    /\ idle = 0
    /\ closed = {0}
    /\ work = [r \in Requests |-> "new"]
    /\ cancelled = {}
    /\ sweep = [s \in Sweeps |-> "none"]
    /\ left = [s \in Sweeps |-> {}]
    /\ waitsOn = 0
    /\ received = <<>>

-----------------------------------------------------------------------------
(* Start and Finish, called by the handler of a run.                       *)

\* Mutant: admission does not look at the quarantine.
AdmitQuarantined(r) ==
    /\ work[r] = "new"
    /\ ~closing
    /\ Cardinality(runs) < MaxInFlight
    /\ idle' = IF runs = {} THEN idle + 1 ELSE idle
    /\ runs' = runs \cup {r}
    /\ work' = [work EXCEPT ![r] = "running"]
    /\ UNCHANGED <<closing, quarantine, quarantined, closed, sweepVars, received>>

\* admit registers the run, making a new idle channel if there was no run.
Admit(r) ==
    /\ work[r] = "new"
    /\ ~closing /\ quarantine = None
    /\ Cardinality(runs) < MaxInFlight
    /\ idle' = IF runs = {} THEN idle + 1 ELSE idle
    /\ runs' = runs \cup {r}
    /\ work' = [work EXCEPT ![r] = "running"]
    /\ UNCHANGED <<closing, quarantine, quarantined, closed, sweepVars, received>>

\* admit refuses the run: the candidate is quarantined or the server is closing.
Refuse(r) ==
    /\ work[r] = "new"
    /\ closing \/ quarantine # None
    /\ work' = [work EXCEPT ![r] = "refused"]
    /\ UNCHANGED <<gateVars, sweepVars, received>>

\* admit finds no capacity; Start quarantines after admit has unlocked c.mu.
ExceedCapacity(r) ==
    /\ work[r] = "new"
    /\ ~closing /\ quarantine = None
    /\ Cardinality(runs) >= MaxInFlight
    /\ work' = [work EXCEPT ![r] = "exceeding"]
    /\ UNCHANGED <<gateVars, sweepVars, received>>

\* Finish closes idle with the last run.
Finish(r) ==
    /\ work[r] = "running"
    /\ runs' = runs \ {r}
    /\ closed' = IF runs \ {r} = {} THEN closed \cup {idle} ELSE closed
    /\ work' = [work EXCEPT ![r] = "finished"]
    /\ UNCHANGED <<closing, quarantine, quarantined, idle, sweepVars, received>>

-----------------------------------------------------------------------------
(* Quarantine, Close and Shutdown.                                         *)

\* The critical section of Quarantine and the start of its goroutine.  A later call
\* returns at once.
Quarantine(reason) ==
    \/ /\ quarantine # None
       /\ UNCHANGED <<gateVars, sweepVars>>
    \/ /\ quarantine = None
       /\ quarantine' = reason
       /\ quarantined = <<>>
       /\ quarantined' = <<reason>>
       /\ sweep' = [sweep EXCEPT !["quarantine"] = "cancelling"]
       /\ left' = [left EXCEPT !["quarantine"] = runs]
       /\ UNCHANGED <<closing, runs, idle, closed, cancelled, waitsOn>>

\* Any component that finds the candidate at fault calls Quarantine.
QuarantineCall(reason) ==
    /\ Quarantine(reason)
    /\ UNCHANGED <<work, received>>

\* Mutant: Start refuses the run and does nothing else.
RefuseOnly(r) ==
    /\ work[r] = "exceeding"
    /\ work' = [work EXCEPT ![r] = "refused"]
    /\ UNCHANGED <<gateVars, sweepVars, received>>

\* The end of Start for a run beyond the limit.
QuarantineCapacity(r) ==
    /\ work[r] = "exceeding"
    /\ Quarantine(Capacity)
    /\ work' = [work EXCEPT ![r] = "refused"]
    /\ UNCHANGED received

\* The critical section of close, called by Close and by Shutdown.
StartClose(s) ==
    /\ sweep[s] = "none"
    /\ closing' = TRUE
    /\ sweep' = [sweep EXCEPT ![s] = "cancelling"]
    /\ left' = [left EXCEPT ![s] = runs]
    /\ waitsOn' = IF s = "shutdown" THEN idle ELSE waitsOn
    /\ UNCHANGED <<quarantine, quarantined, runs, idle, closed, work, cancelled, received>>

\* One iteration of a loop over the snapshot, whose order is that of a Go map.
CancelRun(s, r) ==
    /\ sweep[s] = "cancelling"
    /\ r \in left[s]
    /\ left' = [left EXCEPT ![s] = @ \ {r}]
    /\ cancelled' = cancelled \cup {r}
    /\ UNCHANGED <<gateVars, work, sweep, waitsOn, received>>

\* The loop ends.  Only Shutdown goes on, to wait for idle.
EndSweep(s) ==
    /\ sweep[s] = "cancelling"
    /\ left[s] = {}
    /\ sweep' = [sweep EXCEPT ![s] = IF s = "shutdown" THEN "waiting" ELSE "done"]
    /\ UNCHANGED <<gateVars, work, cancelled, left, waitsOn, received>>

\* The select of Shutdown: idle is closed, or its context is done first.
ShutdownReturns ==
    /\ sweep["shutdown"] = "waiting"
    /\ \/ /\ waitsOn \in closed
          /\ sweep' = [sweep EXCEPT !["shutdown"] = "idle"]
       \/ sweep' = [sweep EXCEPT !["shutdown"] = "timeout"]
    /\ UNCHANGED <<gateVars, work, cancelled, left, waitsOn, received>>

\* The single consumer of Quarantined.
Receive ==
    /\ quarantined # <<>>
    /\ received' = Append(received, Head(quarantined))
    /\ quarantined' = Tail(quarantined)
    /\ UNCHANGED <<closing, quarantine, runs, idle, closed, work, sweepVars>>

-----------------------------------------------------------------------------
StartCall(r) == Admit(r) \/ Refuse(r) \/ ExceedCapacity(r)

SweepStep(s) == EndSweep(s) \/ \E r \in Requests : CancelRun(s, r)

RunsNext ==
    \/ \E r \in Requests : StartCall(r) \/ Finish(r) \/ QuarantineCapacity(r)
    \/ \E reason \in Reasons : QuarantineCall(reason)
    \/ \E s \in {"close", "shutdown"} : StartClose(s)
    \/ \E s \in Sweeps : SweepStep(s)
    \/ ShutdownReturns
    \/ Receive

RunsSpec == RunsInit /\ [][RunsNext]_runVars

\* Handlers, sweeps and the consumer run when they can; a cancelled run ends, because
\* its handler's defer calls Finish once its context stops the proxied request.
RunsFairness ==
    /\ \A r \in Requests : WF_runVars(QuarantineCapacity(r))
    /\ \A r \in Requests : WF_runVars(r \in cancelled /\ Finish(r))
    /\ \A s \in Sweeps : WF_runVars(SweepStep(s))
    /\ WF_runVars(Receive)

RunsFairSpec == RunsSpec /\ RunsFairness

-----------------------------------------------------------------------------
(* Properties.                                                             *)

Works == {"new", "running", "exceeding", "refused", "finished"}
Phases == {"none", "cancelling", "waiting", "idle", "timeout", "done"}

\* Every field of Candidates holds a value of its Go type.
RunsTypeOK ==
    /\ closing \in BOOLEAN
    /\ quarantine \in Reasons \cup {Capacity, None}
    /\ quarantined \in Seq(Reasons \cup {Capacity})
    /\ runs \in SUBSET Requests
    /\ idle \in Nat
    /\ closed \in SUBSET Nat
    /\ work \in [Requests -> Works]
    /\ cancelled \in SUBSET Requests
    /\ sweep \in [Sweeps -> Phases]
    /\ left \in [Sweeps -> SUBSET Requests]
    /\ waitsOn \in Nat
    /\ received \in Seq(Reasons \cup {Capacity})

\* The state is well typed, admission never exceeds the limit, and c.idle is closed exactly
\* while no run is active: Finish never closes it twice and Shutdown never waits on a
\* stale channel.
IdleTracksRuns ==
    /\ RunsTypeOK
    /\ Cardinality(runs) <= MaxInFlight
    /\ runs = {r \in Requests : work[r] = "running"}
    /\ idle \in closed <=> runs = {}

\* The comment in Quarantine: it is published before the active runs are cancelled, so
\* a run that races its admission against quarantine, Close or Shutdown is either
\* refused or in a snapshot: no run escapes cancellation.
NoRunEscapes ==
    /\ quarantine # None => runs \subseteq cancelled \cup left["quarantine"]
    /\ closing => runs \subseteq cancelled \cup left["close"] \cup left["shutdown"]

\* Quarantine lasts for the process lifetime and only the first reason is kept:
\* quarantined receives it once, when it begins, so the consumer gets the reason in
\* effect and nothing else, and sending it never blocks c.mu.
ReportedOnce ==
    received \o quarantined = IF quarantine = None THEN <<>> ELSE <<quarantine>>

\* A run refused for lack of capacity always leaves the candidate quarantined.
CapacityQuarantines ==
    \A r \in Requests : (work[r] = "exceeding") ~> (quarantine # None)

\* Candidates' runs and its quarantine at every moment: admission keeps to the limit, no run
\* escapes the cancellation of quarantine, Close or Shutdown, and the first quarantine is
\* reported once.
RunsSound == IdleTracksRuns /\ NoRunEscapes /\ ReportedOnce

=============================================================================

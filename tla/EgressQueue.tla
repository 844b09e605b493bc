----------------------------- MODULE EgressQueue -----------------------------
(***************************************************************************)
(* The egress queue of the protocol engine (internal/protocol/egress.go).  *)
(*                                                                         *)
(* Every dependency request of the reference is forwarded at once and      *)
(* hashed by a background goroutine; a candidate request is hashed on its  *)
(* own goroutine and answered with the recorded response of a reference    *)
(* request of the same hash.  Goroutines meet only inside the critical     *)
(* sections of q.mu and e.mu, so one action is one critical section        *)
(* together with the local steps that lead to it.                          *)
(*                                                                         *)
(* A request is its identity; a hash is an element of Hashes picked when   *)
(* hashing ends; a recorded response is known by the reference request it  *)
(* answers, and only whether it exists and was released is kept.           *)
(***************************************************************************)
EXTENDS Integers, FiniteSets, Sequences, Functions

CONSTANTS
    References,  \* reference requests: the exchanges that forward registers
    Candidates,  \* candidate requests
    Hashes,      \* comparison.Hash
    None         \* no request (an empty Option, an empty channel slot)

ASSUME RequestsAssumption ==
    /\ IsFiniteSet(References)
    /\ References \cap Candidates = {}
    /\ None \notin References \cup Candidates \cup Hashes

VARIABLES
    arrivals,   \* q.arrivals
    arrival,    \* arrival number of each request, 0 before it arrives
    hash,       \* hash of each request once it is known, else None
    exchanges,  \* q.exchanges: references whose response is not reported yet
    unused,     \* q.unused
    waiting,    \* q.waiting
    hashing,    \* q.hashing
    idle,       \* q.idle, as the number of the channel made last
    closed,     \* numbers of the idle channels that are closed
    stage,      \* background goroutine of each reference
    timer,      \* expiry timer of each reference and its callback
    outcome,    \* e.outcome of each reference
    abandoned,  \* references with e.abandoned set
    released,   \* references whose recorded response was released
    pc,         \* goroutine of each candidate
    ready,      \* the one-slot channel of each candidate's egressWaiter
    pending,    \* the reference that each candidate's claim returned
    cancelled,  \* candidates whose context is done
    quarantine   \* calls of Quarantine: kind and the request that caused it

queueVars == <<arrivals, arrival, hash, exchanges, unused, waiting>>
idleVars == <<hashing, idle, closed>>
referenceVars == <<stage, timer, outcome, abandoned, released>>
candidateVars == <<pc, ready, pending, cancelled>>
vars == <<queueVars, idleVars, referenceVars, candidateVars, quarantine>>

Requests == References \cup Candidates

Init ==
    /\ arrivals = 0
    /\ arrival = [x \in Requests |-> 0]
    /\ hash = [x \in Requests |-> None]
    /\ exchanges = {}
    /\ unused = [h \in Hashes |-> <<>>]
    /\ waiting = [h \in Hashes |-> <<>>]
    /\ hashing = 0
    /\ idle = 0
    /\ closed = {0}
    /\ stage = [r \in References |-> "new"]
    /\ timer = [r \in References |-> "off"]
    /\ outcome = [r \in References |-> "none"]
    /\ abandoned = {}
    /\ released = {}
    /\ pc = [c \in Candidates |-> "new"]
    /\ ready = [c \in Candidates |-> None]
    /\ pending = [c \in Candidates |-> None]
    /\ cancelled = {}
    /\ quarantine = {}

-----------------------------------------------------------------------------
(* Helpers on queues and exchanges.                                        *)

\* slices.Insert.
Insert(queue, index, item) ==
    SubSeq(queue, 1, index - 1) \o <<item>> \o SubSeq(queue, index, Len(queue))

\* slices.Delete of the item at its slices.Index.
Delete(queue, item) ==
    LET index == CHOOSE i \in 1 .. Len(queue) :
                    queue[i] = item /\ \A j \in 1 .. i - 1 : queue[j] # item
    IN  SubSeq(queue, 1, index - 1) \o SubSeq(queue, index + 1, Len(queue))

\* Mutant: the queue is kept in the order in which hashing finishes.
InsertByHashing(queue, item) == Append(queue, item)

\* The binary search finds the first queued request that did not arrive earlier.
InsertByArrival(queue, item) ==
    LET index == CHOOSE i \in 1 .. Len(queue) + 1 :
                    /\ \A j \in 1 .. i - 1 : arrival[queue[j]] < arrival[item]
                    /\ i <= Len(queue) => arrival[item] <= arrival[queue[i]]
    IN  Insert(queue, index, item)

\* abandon: release frees the response only if it is already recorded.
Abandon(r) ==
    /\ abandoned' = abandoned \cup {r}
    /\ released' = IF outcome[r] = "raw" THEN released \cup {r} ELSE released

\* Mutant: finish does not look at abandoned.
FinishKeeps(r, result) ==
    /\ outcome' = [outcome EXCEPT ![r] = result]
    /\ UNCHANGED released

\* finish: a response that nobody can claim any more is released at once.
Finish(r, result) ==
    /\ outcome' = [outcome EXCEPT ![r] = result]
    /\ released' = IF result = "raw" /\ r \in abandoned THEN released \cup {r} ELSE released

\* The tail of intercept: a failed match quarantines unless the candidate gave up.
Fail(c, kind) ==
    /\ pc' = [pc EXCEPT ![c] = "failed"]
    /\ quarantine' = IF c \in cancelled THEN quarantine ELSE quarantine \cup {<<kind, c>>}

-----------------------------------------------------------------------------
(* The reference side.                                                     *)

\* forward registers the request and starts its hashing goroutine.
Forward(r) ==
    /\ stage[r] = "new"
    /\ stage' = [stage EXCEPT ![r] = "hashing"]
    /\ arrivals' = arrivals + 1
    /\ arrival' = [arrival EXCEPT ![r] = arrivals + 1]
    /\ exchanges' = exchanges \cup {r}
    /\ hashing' = hashing + 1
    /\ idle' = IF hashing = 0 THEN idle + 1 ELSE idle
    /\ UNCHANGED <<hash, unused, waiting, closed, timer, outcome, abandoned, released,
                   candidateVars, quarantine>>

\* The request cannot be identified: nobody will ever claim its response.
HashFails(r) ==
    /\ stage[r] = "hashing"
    /\ stage' = [stage EXCEPT ![r] = "hashed"]
    /\ Abandon(r)
    /\ quarantine' = quarantine \cup {<<"unable", r>>}
    /\ UNCHANGED <<queueVars, idleVars, timer, outcome, candidateVars>>

\* Mutant: every waiting candidate receives the reference.
AddToWaiters(r, h) ==
    /\ stage[r] = "hashing"
    /\ waiting[h] # <<>>
    /\ ready' = [c \in Candidates |-> IF c \in Range(waiting[h]) THEN r ELSE ready[c]]
    /\ waiting' = [waiting EXCEPT ![h] = <<>>]
    /\ hash' = [hash EXCEPT ![r] = h]
    /\ stage' = [stage EXCEPT ![r] = "hashed"]
    /\ UNCHANGED <<arrivals, arrival, exchanges, unused, idleVars, timer, outcome, abandoned,
                   released, pc, pending, cancelled, quarantine>>

\* add with a waiting candidate: the earliest one receives the reference.
AddToWaiter(r, h) ==
    /\ stage[r] = "hashing"
    /\ waiting[h] # <<>>
    /\ LET c == Head(waiting[h])
       IN  /\ ready[c] = None
           /\ ready' = [ready EXCEPT ![c] = r]
    /\ waiting' = [waiting EXCEPT ![h] = Tail(@)]
    /\ hash' = [hash EXCEPT ![r] = h]
    /\ stage' = [stage EXCEPT ![r] = "hashed"]
    /\ UNCHANGED <<arrivals, arrival, exchanges, unused, idleVars, timer, outcome, abandoned,
                   released, pc, pending, cancelled, quarantine>>

\* add without one: the reference stays unused until it is claimed or expires.
AddToUnused(r, h) ==
    /\ stage[r] = "hashing"
    /\ waiting[h] = <<>>
    /\ unused' = [unused EXCEPT ![h] = InsertByArrival(@, r)]
    /\ timer' = [timer EXCEPT ![r] = "armed"]
    /\ hash' = [hash EXCEPT ![r] = h]
    /\ stage' = [stage EXCEPT ![r] = "hashed"]
    /\ UNCHANGED <<arrivals, arrival, exchanges, waiting, idleVars, outcome, abandoned,
                   released, candidateVars, quarantine>>

\* The deferred finishHashing closes idle when the last hash ends.
FinishHashing(r) ==
    /\ stage[r] = "hashed"
    /\ stage' = [stage EXCEPT ![r] = "finished"]
    /\ hashing' = hashing - 1
    /\ closed' = IF hashing = 1 THEN closed \cup {idle} ELSE closed
    /\ UNCHANGED <<queueVars, idle, timer, outcome, abandoned, released, candidateVars,
                   quarantine>>

\* ProcessResponse takes the exchange and stores the recorded response.
ProcessResponse(r) ==
    /\ r \in exchanges
    /\ exchanges' = exchanges \ {r}
    /\ Finish(r, "raw")
    /\ UNCHANGED <<arrivals, arrival, hash, unused, waiting, idleVars, stage, timer, abandoned,
                   candidateVars, quarantine>>

\* Unable takes the exchange and stores why there is no response.
Unable(r) ==
    /\ r \in exchanges
    /\ exchanges' = exchanges \ {r}
    /\ Finish(r, "failure")
    /\ UNCHANGED <<arrivals, arrival, hash, unused, waiting, idleVars, stage, timer, abandoned,
                   candidateVars, quarantine>>

\* The match window passes: from now on stopExpiry comes too late.
TimerFires(r) ==
    /\ timer[r] = "armed"
    /\ timer' = [timer EXCEPT ![r] = "fired"]
    /\ UNCHANGED <<queueVars, idleVars, stage, outcome, abandoned, released, candidateVars,
                   quarantine>>

\* Mutant: expire abandons the reference even if it was claimed.
ExpireAlways(r) ==
    /\ timer[r] = "fired"
    /\ unused' = [unused EXCEPT ![hash[r]] = SelectSeq(@, LAMBDA q : q # r)]
    /\ timer' = [timer EXCEPT ![r] = "expired"]
    /\ UNCHANGED <<arrivals, arrival, hash, exchanges, waiting, idleVars, stage, outcome,
                   abandoned, released, candidateVars, quarantine>>

\* expire removes the reference, unless a candidate claimed it in the meantime.
Expire(r) ==
    /\ timer[r] = "fired"
    /\ \/ /\ r \in Range(unused[hash[r]])
          /\ unused' = [unused EXCEPT ![hash[r]] = Delete(@, r)]
          /\ timer' = [timer EXCEPT ![r] = "expired"]
       \/ /\ r \notin Range(unused[hash[r]])
          /\ timer' = [timer EXCEPT ![r] = "off"]
          /\ UNCHANGED unused
    /\ UNCHANGED <<arrivals, arrival, hash, exchanges, waiting, idleVars, stage, outcome,
                   abandoned, released, candidateVars, quarantine>>

\* The end of expire, after q.mu is unlocked.
AbandonExpired(r) ==
    /\ timer[r] = "expired"
    /\ timer' = [timer EXCEPT ![r] = "off"]
    /\ Abandon(r)
    /\ UNCHANGED <<queueVars, idleVars, stage, outcome, candidateVars, quarantine>>

-----------------------------------------------------------------------------
(* The candidate side: intercept, match, claim and wait.                   *)

\* match numbers the request before hashing it.
Arrive(c) ==
    /\ pc[c] = "new"
    /\ pc' = [pc EXCEPT ![c] = "hashing"]
    /\ arrivals' = arrivals + 1
    /\ arrival' = [arrival EXCEPT ![c] = arrivals + 1]
    /\ UNCHANGED <<hash, exchanges, unused, waiting, idleVars, referenceVars, ready, pending,
                   cancelled, quarantine>>

CandidateHashFails(c) ==
    /\ pc[c] = "hashing"
    /\ Fail(c, "unable")
    /\ UNCHANGED <<queueVars, idleVars, referenceVars, ready, pending, cancelled>>

\* claim with an unused reference: stopExpiry has no effect on a fired timer.
ClaimUnused(c, h) ==
    /\ pc[c] = "hashing"
    /\ unused[h] # <<>>
    /\ LET r == Head(unused[h])
       IN  /\ pending' = [pending EXCEPT ![c] = r]
           /\ timer' = [timer EXCEPT ![r] = IF @ = "armed" THEN "off" ELSE @]
    /\ unused' = [unused EXCEPT ![h] = Tail(@)]
    /\ hash' = [hash EXCEPT ![c] = h]
    /\ pc' = [pc EXCEPT ![c] = "awaiting"]
    /\ UNCHANGED <<arrivals, arrival, exchanges, waiting, idleVars, stage, outcome, abandoned,
                   released, ready, cancelled, quarantine>>

\* Mutant: claim waits without looking at the unused references.
ClaimBlind(c, h) ==
    /\ pc[c] = "hashing"
    /\ waiting' = [waiting EXCEPT ![h] = InsertByArrival(@, c)]
    /\ hash' = [hash EXCEPT ![c] = h]
    /\ pc' = [pc EXCEPT ![c] = "waiting"]
    /\ UNCHANGED <<arrivals, arrival, exchanges, unused, idleVars, referenceVars, ready, pending,
                   cancelled, quarantine>>

\* claim without one: the candidate waits in arrival order.
ClaimWaits(c, h) ==
    /\ pc[c] = "hashing"
    /\ unused[h] = <<>>
    /\ waiting' = [waiting EXCEPT ![h] = InsertByArrival(@, c)]
    /\ hash' = [hash EXCEPT ![c] = h]
    /\ pc' = [pc EXCEPT ![c] = "waiting"]
    /\ UNCHANGED <<arrivals, arrival, exchanges, unused, idleVars, referenceVars, ready, pending,
                   cancelled, quarantine>>

\* Both receives from the waiter's channel: in the select, and after giving up too late.
Receive(c) ==
    /\ pc[c] \in {"waiting", "receiving"}
    /\ ready[c] # None
    /\ pending' = [pending EXCEPT ![c] = ready[c]]
    /\ ready' = [ready EXCEPT ![c] = None]
    /\ pc' = [pc EXCEPT ![c] = "awaiting"]
    /\ UNCHANGED <<queueVars, idleVars, referenceVars, cancelled, quarantine>>

\* The select takes the timer, which may fire at any time, or the done context.
GiveUp(c) ==
    /\ pc[c] = "waiting"
    /\ pc' = [pc EXCEPT ![c] = "leaving"]
    /\ UNCHANGED <<queueVars, idleVars, referenceVars, ready, pending, cancelled, quarantine>>

\* The waiter leaves the queue, or finds that add has already removed it.
Leave(c) ==
    /\ pc[c] = "leaving"
    /\ \/ /\ c \in Range(waiting[hash[c]])
          /\ waiting' = [waiting EXCEPT ![hash[c]] = Delete(@, c)]
          /\ Fail(c, "unmatched")
       \/ /\ c \notin Range(waiting[hash[c]])
          /\ pc' = [pc EXCEPT ![c] = "receiving"]
          /\ UNCHANGED <<waiting, quarantine>>
    /\ UNCHANGED <<arrivals, arrival, hash, exchanges, unused, idleVars, referenceVars, ready,
                   pending, cancelled>>

\* wait sees the outcome: the response is replayed, or cannot be.
SeeOutcome(c) ==
    /\ pc[c] = "awaiting"
    /\ \/ /\ outcome[pending[c]] = "raw"
          /\ pc' = [pc EXCEPT ![c] = "replaying"]
          /\ UNCHANGED quarantine
       \/ /\ outcome[pending[c]] = "failure"
          /\ Fail(c, "unable")
    /\ UNCHANGED <<queueVars, idleVars, referenceVars, ready, pending, cancelled>>

\* wait sees the done context, even if the outcome is there too.
SeeCancelled(c) ==
    /\ pc[c] = "awaiting"
    /\ c \in cancelled
    /\ Abandon(pending[c])
    /\ Fail(c, "unable")
    /\ UNCHANGED <<queueVars, idleVars, stage, timer, outcome, ready, pending, cancelled>>

\* The server writes the response to the candidate, then releases it.
Replay(c) ==
    /\ pc[c] = "replaying"
    /\ pc' = [pc EXCEPT ![c] = "replayed"]
    /\ released' = released \cup {pending[c]}
    /\ UNCHANGED <<queueVars, idleVars, stage, timer, outcome, abandoned, ready, pending,
                   cancelled, quarantine>>

\* The candidate's context ends: it disconnects, or quarantine or shutdown cancels its run.
Cancel(c) ==
    /\ pc[c] \notin {"new", "failed", "replayed"}
    /\ c \notin cancelled
    /\ cancelled' = cancelled \cup {c}
    /\ UNCHANGED <<queueVars, idleVars, referenceVars, pc, ready, pending, quarantine>>

-----------------------------------------------------------------------------
\* Nothing is left to do while every request that has arrived is finished.
Quiescent ==
    /\ \A r \in References :
          stage[r] \in {"new", "finished"} /\ timer[r] = "off" /\ r \notin exchanges
    /\ \A c \in Candidates : pc[c] \in {"new", "failed", "replayed"}
    /\ UNCHANGED vars

HashingStep(r) ==
    \/ HashFails(r)
    \/ \E h \in Hashes : AddToWaiter(r, h) \/ AddToUnused(r, h)
    \/ FinishHashing(r)

ReportStep(r) == ProcessResponse(r) \/ Unable(r)

ExpiryStep(r) == TimerFires(r) \/ Expire(r) \/ AbandonExpired(r)

CandidateStep(c) ==
    \/ CandidateHashFails(c)
    \/ \E h \in Hashes : ClaimUnused(c, h) \/ ClaimWaits(c, h)
    \/ Receive(c) \/ GiveUp(c) \/ Leave(c)
    \/ SeeOutcome(c) \/ SeeCancelled(c) \/ Replay(c)

Next ==
    \/ \E r \in References : Forward(r) \/ HashingStep(r) \/ ReportStep(r) \/ ExpiryStep(r)
    \/ \E c \in Candidates : Arrive(c) \/ CandidateStep(c) \/ Cancel(c)
    \/ Quiescent

Spec == Init /\ [][Next]_vars

\* Goroutines that can run do run; hashing ends; the server reports each forwarded
\* request once; timers fire.  Nobody has to send, cancel or shut down.
Fairness ==
    /\ \A r \in References :
          WF_vars(HashingStep(r)) /\ WF_vars(ReportStep(r)) /\ WF_vars(ExpiryStep(r))
    /\ \A c \in Candidates : WF_vars(CandidateStep(c))

FairSpec == Spec /\ Fairness

-----------------------------------------------------------------------------
(* Properties.                                                             *)

Stages == {"new", "hashing", "hashed", "finished"}
Timers == {"off", "armed", "fired", "expired"}
Outcomes == {"none", "raw", "failure"}
Pcs == {"new", "hashing", "waiting", "leaving", "receiving", "awaiting", "replaying",
        "replayed", "failed"}
Kinds == {"unable", "unmatched"}

\* Every field of the queue, of an exchange and of a waiter holds a value of its Go type.
TypeOK ==
    /\ arrivals \in Nat
    /\ arrival \in [Requests -> Nat]
    /\ hash \in [Requests -> Hashes \cup {None}]
    /\ exchanges \in SUBSET References
    /\ unused \in [Hashes -> Seq(References)]
    /\ waiting \in [Hashes -> Seq(Candidates)]
    /\ hashing \in Nat
    /\ idle \in Nat
    /\ closed \in SUBSET Nat
    /\ stage \in [References -> Stages]
    /\ timer \in [References -> Timers]
    /\ outcome \in [References -> Outcomes]
    /\ abandoned \in SUBSET References
    /\ released \in SUBSET References
    /\ pc \in [Candidates -> Pcs]
    /\ ready \in [Candidates -> References \cup {None}]
    /\ pending \in [Candidates -> References \cup {None}]
    /\ cancelled \in SUBSET Candidates
    /\ quarantine \in SUBSET (Kinds \X Requests)

\* The comment on q.mu: a hash never has unused references and waiting candidates at
\* the same time, so no candidate waits beside a reference that would answer it.
QueueExclusion == \A h \in Hashes : unused[h] = <<>> \/ waiting[h] = <<>>

\* The requests of a queue are in strict arrival order.
Ordered(queue) ==
    \A i, j \in 1 .. Len(queue) : i < j => arrival[queue[i]] < arrival[queue[j]]

\* Both queues of a hash stay in strict arrival order although hashing finishes out of
\* order, so claim and add serve the earliest request by taking the first.
ArrivalOrder == \A h \in Hashes : Ordered(unused[h]) /\ Ordered(waiting[h])

\* The references that candidate c was ever handed.
Held(c) == {ready[c], pending[c]} \ {None}

\* The comment on egressQueue: each reference is claimed once, so duplicates pair
\* one-to-one; the pair has one hash, and a claimed reference is in no queue.
PairedOneToOne ==
    \A c \in Candidates : \A r \in Held(c) :
       /\ hash[r] = hash[c]
       /\ \A d \in Candidates \ {c} : r \notin Held(d)
       /\ \A h \in Hashes : r \notin Range(unused[h])

\* Release says that replay must have finished: expiry, abandonment and other
\* candidates never free a response while a candidate replays it.
ReplayIntact ==
    \A c \in Candidates : pc[c] = "replaying" =>
       outcome[pending[c]] = "raw" /\ pending[c] \notin released

\* A waiter's channel receives at most one reference and only after the waiter left the
\* queue, so delivery never blocks q.mu; and a waiter that times out while add delivers
\* still takes it: no candidate ends with a reference left in its channel.
NoStrandedReference ==
    \A c \in Candidates : ready[c] # None =>
       /\ pc[c] \in {"waiting", "leaving", "receiving"}
       /\ pending[c] = None
       /\ \A h \in Hashes : c \notin Range(waiting[h])

\* Fail closed: a candidate request that is not answered quarantines the candidate
\* unless it gave up by itself, and one that is answered never does.
FailClosed ==
    \A c \in Candidates :
       /\ pc[c] = "failed" /\ c \notin cancelled => \E k \in Kinds : <<k, c>> \in quarantine
       /\ (\E k \in Kinds : <<k, c>> \in quarantine) => pc[c] = "failed"

\* A candidate is reported unmatched only if, at that moment, no reference of its hash
\* is unused and none was handed to it: the window never costs an available match.
NoMissedMatch ==
    [][\A c \in Candidates : <<"unmatched", c>> \in quarantine' \ quarantine =>
          unused[hash[c]] = <<>> /\ Held(c) = {}]_vars

\* References whose hashing goroutine has started and not ended.
InProgress == {r \in References : stage[r] \in {"hashing", "hashed"}}

\* The comment on idle: it is closed whenever hashing is zero, and hashing counts the
\* goroutines that have not ended, so no close panics and none is forgotten.
IdleIsClosed ==
    /\ hashing = Cardinality(InProgress)
    /\ idle \in closed <=> hashing = 0

\* No recording leaks: each recorded response is eventually released, whether it is
\* replayed, expires, was never identified, or its candidate gives up.
ResponsesReleased ==
    \A r \in References : (outcome[r] = "raw") ~> (r \in released)

\* Each candidate request is eventually answered or refused: no wait is unbounded.
CandidatesAnswered ==
    \A c \in Candidates : (pc[c] = "hashing") ~> (pc[c] \in {"failed", "replayed"})

-----------------------------------------------------------------------------
(* The invariant that induction needs to reach the properties above.       *)

\* Requests that have arrived have distinct numbers up to q.arrivals, and idle channels
\* have numbers up to that of q.idle.
Numbered ==
    /\ \A i \in closed : i <= idle
    /\ \A x \in Requests : arrival[x] <= arrivals
    /\ \A x, y \in Requests : arrival[x] = arrival[y] /\ x # y => arrival[x] = 0
    /\ \A r \in References : stage[r] # "new" => arrival[r] > 0
    /\ \A c \in Candidates : pc[c] # "new" => arrival[c] > 0

\* What is queued under a hash has that hash and is nobody's yet.
QueuesSound ==
    \A h \in Hashes :
       /\ \A r \in Range(unused[h]) :
             /\ hash[r] = h /\ stage[r] \in {"hashed", "finished"}
             /\ timer[r] \in {"armed", "fired"} /\ r \notin abandoned \cup released
       /\ \A c \in Range(waiting[h]) :
             hash[c] = h /\ pc[c] \in {"waiting", "leaving"} /\ ready[c] = None

\* What a reference can be, by the progress of its goroutine, timer and report.
ReferencesSound ==
    \A r \in References :
       /\ stage[r] \in {"new", "hashing"} =>
             hash[r] = None /\ timer[r] = "off" /\ r \notin abandoned \cup released
       /\ stage[r] = "new" => outcome[r] = "none" /\ r \notin exchanges
       /\ r \in exchanges => outcome[r] = "none" /\ r \notin released
       /\ timer[r] # "off" => hash[r] \in Hashes
       /\ timer[r] = "expired" => \A h \in Hashes : r \notin Range(unused[h])

\* What a candidate can be, by the progress of its goroutine.
CandidatesSound ==
    \A c \in Candidates :
       /\ pc[c] \in {"new", "hashing"} => hash[c] = None
       /\ pc[c] \in {"new", "hashing", "waiting", "leaving", "receiving"} => pending[c] = None
       /\ pc[c] \in {"waiting", "leaving", "receiving"} => hash[c] \in Hashes
       /\ pc[c] \in {"awaiting", "replaying"} => pending[c] # None
       /\ ready[c] # None => pc[c] \in {"waiting", "leaving", "receiving"}
       /\ pc[c] = "replaying" => outcome[pending[c]] = "raw"

\* A reference that a candidate was handed is that candidate's alone, cannot expire any
\* more, and is not released before its candidate ends.
HeldSound ==
    \A c \in Candidates : \A r \in Held(c) :
       /\ hash[r] = hash[c] /\ stage[r] \in {"hashed", "finished"}
       /\ timer[r] \in {"off", "fired"}
       /\ \A d \in Candidates \ {c} : r \notin Held(d)
       /\ \A h \in Hashes : r \notin Range(unused[h])
       /\ pc[c] \notin {"failed", "replayed"} => r \notin abandoned \cup released

\* The inductive invariant: the queues and every exchange in flight are consistent with
\* the goroutines that work on them.
Consistent ==
    /\ TypeOK /\ QueueExclusion /\ ArrivalOrder /\ FailClosed /\ IdleIsClosed
    /\ Numbered /\ QueuesSound /\ ReferencesSound /\ CandidatesSound /\ HeldSound

\* Nothing that enters the queue stays in it: every response is released and every
\* candidate request answered or refused.
ExchangesEnd == ResponsesReleased /\ CandidatesAnswered

=============================================================================

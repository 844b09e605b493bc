------------------------------ MODULE Mirroring ------------------------------
(***************************************************************************)
(* Mirrored requests at the ingress server (serveProxy in                  *)
(* internal/httpserver/ingress.go): the handler of each inbound request    *)
(* admits candidate work (CandidateRuns), pairs both sides                 *)
(* (IngressPairs), starts the candidate's goroutine and then forwards the  *)
(* request to the reference.                                               *)
(*                                                                         *)
(* This module composes the two components: their actions happen when the  *)
(* handler and the candidate's goroutine call them.  A request is also its *)
(* pair and its run.                                                       *)
(***************************************************************************)
EXTENDS IngressPairs, CandidateRuns

CONSTANT MaxRequests  \* config.MaxInFlightRequests

\* What the server's own calls of Quarantine give.
Kinds == {"pairing", "divergent", "unable", "unlisted"}

ASSUME MirroringAssumption == MaxRequests \in Nat

ASSUME KindsAssumption == Kinds \subseteq Reasons

VARIABLE handler  \* the handler of each request

vars == <<handler, pairVars, runVars>>

Init ==
    /\ handler = [q \in Requests |-> "new"]
    /\ PairsInit
    /\ RunsInit

Becomes(q, state) == handler' = [handler EXCEPT ![q] = state]

\* Requests that hold a slot of i.requests.
InFlight == {q \in Requests : handler[q] \notin {"new", "rejected", "done"}}

-----------------------------------------------------------------------------
(* The handler.                                                            *)

\* The request gets a slot, or is answered with 503.
Accept(q) ==
    /\ handler[q] = "new"
    /\ Becomes(q, IF Cardinality(InFlight) < MaxRequests THEN "accepted" ELSE "rejected")
    /\ UNCHANGED <<pairVars, runVars>>

\* mirrors returns false: the route is not migrated, or the candidate is awaited.  A
\* route that no node of the migration state lists quarantines the candidate.
PassThrough(q) ==
    /\ handler[q] = "accepted"
    /\ Becomes(q, "direct")
    /\ UNCHANGED runVars \/ QuarantineCall("unlisted")
    /\ UNCHANGED pairVars

\* candidates.Start admits the run.
StartRun(q) ==
    /\ handler[q] = "accepted"
    /\ Admit(q)
    /\ Becomes(q, "admitted")
    /\ UNCHANGED pairVars

\* candidates.Start refuses the run, at once or after it has found no capacity.
RunRefused(q) ==
    /\ handler[q] = "accepted"
    /\ \/ Refuse(q) /\ Becomes(q, "direct")
       \/ ExceedCapacity(q) /\ Becomes(q, "exceeding")
    /\ UNCHANGED pairVars

\* Mutant: the handler waits until the candidate has capacity again.
CapacityAwaited(q) ==
    /\ handler[q] = "exceeding"
    /\ runs = {}
    /\ QuarantineCapacity(q)
    /\ Becomes(q, "direct")
    /\ UNCHANGED pairVars

CapacityExceeded(q) ==
    /\ handler[q] = "exceeding"
    /\ QuarantineCapacity(q)
    /\ Becomes(q, "direct")
    /\ UNCHANGED pairVars

\* The reference's point starts the pair.
StartPair(q) ==
    /\ handler[q] = "admitted"
    /\ Start(q)
    /\ Becomes(q, "paired")
    /\ UNCHANGED runVars

\* A quarantine call of the engine reaches the candidates.
Quarantining(q) ==
    IF calls' = calls THEN UNCHANGED runVars
    ELSE \E kind \in {"pairing", "divergent", "unable"} :
            <<kind, q>> \in calls' \ calls /\ QuarantineCall(kind)

\* The candidate's point, of the same protocol, joins the pair, and its goroutine starts.
\* A join that fails quarantines; it never does (JoinsNeverFail), so what follows is left
\* out.
JoinPair(q) ==
    /\ handler[q] = "paired"
    /\ \/ Join(q, protocol[q]) /\ Becomes(q, "forwarding")
       \/ JoinFails(q, protocol[q]) /\ Becomes(q, "unpaired")
    /\ Quarantining(q)

\* The reference's point forwards the request and reports its response in two steps.
Respond(q) ==
    /\ handler[q] = "forwarding"
    /\ \/ TakeReference(q) /\ UNCHANGED handler
       \/ FinishReference(q) /\ Becomes(q, "done")
    /\ UNCHANGED runVars

\* The request's upload exceeds the candidate buffer while it is forwarded.
Overflow(q) ==
    /\ handler[q] = "forwarding"
    /\ QuarantineCall(Capacity)
    /\ UNCHANGED <<handler, pairVars>>

\* The reference serves a request that is not mirrored.
ServeReference(q) ==
    /\ handler[q] = "direct"
    /\ Becomes(q, "done")
    /\ UNCHANGED <<pairVars, runVars>>

-----------------------------------------------------------------------------
(* The candidate's goroutine, its context, and the sweeps.                 *)

CandidateGoroutine(q) ==
    /\ candidate[q] # "new" /\ handler[q] \in {"forwarding", "done"}
    /\ CandidateStep(q)
    /\ Quarantining(q)
    /\ UNCHANGED handler

\* Mutant: the deferred call is missing.
FinishRunNever(q) ==
    /\ candidate[q] = "finished" /\ q \in runs
    /\ UNCHANGED vars

\* The deferred candidates.Finish of the goroutine.
FinishRun(q) ==
    /\ candidate[q] = "finished"
    /\ Finish(q)
    /\ UNCHANGED <<handler, pairVars>>

\* The candidate's timeout passes, or a broken upload aborts its request.
Timeout(q) ==
    /\ ContextEnds(q)
    /\ UNCHANGED <<handler, runVars>>

\* Mutant: the sweep does not cancel the context of the run.
SweepForgets(s) ==
    /\ SweepStep(s)
    /\ UNCHANGED <<handler, pairVars>>

\* A sweep cancels the context of a run, which is that of its candidate request.
Sweep(s) ==
    /\ SweepStep(s)
    /\ contextDone' = contextDone \cup cancelled'
    /\ UNCHANGED <<handler, requests, exchanges, protocol, ignored, outcome, joined, done,
                   reference, candidate, verdict, released, joins, calls>>

\* Ingress.Shutdown, and the consumer of the quarantine.
Shutdown ==
    /\ StartClose("shutdown") \/ ShutdownReturns
    /\ UNCHANGED <<handler, pairVars>>

Notify ==
    /\ Receive
    /\ UNCHANGED <<handler, pairVars>>

-----------------------------------------------------------------------------
Handle(q) ==
    \/ Accept(q) \/ PassThrough(q) \/ StartRun(q) \/ RunRefused(q) \/ CapacityExceeded(q)
    \/ StartPair(q) \/ JoinPair(q) \/ ServeReference(q)

CandidateRun(q) == CandidateGoroutine(q) \/ FinishRun(q)

\* Every request is served and every run finished.
Quiescent ==
    /\ InFlight = {} /\ runs = {}
    /\ UNCHANGED vars

Next ==
    \/ \E q \in Requests :
          Handle(q) \/ Respond(q) \/ Overflow(q) \/ CandidateRun(q) \/ Timeout(q)
    \/ \E s \in Sweeps : Sweep(s)
    \/ Shutdown \/ Notify
    \/ Quiescent

Spec == Init /\ [][Next]_vars

\* Handlers run; none takes steps for ever, so fairness to all of them together is enough.
\* Nothing is assumed of the candidate, its goroutines or the sweeps.
HandlerFairness == WF_vars(\E q \in Requests : Handle(q))

\* Candidate goroutines run too, and their timeouts pass; each ends after a few steps.
CandidateFairness == WF_vars(\E q \in Requests : CandidateRun(q) \/ Timeout(q))

-----------------------------------------------------------------------------
(* Properties.                                                             *)

\* Both components and every handler hold values of their types.
TypeOK ==
    /\ handler \in [Requests -> {"new", "rejected", "accepted", "direct", "exceeding",
                                 "admitted", "paired", "unpaired", "forwarding", "done"}]
    /\ PairsTypeOK
    /\ RunsTypeOK

\* "The candidate joins its pair before the reference is sent, as the engine requires":
\* no join ever fails, so no candidate is quarantined for the order of the handler.
JoinsNeverFail == \A q \in Requests : <<"pairing", q>> \notin calls

\* A run lasts as long as its candidate uses the engine: when Shutdown reports that the
\* candidates are idle, no goroutine waits for, compares or holds a response.
RunCoversCandidate ==
    /\ TypeOK
    /\ \A q \in Requests : candidate[q] \notin {"new", "finished"} => q \in runs
    /\ sweep["shutdown"] = "idle" =>
          \A q \in Requests : candidate[q] \in {"new", "finished"}

\* Once a request is done and its run finished, neither the engine nor a budget holds
\* anything of it, on every path through the handler.
NothingLeft ==
    \A q \in Requests : handler[q] \in {"rejected", "done"} /\ q \notin runs =>
       /\ q \notin requests
       /\ {<<q, "reference">>, <<q, "candidate">>} \cap exchanges = {}
       /\ outcome[q] = "response" => <<q, "reference">> \in released

\* Quarantine stops what is in flight: after its sweep every live candidate request has
\* a done context, also one that was admitted before the quarantine and joined after it.
QuarantineReaches ==
    quarantine # None /\ sweep["quarantine"] = "done" =>
       \A q \in Requests : candidate[q] \notin {"new", "finished"} => q \in contextDone

\* "Reference responses never wait for candidate comparison": an accepted request is
\* sent to the reference even if every candidate goroutine hangs.
ReferenceNeverWaits ==
    \A q \in Requests :
       (handler[q] = "accepted") ~> (handler[q] \in {"direct", "forwarding", "done"})

\* Every admitted run finishes if candidate goroutines run, even if the reference never
\* answers.
RunsFinish ==
    CandidateFairness =>
       \A q \in Requests : (q \in runs /\ handler[q] = "forwarding") ~> (q \notin runs)

\* A mirrored request at every moment: its candidate joined in time, works under a run, is
\* reached by quarantine, and leaves nothing behind.
RequestsSound == JoinsNeverFail /\ RunCoversCandidate /\ NothingLeft /\ QuarantineReaches

=============================================================================

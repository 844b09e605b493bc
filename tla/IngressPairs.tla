----------------------------- MODULE IngressPairs -----------------------------
(***************************************************************************)
(* Pairing of mirrored ingress requests (internal/protocol/ingress.go).    *)
(*                                                                         *)
(* Each request to the reference starts a pair, whose only candidate joins *)
(* by request ID.  The reference's goroutine reports its response without  *)
(* waiting; the candidate's goroutine waits for it, compares both          *)
(* responses and quarantines the candidate unless they are equivalent.     *)
(* The pair lives in the maps until neither side needs it.                 *)
(*                                                                         *)
(* One action is one critical section of p.mu with the local steps around  *)
(* it.  What a comparison finds depends on the payloads, so it is any      *)
(* outcome that compareResponses can return for how the reference ended.   *)
(***************************************************************************)
EXTENDS Integers, FiniteSets, InboundRequests

CONSTANTS
    Protocols,  \* model.Protocol
    MaxJoins    \* bound: candidate requests that ask to join one pair

ASSUME PairsAssumption == MaxJoins \in Nat

VARIABLES
    requests,    \* p.requests: pairs found by request ID
    exchanges,   \* p.exchanges: pair and side of each exchange not reported yet
    protocol,    \* protocol of each pair
    ignored,     \* pairs with an ignoredReason
    outcome,     \* outcome of each pair's reference
    joined,      \* pairs with joined set
    done,        \* pairs with candidateDone set
    reference,   \* goroutine of each reference
    candidate,   \* goroutine of each joined candidate
    verdict,     \* result of each pair's comparison
    contextDone, \* pairs whose candidate context is done
    released,    \* pair and side of the recorded responses that were released
    joins,       \* attempts to join each pair
    calls        \* calls of Quarantine: kind and pair

mapVars == <<requests, exchanges, protocol, ignored, outcome, joined, done>>
pairVars == <<mapVars, reference, candidate, verdict, contextDone, released, joins, calls>>

PairsInit ==
    /\ requests = {}
    /\ exchanges = {}
    /\ protocol \in [Requests -> Protocols]
    /\ ignored \in SUBSET Requests
    /\ outcome = [p \in Requests |-> "none"]
    /\ joined = {}
    /\ done = {}
    /\ reference = [p \in Requests |-> "new"]
    /\ candidate = [p \in Requests |-> "new"]
    /\ verdict = [p \in Requests |-> "none"]
    /\ contextDone = {}
    /\ released = {}
    /\ joins = [p \in Requests |-> 0]
    /\ calls = {}

-----------------------------------------------------------------------------
(* The reference side: start, then ProcessResponse or Unable.              *)

Start(p) ==
    /\ reference[p] = "new"
    /\ reference' = [reference EXCEPT ![p] = "started"]
    /\ requests' = requests \cup {p}
    /\ exchanges' = exchanges \cup {<<p, "reference">>}
    /\ UNCHANGED <<protocol, ignored, outcome, joined, done, candidate, verdict, contextDone,
                   released, joins, calls>>

\* finishReference takes the exchange and forms the outcome.  A failure whose context
\* is done counts as cancelled.
TakeReference(p) ==
    /\ <<p, "reference">> \in exchanges
    /\ exchanges' = exchanges \ {<<p, "reference">>}
    /\ \E result \in {"response", "failure", "cancelled"} :
          reference' = [reference EXCEPT ![p] = result]
    /\ UNCHANGED <<requests, protocol, ignored, outcome, joined, done, candidate, verdict,
                   contextDone, released, joins, calls>>

\* Mutant: the pair is dropped with the reference, joined or not.
FinishReferenceDrops(p) ==
    /\ reference[p] \in {"response", "failure", "cancelled"}
    /\ outcome' = [outcome EXCEPT ![p] = reference[p]]
    /\ reference' = [reference EXCEPT ![p] = "reported"]
    /\ requests' = requests \ {p}
    /\ released' = IF reference[p] = "response"
                   THEN released \cup {<<p, "reference">>} ELSE released
    /\ UNCHANGED <<exchanges, protocol, ignored, joined, done, candidate, verdict, contextDone,
                   joins, calls>>

\* finishReference publishes the outcome under p.mu, and drops the pair if no candidate
\* joined or the candidate is done.  The exchange was taken once, so the outcome is new.
FinishReference(p) ==
    /\ reference[p] \in {"response", "failure", "cancelled"}
    /\ outcome' = [outcome EXCEPT ![p] = reference[p]]
    /\ reference' = [reference EXCEPT ![p] = "reported"]
    /\ \/ /\ p \in done \/ p \notin joined
          /\ requests' = requests \ {p}
          /\ released' = IF reference[p] = "response"
                         THEN released \cup {<<p, "reference">>} ELSE released
       \/ /\ p \notin done /\ p \in joined
          /\ UNCHANGED <<requests, released>>
    /\ UNCHANGED <<exchanges, protocol, ignored, joined, done, candidate, verdict, contextDone,
                   joins, calls>>

-----------------------------------------------------------------------------
(* The candidate side: join, then ProcessResponse or Unable.               *)

\* admit finds the pair, which has no candidate yet and the same protocol.
Join(p, used) ==
    /\ reference[p] # "new" /\ joins[p] < MaxJoins
    /\ p \in requests /\ p \notin joined /\ protocol[p] = used
    /\ joined' = joined \cup {p}
    /\ exchanges' = exchanges \cup {<<p, "candidate">>}
    /\ candidate' = [candidate EXCEPT ![p] = "joined"]
    /\ joins' = [joins EXCEPT ![p] = @ + 1]
    /\ UNCHANGED <<requests, protocol, ignored, outcome, done, reference, verdict, contextDone,
                   released, calls>>

\* admit returns an error: join quarantines and the candidate request ends.
JoinFails(p, used) ==
    /\ reference[p] # "new" /\ joins[p] < MaxJoins
    /\ p \notin requests \/ p \in joined \/ protocol[p] # used
    /\ calls' = calls \cup {<<"pairing", p>>}
    /\ joins' = [joins EXCEPT ![p] = @ + 1]
    /\ UNCHANGED <<mapVars, reference, candidate, verdict, contextDone, released>>

\* report applies the fail-closed policy.
Report(p, result) ==
    /\ verdict' = [verdict EXCEPT ![p] = result]
    /\ calls' = IF result \in {"divergent", "unable"}
                THEN calls \cup {<<result, p>>} ELSE calls

\* candidateResponse takes the exchange.  An ignored pair is never compared.
CandidateResponse(p) ==
    /\ <<p, "candidate">> \in exchanges
    /\ exchanges' = exchanges \ {<<p, "candidate">>}
    /\ \/ /\ p \in ignored
          /\ Report(p, "skipped")
          /\ candidate' = [candidate EXCEPT ![p] = "finishing"]
       \/ /\ p \notin ignored
          /\ candidate' = [candidate EXCEPT ![p] = "awaiting"]
          /\ UNCHANGED <<verdict, calls>>
    /\ UNCHANGED <<requests, protocol, ignored, outcome, joined, done, reference, contextDone,
                   released, joins>>

\* awaitReference returns the outcome, unless the reference was cancelled.
SeeReference(p) ==
    /\ candidate[p] = "awaiting"
    /\ \/ /\ outcome[p] \in {"response", "failure"}
          /\ candidate' = [candidate EXCEPT ![p] = "comparing"]
          /\ UNCHANGED verdict
       \/ /\ outcome[p] = "cancelled"
          /\ candidate' = [candidate EXCEPT ![p] = "finishing"]
          /\ verdict' = [verdict EXCEPT ![p] = "unfinished"]
    /\ UNCHANGED <<mapVars, reference, contextDone, released, joins, calls>>

\* Mutant: the wait for the reference has no deadline.
SeeContextLate(p) ==
    /\ candidate[p] = "awaiting"
    /\ p \in contextDone /\ outcome[p] # "none"
    /\ candidate' = [candidate EXCEPT ![p] = "finishing"]
    /\ verdict' = [verdict EXCEPT ![p] = "unfinished"]
    /\ UNCHANGED <<mapVars, reference, contextDone, released, joins, calls>>

\* awaitReference sees the done context, even if the outcome is there too.
SeeContextDone(p) ==
    /\ candidate[p] = "awaiting"
    /\ p \in contextDone
    /\ candidate' = [candidate EXCEPT ![p] = "finishing"]
    /\ verdict' = [verdict EXCEPT ![p] = "unfinished"]
    /\ UNCHANGED <<mapVars, reference, contextDone, released, joins, calls>>

\* What compareResponses returns for a reference that failed, or that responded.
ComparisonOutcomes(p) ==
    IF outcome[p] = "failure" THEN {"unable"}
    ELSE {"equivalent", "divergent", "skipped", "unable"}

\* Mutant: a comparison cut short by the candidate's deadline is reported.
CompareAlways(p) ==
    /\ candidate[p] = "comparing"
    /\ candidate' = [candidate EXCEPT ![p] = "finishing"]
    /\ \E result \in ComparisonOutcomes(p) : Report(p, result)
    /\ UNCHANGED <<mapVars, reference, contextDone, released, joins>>

\* The comparison ends.  One cut short by the candidate's deadline is not reported.
Compare(p) ==
    /\ candidate[p] = "comparing"
    /\ candidate' = [candidate EXCEPT ![p] = "finishing"]
    /\ \E result \in ComparisonOutcomes(p) :
          \/ /\ result = "unable" /\ p \in contextDone
             /\ verdict' = [verdict EXCEPT ![p] = "unfinished"]
             /\ UNCHANGED calls
          \/ /\ ~(result = "unable" /\ p \in contextDone)
             /\ Report(p, result)
    /\ UNCHANGED <<mapVars, reference, contextDone, released, joins>>

\* candidateUnable: the server released what it had recorded before calling it.
CandidateUnable(p) ==
    /\ <<p, "candidate">> \in exchanges
    /\ exchanges' = exchanges \ {<<p, "candidate">>}
    /\ candidate' = [candidate EXCEPT ![p] = "finishing"]
    /\ released' = released \cup {<<p, "candidate">>}
    /\ \/ /\ p \in contextDone
          /\ verdict' = [verdict EXCEPT ![p] = "unfinished"]
          /\ UNCHANGED calls
       \/ /\ p \notin contextDone
          /\ Report(p, IF p \in ignored THEN "skipped" ELSE "unable")
    /\ UNCHANGED <<requests, protocol, ignored, outcome, joined, done, reference, contextDone,
                   joins>>

\* The deferred calls: finishCandidate under p.mu, then the candidate's own release.
FinishCandidate(p) ==
    /\ candidate[p] = "finishing"
    /\ candidate' = [candidate EXCEPT ![p] = "finished"]
    /\ done' = done \cup {p}
    /\ requests' = requests \ {p}
    /\ released' = released \cup {<<p, "candidate">>}
                      \cup IF outcome[p] = "response" THEN {<<p, "reference">>} ELSE {}
    /\ UNCHANGED <<exchanges, protocol, ignored, outcome, joined, reference, verdict,
                   contextDone, joins, calls>>

\* The candidate's timeout passes, or quarantine or shutdown cancels its run.
ContextEnds(p) ==
    /\ candidate[p] \notin {"new", "finished"}
    /\ p \notin contextDone
    /\ contextDone' = contextDone \cup {p}
    /\ UNCHANGED <<mapVars, reference, candidate, verdict, released, joins, calls>>

-----------------------------------------------------------------------------
\* Every exchange is reported; candidates that may never come need not join.
PairsQuiescent ==
    /\ \A p \in Requests : reference[p] = "reported" /\ candidate[p] \in {"new", "finished"}
    /\ UNCHANGED pairVars

ReferenceStep(p) == TakeReference(p) \/ FinishReference(p)

CandidateStep(p) ==
    \/ CandidateResponse(p) \/ CandidateUnable(p)
    \/ SeeReference(p) \/ SeeContextDone(p)
    \/ Compare(p) \/ FinishCandidate(p)

PairsNext ==
    \/ \E p \in Requests :
          \/ Start(p) \/ ReferenceStep(p) \/ CandidateStep(p) \/ ContextEnds(p)
          \/ \E used \in Protocols : Join(p, used) \/ JoinFails(p, used)
    \/ PairsQuiescent

PairsSpec == PairsInit /\ [][PairsNext]_pairVars

\* The servers report every exchange once, a comparison ends, and the candidate's
\* timeout passes; the reference may take for ever.
PairsFairness ==
    \A p \in Requests : WF_pairVars(CandidateStep(p)) /\ WF_pairVars(ContextEnds(p))

PairsFairSpec == PairsSpec /\ PairsFairness

-----------------------------------------------------------------------------
(* Properties.                                                             *)

Sides == {"reference", "candidate"}
Verdicts == {"none", "equivalent", "divergent", "skipped", "unable", "unfinished"}

\* Both maps, every pair's flags and every goroutine hold a value of their type.
PairsTypeOK ==
    /\ requests \in SUBSET Requests
    /\ exchanges \in SUBSET (Requests \X Sides)
    /\ protocol \in [Requests -> Protocols]
    /\ ignored \in SUBSET Requests
    /\ outcome \in [Requests -> {"none", "response", "failure", "cancelled"}]
    /\ joined \in SUBSET Requests
    /\ done \in SUBSET Requests
    /\ reference \in [Requests -> {"new", "started", "response", "failure", "cancelled",
                                   "reported"}]
    /\ candidate \in [Requests -> {"new", "joined", "awaiting", "comparing", "finishing",
                                   "finished"}]
    /\ verdict \in [Requests -> Verdicts]
    /\ contextDone \in SUBSET Requests
    /\ released \in SUBSET (Requests \X Sides)
    /\ joins \in [Requests -> 0 .. MaxJoins]
    /\ calls \in SUBSET ({"pairing", "divergent", "unable"} \X Requests)

\* releaseReference frees the response once neither side needs it: never while the
\* candidate may still decode it, however the two sides' reports interleave.
ReferenceIntact ==
    \A p \in Requests : candidate[p] \in {"joined", "awaiting", "comparing"} =>
       <<p, "reference">> \notin released

\* The state is well typed, and a pair that both sides are finished with, or that no
\* candidate joined, is in neither map and holds no recorded response, whichever side
\* finishes last.
PairsDropped ==
    /\ PairsTypeOK
    /\ \A p \in Requests :
          reference[p] = "reported" /\ candidate[p] \in {"new", "finished"} =>
             /\ p \notin requests
             /\ {<<p, "reference">>, <<p, "candidate">>} \cap exchanges = {}
             /\ outcome[p] = "response" => <<p, "reference">> \in released
             /\ candidate[p] = "finished" => <<p, "candidate">> \in released

\* A verdict against the candidate needs evidence: an ignored pair is never held against
\* it, divergence needs a reference response, and unable counts only within the
\* candidate's deadline and, once the candidate has responded, only if the reference
\* was not cancelled by its own client.
VerdictJustified ==
    [][\A p \in Requests :
          /\ <<"divergent", p>> \in calls' \ calls =>
                p \notin ignored /\ outcome[p] = "response"
          /\ <<"unable", p>> \in calls' \ calls =>
                /\ p \notin ignored /\ p \notin contextDone
                /\ \/ <<p, "candidate">> \in exchanges
                   \/ outcome[p] \in {"response", "failure"}]_pairVars

\* Fail closed: a joined candidate that is finished with within its deadline, while the
\* reference was not cancelled, was found equivalent or skipped, or is quarantined.
FailClosed ==
    \A p \in Requests :
       candidate[p] = "finished" /\ p \notin contextDone /\ outcome[p] # "cancelled" =>
          \/ verdict[p] \in {"equivalent", "skipped"}
          \/ <<"divergent", p>> \in calls
          \/ <<"unable", p>> \in calls

\* A joined candidate always finishes, even if the reference never answers.
CandidatesFinish ==
    \A p \in Requests : (candidate[p] = "joined") ~> (candidate[p] = "finished")

\* A pair at every moment: its responses are held as long as a side needs them and no
\* longer, and a candidate that is finished with was compared or is quarantined.
PairsSound == ReferenceIntact /\ PairsDropped /\ FailClosed

=============================================================================

--------------------------- MODULE MirroringProofs ---------------------------
(***************************************************************************)
(* Mirrored requests and the two components they are made of: IngressPairs *)
(* for any requests, protocols and joins, CandidateRuns for any requests,  *)
(* limit and reasons, and Mirroring for any number of requests, slots and  *)
(* runs.                                                                   *)
(*                                                                         *)
(* PairsInvariant and RunsInvariant are inductive.  The first says of each *)
(* pair which of the engine's maps and flags hold it, given how far both   *)
(* of its goroutines are; the second adds to RunsSound that idle channels  *)
(* are made in order and where the one notification is.                    *)
(*                                                                         *)
(* MirroringInvariant adds to them how the handler, run and pair of a      *)
(* request fit together (Links) and what the sweeps have done (Swept).  A  *)
(* step of the composition is a step of each component (PairStep,          *)
(* RunStep), so that only the links remain to be shown for each action.    *)
(***************************************************************************)
EXTENDS Mirroring, TLAPS

USE SMTT(60) DEF mapVars, gateVars, sweepVars

-----------------------------------------------------------------------------
(* Pairs.                                                                  *)

\* What ties the two maps, the flags under p.mu and both goroutines of a pair together.
PairLinked(p) ==
    /\ <<p, "reference">> \in exchanges <=> reference[p] = "started"
    /\ <<p, "candidate">> \in exchanges <=> candidate[p] = "joined"
    /\ outcome[p] = "none" <=> reference[p] # "reported"
    /\ p \in joined <=> candidate[p] # "new"
    /\ p \in done <=> candidate[p] = "finished"
    /\ p \in requests <=> /\ reference[p] # "new" /\ candidate[p] # "finished"
                          /\ reference[p] = "reported" => candidate[p] # "new"
    /\ reference[p] = "new" => candidate[p] = "new"
    /\ <<p, "reference">> \in released <=>
          outcome[p] = "response" /\ candidate[p] \in {"new", "finished"}
    /\ candidate[p] = "finished" => <<p, "candidate">> \in released

\* How the comparison of a pair stands, and what its verdict rests on.
PairJudged(p) ==
    /\ candidate[p] \in {"awaiting", "comparing"} => p \notin ignored
    /\ candidate[p] = "comparing" => outcome[p] \in {"response", "failure"}
    /\ candidate[p] \in {"finishing", "finished"} =>
          /\ verdict[p] # "none"
          /\ verdict[p] = "unfinished" => p \in contextDone \/ outcome[p] = "cancelled"
          /\ verdict[p] \in {"divergent", "unable"} => <<verdict[p], p>> \in calls

\* The inductive invariant of the pairs.
PairsInvariant == PairsTypeOK /\ \A p \in Requests : PairLinked(p) /\ PairJudged(p)

-----------------------------------------------------------------------------
(* One lemma for each action.                                              *)

\* start registers the pair and its reference exchange.
LEMMA StartKeeps ==
    ASSUME NEW p \in Requests, PairsInvariant, Start(p)
    PROVE  PairsInvariant'
<1>1. PairsTypeOK'
  BY PairsAssumption DEF PairsInvariant, PairsTypeOK, Sides, Verdicts, Start
<1>2. ASSUME NEW q \in Requests PROVE PairLinked(q)'
  BY DEF PairsInvariant, PairsTypeOK, PairLinked, Start
<1>3. ASSUME NEW q \in Requests PROVE PairJudged(q)'
  BY Zenon DEF PairsInvariant, PairsTypeOK, PairLinked, PairJudged, Start
<1> QED BY <1>1, <1>2, <1>3 DEF PairsInvariant

\* Taking the reference's exchange keeps the pair for the report to come.
LEMMA TakeReferenceKeeps ==
    ASSUME NEW p \in Requests, PairsInvariant, TakeReference(p)
    PROVE  PairsInvariant'
<1>1. PairsTypeOK'
  BY PairsAssumption DEF PairsInvariant, PairsTypeOK, Sides, Verdicts, TakeReference
<1>2. ASSUME NEW q \in Requests PROVE PairLinked(q)'
  BY DEF PairsInvariant, PairsTypeOK, PairLinked, TakeReference
<1>3. ASSUME NEW q \in Requests PROVE PairJudged(q)'
  BY Zenon DEF PairsInvariant, PairsTypeOK, PairLinked, PairJudged, TakeReference
<1> QED BY <1>1, <1>2, <1>3 DEF PairsInvariant

\* The reference's report drops the pair only if no candidate needs it any more.
LEMMA FinishReferenceKeeps ==
    ASSUME NEW p \in Requests, PairsInvariant, FinishReference(p)
    PROVE  PairsInvariant'
<1>1. PairsTypeOK'
  BY PairsAssumption DEF PairsInvariant, PairsTypeOK, Sides, Verdicts, FinishReference
<1>2. ASSUME NEW q \in Requests PROVE PairLinked(q)'
  BY DEF PairsInvariant, PairsTypeOK, PairLinked, FinishReference
<1>3. ASSUME NEW q \in Requests PROVE PairJudged(q)'
  BY Zenon DEF PairsInvariant, PairsTypeOK, PairLinked, PairJudged, FinishReference
<1> QED BY <1>1, <1>2, <1>3 DEF PairsInvariant

\* admit lets a candidate join a pair that is still in the map.
LEMMA JoinKeeps ==
    ASSUME NEW p \in Requests, NEW used \in Protocols, PairsInvariant, Join(p, used)
    PROVE  PairsInvariant'
<1>1. PairsTypeOK'
  BY PairsAssumption DEF PairsInvariant, PairsTypeOK, Sides, Verdicts, Join
<1>2. ASSUME NEW q \in Requests PROVE PairLinked(q)'
  BY DEF PairsInvariant, PairsTypeOK, PairLinked, Join
<1>3. ASSUME NEW q \in Requests PROVE PairJudged(q)'
  BY Zenon DEF PairsInvariant, PairsTypeOK, PairLinked, PairJudged, Join
<1> QED BY <1>1, <1>2, <1>3 DEF PairsInvariant

\* A refused join touches no pair.
LEMMA JoinFailsKeeps ==
    ASSUME NEW p \in Requests, NEW used \in Protocols, PairsInvariant, JoinFails(p, used)
    PROVE  PairsInvariant'
<1>1. PairsTypeOK'
  BY PairsAssumption DEF PairsInvariant, PairsTypeOK, Sides, Verdicts, JoinFails
<1>2. ASSUME NEW q \in Requests PROVE PairLinked(q)'
  BY DEF PairsInvariant, PairsTypeOK, PairLinked, JoinFails
<1>3. ASSUME NEW q \in Requests PROVE PairJudged(q)'
  BY Zenon DEF PairsInvariant, PairsTypeOK, PairLinked, PairJudged, JoinFails
<1> QED BY <1>1, <1>2, <1>3 DEF PairsInvariant

\* A candidate that responded is skipped or waits for its reference.
LEMMA CandidateResponseKeeps ==
    ASSUME NEW p \in Requests, PairsInvariant, CandidateResponse(p)
    PROVE  PairsInvariant'
<1>1. PairsTypeOK'
  BY PairsAssumption DEF PairsInvariant, PairsTypeOK, Sides, Verdicts,
     CandidateResponse, Report
<1>2. ASSUME NEW q \in Requests PROVE PairLinked(q)'
  BY DEF PairsInvariant, PairsTypeOK, PairLinked, CandidateResponse, Report
<1>3. ASSUME NEW q \in Requests PROVE PairJudged(q)'
  <2>1. CASE q # p
    <3>1. PairJudged(q) /\ candidate'[q] = candidate[q] /\ verdict'[q] = verdict[q]
      BY <2>1 DEF PairsInvariant, PairsTypeOK, CandidateResponse, Report
    <3>2. calls \subseteq calls' /\ UNCHANGED <<outcome, ignored, contextDone>>
      BY DEF CandidateResponse, Report
    <3> QED BY <3>1, <3>2 DEF PairJudged
  <2>2. CASE q = p
    <3>1. PairLinked(p) /\ candidate[p] = "joined"
      BY DEF PairsInvariant, PairLinked, CandidateResponse
    <3> QED BY <2>2, <3>1 DEF PairsInvariant, PairsTypeOK, PairJudged, CandidateResponse,
           Report
  <2> QED BY <2>1, <2>2
<1> QED BY <1>1, <1>2, <1>3 DEF PairsInvariant

\* A candidate compares only with a reference that ended by itself.
LEMMA SeeReferenceKeeps ==
    ASSUME NEW p \in Requests, PairsInvariant, SeeReference(p)
    PROVE  PairsInvariant'
<1>1. PairsTypeOK'
  BY PairsAssumption DEF PairsInvariant, PairsTypeOK, Sides, Verdicts, SeeReference
<1>2. ASSUME NEW q \in Requests PROVE PairLinked(q)'
  BY DEF PairsInvariant, PairsTypeOK, PairLinked, SeeReference
<1>3. ASSUME NEW q \in Requests PROVE PairJudged(q)'
  <2>1. CASE q # p
    <3>1. PairJudged(q) /\ candidate'[q] = candidate[q] /\ verdict'[q] = verdict[q]
      BY <2>1 DEF PairsInvariant, PairsTypeOK, SeeReference
    <3>2. calls \subseteq calls' /\ UNCHANGED <<outcome, ignored, contextDone>>
      BY DEF SeeReference
    <3> QED BY <3>1, <3>2 DEF PairJudged
  <2>2. CASE q = p
    <3>1. PairJudged(p) /\ candidate[p] = "awaiting" /\ UNCHANGED <<outcome, ignored>>
      BY DEF PairsInvariant, SeeReference
    <3> QED BY <2>2, <3>1 DEF PairsInvariant, PairsTypeOK, PairJudged, SeeReference
  <2> QED BY <2>1, <2>2
<1> QED BY <1>1, <1>2, <1>3 DEF PairsInvariant

\* A candidate whose context is done is not judged.
LEMMA SeeContextDoneKeeps ==
    ASSUME NEW p \in Requests, PairsInvariant, SeeContextDone(p)
    PROVE  PairsInvariant'
<1>1. PairsTypeOK'
  BY PairsAssumption DEF PairsInvariant, PairsTypeOK, Sides, Verdicts, SeeContextDone
<1>2. ASSUME NEW q \in Requests PROVE PairLinked(q)'
  BY DEF PairsInvariant, PairsTypeOK, PairLinked, SeeContextDone
<1>3. ASSUME NEW q \in Requests PROVE PairJudged(q)'
  BY Zenon DEF PairsInvariant, PairsTypeOK, PairLinked, PairJudged, SeeContextDone
<1> QED BY <1>1, <1>2, <1>3 DEF PairsInvariant

\* A comparison ends in a verdict, against the candidate only with a calls.
LEMMA CompareKeeps ==
    ASSUME NEW p \in Requests, PairsInvariant, Compare(p)
    PROVE  PairsInvariant'
<1>1. PairsTypeOK'
  BY PairsAssumption DEF PairsInvariant, PairsTypeOK, Sides, Verdicts, Compare, Report,
     ComparisonOutcomes
<1>2. ASSUME NEW q \in Requests PROVE PairLinked(q)'
  BY DEF PairsInvariant, PairsTypeOK, PairLinked, Compare, Report
<1>3. ASSUME NEW q \in Requests PROVE PairJudged(q)'
  <2>1. CASE q # p
    <3>1. PairJudged(q) /\ candidate'[q] = candidate[q] /\ verdict'[q] = verdict[q]
      BY <2>1 DEF PairsInvariant, PairsTypeOK, Compare, Report, ComparisonOutcomes
    <3>2. calls \subseteq calls' /\ UNCHANGED <<outcome, ignored, contextDone>>
      BY DEF Compare, Report, ComparisonOutcomes
    <3> QED BY <3>1, <3>2 DEF PairJudged
  <2>2. CASE q = p
    <3>1. PICK result \in ComparisonOutcomes(p) :
             \/ /\ result = "unable" /\ p \in contextDone
                /\ verdict' = [verdict EXCEPT ![p] = "unfinished"]
             \/ Report(p, result)
      BY DEF Compare
    <3>2. result \in {"equivalent", "divergent", "skipped", "unable"}
      BY DEF ComparisonOutcomes
    <3>3. candidate' = [candidate EXCEPT ![p] = "finishing"] /\ contextDone' = contextDone
      BY DEF Compare
    <3> QED BY <2>2, <3>1, <3>2, <3>3 DEF PairsInvariant, PairsTypeOK, PairJudged, Report
  <2> QED BY <2>1, <2>2
<1> QED BY <1>1, <1>2, <1>3 DEF PairsInvariant

\* A candidate that failed is quarantined, skipped or out of time.
LEMMA CandidateUnableKeeps ==
    ASSUME NEW p \in Requests, PairsInvariant, CandidateUnable(p)
    PROVE  PairsInvariant'
<1>1. PairsTypeOK'
  BY PairsAssumption DEF PairsInvariant, PairsTypeOK, Sides, Verdicts, CandidateUnable, Report
<1>2. ASSUME NEW q \in Requests PROVE PairLinked(q)'
  BY DEF PairsInvariant, PairsTypeOK, PairLinked, CandidateUnable, Report
<1>3. ASSUME NEW q \in Requests PROVE PairJudged(q)'
  <2>1. CASE q # p
    <3>1. PairJudged(q) /\ candidate'[q] = candidate[q] /\ verdict'[q] = verdict[q]
      BY <2>1 DEF PairsInvariant, PairsTypeOK, CandidateUnable, Report
    <3>2. calls \subseteq calls' /\ UNCHANGED <<outcome, ignored, contextDone>>
      BY DEF CandidateUnable, Report
    <3> QED BY <3>1, <3>2 DEF PairJudged
  <2>2. CASE q = p
    <3>1. candidate'[p] = "finishing" /\ UNCHANGED <<outcome, ignored, contextDone>>
      BY DEF PairsInvariant, PairsTypeOK, CandidateUnable
    <3>2. \/ p \in contextDone /\ verdict'[p] = "unfinished"
          \/ verdict'[p] = "skipped"
          \/ verdict'[p] = "unable" /\ <<"unable", p>> \in calls'
      BY DEF PairsInvariant, PairsTypeOK, CandidateUnable, Report
    <3> QED BY <2>2, <3>1, <3>2 DEF PairJudged
  <2> QED BY <2>1, <2>2
<1> QED BY <1>1, <1>2, <1>3 DEF PairsInvariant

\* The deferred calls leave nothing of the pair behind.
LEMMA FinishCandidateKeeps ==
    ASSUME NEW p \in Requests, PairsInvariant, FinishCandidate(p)
    PROVE  PairsInvariant'
<1>1. PairsTypeOK'
  BY PairsAssumption DEF PairsInvariant, PairsTypeOK, Sides, Verdicts, FinishCandidate
<1>2. ASSUME NEW q \in Requests PROVE PairLinked(q)'
  BY DEF PairsInvariant, PairsTypeOK, PairLinked, FinishCandidate
<1>3. ASSUME NEW q \in Requests PROVE PairJudged(q)'
  BY Zenon DEF PairsInvariant, PairsTypeOK, PairLinked, PairJudged, FinishCandidate
<1> QED BY <1>1, <1>2, <1>3 DEF PairsInvariant

\* The end of a context touches no pair.
LEMMA ContextEndsKeeps ==
    ASSUME NEW p \in Requests, PairsInvariant, ContextEnds(p)
    PROVE  PairsInvariant'
<1>1. PairsTypeOK'
  BY PairsAssumption DEF PairsInvariant, PairsTypeOK, Sides, Verdicts, ContextEnds
<1>2. ASSUME NEW q \in Requests PROVE PairLinked(q)'
  BY DEF PairsInvariant, PairsTypeOK, PairLinked, ContextEnds
<1>3. ASSUME NEW q \in Requests PROVE PairJudged(q)'
  BY Zenon DEF PairsInvariant, PairsTypeOK, PairLinked, PairJudged, ContextEnds
<1> QED BY <1>1, <1>2, <1>3 DEF PairsInvariant

-----------------------------------------------------------------------------
(* All steps.                                                              *)

\* At the start no pair is in a map, joined, reported or judged.
LEMMA InitLinked == PairsInit => PairsInvariant
<1> SUFFICES ASSUME PairsInit PROVE PairsInvariant
  OBVIOUS
<1>1. PairsTypeOK
  BY PairsAssumption DEF PairsInit, PairsTypeOK, Sides, Verdicts
<1>2. ASSUME NEW p \in Requests PROVE PairLinked(p) /\ PairJudged(p)
  BY DEF PairsInit, PairLinked, PairJudged
<1> QED BY <1>1, <1>2 DEF PairsInvariant

\* A step that changes nothing keeps it.
LEMMA StutterLinked == PairsInvariant /\ UNCHANGED pairVars => PairsInvariant'
BY DEF pairVars, PairsInvariant, PairsTypeOK, PairLinked, PairJudged

\* Every step keeps it.
LEMMA NextLinked == PairsInvariant /\ [PairsNext]_(pairVars) => PairsInvariant'
<1> SUFFICES ASSUME PairsInvariant, [PairsNext]_(pairVars) PROVE PairsInvariant'
  OBVIOUS
<1>1. ASSUME NEW p \in Requests, Start(p) PROVE PairsInvariant'
  BY <1>1, StartKeeps
<1>2. ASSUME NEW p \in Requests, ReferenceStep(p) PROVE PairsInvariant'
  BY <1>2, TakeReferenceKeeps, FinishReferenceKeeps DEF ReferenceStep
<1>3. ASSUME NEW p \in Requests, CandidateStep(p) PROVE PairsInvariant'
  BY <1>3, CandidateResponseKeeps, CandidateUnableKeeps, SeeReferenceKeeps,
     SeeContextDoneKeeps, CompareKeeps, FinishCandidateKeeps DEF CandidateStep
<1>4. ASSUME NEW p \in Requests, ContextEnds(p) PROVE PairsInvariant'
  BY <1>4, ContextEndsKeeps
<1>5. ASSUME NEW p \in Requests, NEW used \in Protocols,
             Join(p, used) \/ JoinFails(p, used)
      PROVE  PairsInvariant'
  BY <1>5, JoinKeeps, JoinFailsKeeps
<1>6. CASE UNCHANGED pairVars
  BY <1>6, StutterLinked
<1> QED BY <1>1, <1>2, <1>3, <1>4, <1>5, <1>6 DEF PairsNext, PairsQuiescent

\* The maps, flags and goroutines of a pair agree in every reachable state.
THEOREM PairsAreLinked == PairsSpec => []PairsInvariant
BY InitLinked, NextLinked, PTL DEF PairsSpec

\* finishReference and finishCandidate free a reference response only when no candidate
\* can decode it any more and leave no pair behind, whichever comes last; a candidate
\* finished with in time was compared, skipped or quarantined.
THEOREM PairsAreSound == PairsSpec => []PairsSound
<1>1. ASSUME PairsInvariant PROVE PairsSound
  <2>1. ReferenceIntact
    BY Zenon, <1>1 DEF PairsInvariant, PairLinked, ReferenceIntact
  <2>2. PairsDropped
    BY <1>1 DEF PairsInvariant, PairLinked, PairsDropped
  <2>3. FailClosed
    <3> SUFFICES ASSUME NEW p \in Requests, candidate[p] = "finished", p \notin contextDone,
                        outcome[p] # "cancelled"
                 PROVE  \/ verdict[p] \in {"equivalent", "skipped"}
                        \/ <<"divergent", p>> \in calls
                        \/ <<"unable", p>> \in calls
      BY DEF FailClosed
    <3>1. PairJudged(p) /\ verdict[p] \in Verdicts
      BY <1>1 DEF PairsInvariant, PairsTypeOK
    <3> QED BY <3>1 DEF PairJudged, Verdicts
  <2> QED BY <2>1, <2>2, <2>3 DEF PairsSound
<1> QED BY <1>1, PairsAreLinked, PTL

\* report counts divergence against a candidate only with a reference response, and
\* unable only within its deadline and for a reference that was not cancelled.
THEOREM VerdictsAreJustified == PairsSpec => VerdictJustified
<1> DEFINE Justified(p) ==
              /\ <<"divergent", p>> \in calls' \ calls =>
                    p \notin ignored /\ outcome[p] = "response"
              /\ <<"unable", p>> \in calls' \ calls =>
                    /\ p \notin ignored /\ p \notin contextDone
                    /\ \/ <<p, "candidate">> \in exchanges
                       \/ outcome[p] \in {"response", "failure"}
<1>1. ASSUME PairsInvariant, PairsNext PROVE \A p \in Requests : Justified(p)
  <2>1. ASSUME calls' \subseteq calls PROVE \A p \in Requests : Justified(p)
    BY <2>1
  <2>2. ASSUME NEW q \in Requests, NEW used \in Protocols, JoinFails(q, used)
        PROVE  \A p \in Requests : Justified(p)
    BY <2>2 DEF JoinFails
  <2>3. ASSUME NEW q \in Requests, CandidateResponse(q) PROVE \A p \in Requests : Justified(p)
    BY Zenon, <2>1, <2>3 DEF CandidateResponse, Report
  <2>4. ASSUME NEW q \in Requests, CandidateUnable(q) PROVE \A p \in Requests : Justified(p)
    BY <2>4 DEF CandidateUnable, Report
  <2>5. ASSUME NEW q \in Requests, Compare(q) PROVE \A p \in Requests : Justified(p)
    <3>1. PairJudged(q) /\ candidate[q] = "comparing"
      BY <1>1, <2>5 DEF PairsInvariant, Compare
    <3>2. q \notin ignored /\ outcome[q] \in {"response", "failure"}
      BY <3>1 DEF PairJudged
    <3>3. PICK result \in ComparisonOutcomes(q) :
             \/ UNCHANGED calls
             \/ /\ ~(result = "unable" /\ q \in contextDone)
                /\ calls' = IF result \in {"divergent", "unable"}
                                 THEN calls \cup {<<result, q>>} ELSE calls
      BY <2>5 DEF Compare, Report
    <3>4. result = "divergent" => outcome[q] = "response"
      BY <3>2, <3>3 DEF ComparisonOutcomes
    <3> QED BY <3>2, <3>3, <3>4
  <2> QED BY Zenon, <1>1, <2>1, <2>2, <2>3, <2>4, <2>5
          DEF PairsNext, ReferenceStep, CandidateStep, PairsQuiescent, pairVars,
              Start, TakeReference,
              FinishReference, Join, SeeReference, SeeContextDone,
              FinishCandidate,
              ContextEnds
<1>2. PairsSpec => [][PairsInvariant /\ PairsNext]_(pairVars)
  BY PairsAreLinked, PTL DEF PairsSpec
<1> QED BY <1>1, <1>2, PTL DEF VerdictJustified

-----------------------------------------------------------------------------
(* Runs.                                                                   *)

USE RunsAssumption

\* The notification is in the channel, or was received, exactly once a quarantine began.
Notified ==
    \/ quarantine = None /\ quarantined = <<>> /\ received = <<>>
    \/ quarantine # None /\ quarantined = <<quarantine>> /\ received = <<>>
    \/ quarantine # None /\ quarantined = <<>> /\ received = <<quarantine>>

\* The active runs, and c.idle, which is closed exactly without them.
RunsTracked ==
    /\ RunsTypeOK
    /\ runs = {r \in Requests : work[r] = "running"}
    /\ idle \in closed <=> runs = {}

\* The inductive invariant of the runs: channels are made in order, and the notification is
\* one.  That the runs keep to their limit follows apart from it (WithinLimit).
RunsInvariant ==
    /\ RunsTracked
    /\ NoRunEscapes
    /\ Notified
    /\ closed \subseteq 0 .. idle

\* Admission and the end of a run keep the idle channel closed exactly without runs.
LEMMA AdmitSound ==
    ASSUME RunsInvariant, NEW r \in Requests, Admit(r)
    PROVE  RunsInvariant'
<1>1. RunsTypeOK'
  BY DEF RunsInvariant, RunsTracked, RunsTypeOK, Admit, Works, Sweeps
<1>2. runs' = {x \in Requests : work'[x] = "running"}
  BY DEF RunsInvariant, RunsTracked, RunsTypeOK, Admit
<1>3. idle' \in closed' <=> runs' = {}
  <2>1. CASE runs = {}
    BY <2>1 DEF RunsInvariant, RunsTracked, RunsTypeOK, Admit
  <2>2. CASE runs # {}
    BY <2>2 DEF RunsInvariant, RunsTracked, RunsTypeOK, Admit
  <2> QED BY <2>1, <2>2
<1>4. closed' \subseteq 0 .. idle'
  BY DEF RunsInvariant, RunsTracked, RunsTypeOK, Admit
<1>5. NoRunEscapes' /\ Notified'
  BY DEF RunsInvariant, NoRunEscapes, Notified, Admit
<1> QED BY <1>1, <1>2, <1>3, <1>4, <1>5 DEF RunsInvariant, RunsTracked

\* The run that ends is removed, and the last one closes the channel.
LEMMA FinishSound ==
    ASSUME RunsInvariant, NEW r \in Requests, Finish(r)
    PROVE  RunsInvariant'
<1>1. RunsTypeOK'
  BY DEF RunsInvariant, RunsTracked, RunsTypeOK, Finish, Works, Sweeps
<1>2. r \in runs
  BY DEF RunsInvariant, RunsTracked, RunsTypeOK, Finish
<1>3. runs' = {x \in Requests : work'[x] = "running"}
  BY DEF RunsInvariant, RunsTracked, RunsTypeOK, Finish
<1>4. (idle' \in closed' <=> runs' = {}) /\ closed' \subseteq 0 .. idle'
  BY <1>2 DEF RunsInvariant, RunsTracked, RunsTypeOK, Finish
<1>5. NoRunEscapes' /\ Notified'
  BY DEF RunsInvariant, NoRunEscapes, Notified, Finish
<1> QED BY <1>1, <1>3, <1>4, <1>5 DEF RunsInvariant, RunsTracked

\* A handler that is not running moves without a run of its own.
LEMMA RefusedSound ==
    ASSUME RunsInvariant, NEW r \in Requests, work[r] # "running",
           NEW w \in Works \ {"running"},
           work' = [work EXCEPT ![r] = w], RunsTypeOK',
           UNCHANGED <<runs, idle, closed>>, NoRunEscapes', Notified'
    PROVE  RunsInvariant'
<1>1. runs' = {x \in Requests : work'[x] = "running"}
  BY DEF RunsInvariant, RunsTracked, RunsTypeOK
<1> QED BY <1>1 DEF RunsInvariant, RunsTracked

\* Quarantine publishes its reason and takes the snapshot in one critical section.
LEMMA QuarantineSound ==
    ASSUME RunsInvariant, NEW reason \in Reasons \cup {Capacity}, Quarantine(reason),
           UNCHANGED received
    PROVE  /\ UNCHANGED <<runs, idle, closed, closing, cancelled, waitsOn>>
           /\ NoRunEscapes' /\ Notified'
           /\ quarantine' \in Reasons \cup {Capacity, None}
           /\ quarantined' \in Seq(Reasons \cup {Capacity})
           /\ sweep' \in [Sweeps -> Phases]
           /\ left' \in [Sweeps -> SUBSET Requests]
<1>1. CASE quarantine # None /\ UNCHANGED <<gateVars, sweepVars>>
  BY <1>1 DEF RunsInvariant, NoRunEscapes, Notified, RunsTracked, RunsTypeOK
<1>2. CASE quarantine = None /\ ~UNCHANGED <<gateVars, sweepVars>>
  <2>1. /\ quarantine' = reason /\ quarantined' = <<reason>>
        /\ sweep' = [sweep EXCEPT !["quarantine"] = "cancelling"]
        /\ left' = [left EXCEPT !["quarantine"] = runs]
        /\ UNCHANGED <<closing, runs, idle, closed, cancelled, waitsOn>>
    BY <1>2 DEF Quarantine
  <2>2. /\ left'["quarantine"] = runs /\ left'["close"] = left["close"]
        /\ left'["shutdown"] = left["shutdown"]
    BY <2>1 DEF RunsInvariant, RunsTracked, RunsTypeOK, Sweeps
  <2>3. NoRunEscapes'
    BY <2>1, <2>2 DEF RunsInvariant, NoRunEscapes
  <2>4. reason # None /\ Notified'
    BY <1>2, <2>1 DEF RunsInvariant, Notified
  <2> QED BY <2>1, <2>3, <2>4 DEF RunsInvariant, RunsTracked, RunsTypeOK, Sweeps, Phases
<1> QED BY <1>1, <1>2 DEF Quarantine

\* A component that calls Quarantine changes nothing else.
LEMMA QuarantineCallSound ==
    ASSUME RunsInvariant, NEW reason \in Reasons \cup {Capacity}, QuarantineCall(reason)
    PROVE  RunsInvariant'
<1>1. Quarantine(reason) /\ UNCHANGED <<work, received>>
  BY DEF QuarantineCall
<1>2. /\ UNCHANGED <<runs, idle, closed, closing, cancelled, waitsOn>>
      /\ NoRunEscapes' /\ Notified'
      /\ quarantine' \in Reasons \cup {Capacity, None}
      /\ quarantined' \in Seq(Reasons \cup {Capacity})
      /\ sweep' \in [Sweeps -> Phases]
      /\ left' \in [Sweeps -> SUBSET Requests]
  BY <1>1, QuarantineSound
<1>3. RunsTypeOK'
  BY <1>1, <1>2 DEF RunsInvariant, RunsTracked, RunsTypeOK
<1> QED BY <1>1, <1>2, <1>3 DEF RunsInvariant, RunsTracked

\* Every call, sweep and receive keeps the invariant.
LEMMA NextSound ==
    ASSUME RunsInvariant, [RunsNext]_(runVars)
    PROVE  RunsInvariant'
<1>1. CASE UNCHANGED runVars
  BY <1>1 DEF runVars, RunsInvariant, RunsTracked, RunsTypeOK, NoRunEscapes, Notified
<1>2. ASSUME NEW r \in Requests, Refuse(r) \/ ExceedCapacity(r)
      PROVE  RunsInvariant'
  <2>1. PICK w \in {"refused", "exceeding"} :
           /\ work[r] = "new" /\ work' = [work EXCEPT ![r] = w]
           /\ UNCHANGED <<gateVars, sweepVars, received>>
    BY <1>2 DEF Refuse, ExceedCapacity
  <2>2. RunsTypeOK'
    BY <2>1 DEF RunsInvariant, RunsTracked, RunsTypeOK, Works, Sweeps
  <2>3. NoRunEscapes' /\ Notified'
    BY <2>1 DEF RunsInvariant, NoRunEscapes, Notified
  <2> QED BY Zenon, <2>1, <2>2, <2>3, RefusedSound DEF Works
<1>3. ASSUME NEW r \in Requests, QuarantineCapacity(r) PROVE RunsInvariant'
  <2>1. /\ work[r] = "exceeding" /\ work' = [work EXCEPT ![r] = "refused"]
        /\ Quarantine(Capacity) /\ UNCHANGED received
    BY <1>3 DEF QuarantineCapacity
  <2>2. /\ RunsTypeOK' /\ NoRunEscapes' /\ Notified'
        /\ UNCHANGED <<runs, idle, closed>>
    BY Zenon, <2>1, QuarantineSound DEF RunsInvariant, RunsTracked, RunsTypeOK, Works
  <2> QED BY Zenon, <2>1, <2>2, RefusedSound DEF Works
<1>4. ASSUME NEW reason \in Reasons, QuarantineCall(reason) PROVE RunsInvariant'
  BY Zenon, <1>4, QuarantineCallSound
<1>5. ASSUME NEW s \in {"close", "shutdown"}, StartClose(s) PROVE RunsInvariant'
  <2>1. left'[s] = runs /\ \A t \in Sweeps \ {s} : left'[t] = left[t]
    BY <1>5 DEF StartClose, RunsInvariant, RunsTracked, RunsTypeOK, Sweeps
  <2>2. NoRunEscapes'
    BY <1>5, <2>1 DEF StartClose, RunsInvariant, NoRunEscapes, Sweeps
  <2>3. RunsTypeOK'
    BY <1>5 DEF StartClose, RunsInvariant, RunsTracked, RunsTypeOK, Sweeps, Phases
  <2> QED BY <1>5, <2>2, <2>3 DEF StartClose, RunsInvariant, RunsTracked, Notified
<1>6. ASSUME NEW s \in Sweeps, NEW r \in Requests, CancelRun(s, r)
      PROVE  RunsInvariant'
  <2>1. /\ \A t \in Sweeps : left[t] \subseteq left'[t] \cup {r}
        /\ cancelled' = cancelled \cup {r}
    BY <1>6 DEF CancelRun, RunsInvariant, RunsTracked, RunsTypeOK
  <2>2. NoRunEscapes'
    BY <1>6, <2>1 DEF CancelRun, RunsInvariant, NoRunEscapes, Sweeps
  <2> QED BY <1>6, <2>2 DEF CancelRun, RunsInvariant, RunsTracked, RunsTypeOK, Notified
<1>7. ASSUME NEW s \in Sweeps, EndSweep(s) PROVE RunsInvariant'
  BY <1>7 DEF EndSweep, RunsInvariant, RunsTracked, RunsTypeOK,
     NoRunEscapes, Notified, Phases
<1>8. CASE ShutdownReturns
  BY <1>8 DEF ShutdownReturns, RunsInvariant, RunsTracked,
     RunsTypeOK, NoRunEscapes, Notified, Phases
<1>9. CASE Receive
  <2>1. /\ quarantine # None /\ quarantined = <<quarantine>> /\ received = <<>>
        /\ received' = Append(received, Head(quarantined)) /\ quarantined' = Tail(quarantined)
    BY <1>9 DEF Receive, RunsInvariant, Notified
  <2>2. received' = <<quarantine>> /\ quarantined' = <<>>
    BY <2>1
  <2>3. UNCHANGED <<closing, quarantine, runs, idle, closed, work, sweepVars>>
    BY <1>9 DEF Receive
  <2>4. Notified' /\ NoRunEscapes'
    BY <2>1, <2>2, <2>3 DEF RunsInvariant, Notified, NoRunEscapes
  <2>5. quarantine \in Reasons \cup {Capacity}
    BY <2>1 DEF RunsInvariant, RunsTracked, RunsTypeOK
  <2> QED BY <2>2, <2>3, <2>4, <2>5 DEF RunsInvariant, RunsTracked, RunsTypeOK
<1> QED BY <1>1, <1>2, <1>3, <1>4, <1>5, <1>6, <1>7, <1>8, <1>9, AdmitSound, FinishSound
       DEF RunsNext, StartCall, SweepStep

\* At first there are no runs, no sweeps and no quarantine.
LEMMA InitRuns ==
    ASSUME RunsInit
    PROVE  RunsInvariant
<1>1. RunsTypeOK
  <2>1. quarantined \in Seq(Reasons \cup {Capacity}) /\ received \in Seq(Reasons \cup {Capacity})
    BY DEF RunsInit
  <2>2. /\ work \in [Requests -> Works]
        /\ sweep \in [Sweeps -> Phases]
        /\ left \in [Sweeps -> SUBSET Requests]
    BY DEF RunsInit, Works, Phases
  <2>3. /\ closing \in BOOLEAN /\ quarantine \in Reasons \cup {Capacity, None}
        /\ runs \in SUBSET Requests /\ cancelled \in SUBSET Requests
    BY Zenon DEF RunsInit
  <2>4. idle \in Nat /\ closed \in SUBSET Nat /\ waitsOn \in Nat
    BY DEF RunsInit
  <2> QED BY <2>1, <2>2, <2>3, <2>4 DEF RunsTypeOK
<1>2. RunsTracked
  BY <1>1 DEF RunsInit, RunsTracked
<1> QED BY <1>2 DEF RunsInit, RunsInvariant, NoRunEscapes, Notified

-----------------------------------------------------------------------------
(* Mirrored requests: both components and the handlers.                    *)

USE MirroringAssumption, PairsAssumption, RunsAssumption

\* A handler h, run w, reference r and candidate c that belong to one request.
Links(h, w, r, c) ==
    /\ h # "unpaired"
    /\ h \in {"new", "rejected", "accepted"} => w = "new"
    /\ h = "direct" => w \in {"new", "refused"}
    /\ h = "exceeding" => w = "exceeding"
    /\ h \in {"admitted", "paired"} => w = "running"
    /\ h \notin {"paired", "forwarding", "done"} => r = "new"
    /\ h = "paired" => r = "started"
    /\ h = "done" => r \in {"new", "reported"}
    /\ c # "new" <=> h = "forwarding" \/ (h = "done" /\ r # "new")
    /\ c \notin {"new", "finished"} => w = "running"

\* The request's handler, run and pair fit together, and it was never held against the
\* candidate that it could not join.
Linked(q) ==
    Links(handler[q], work[q], reference[q], candidate[q]) /\ <<"pairing", q>> \notin calls

\* Shutdown waits on the last idle channel, and a sweep that is done has cancelled its runs.
Swept ==
    /\ sweep["shutdown"] # "none" => closing /\ waitsOn = idle
    /\ sweep["shutdown"] = "idle" => runs = {}
    /\ sweep["quarantine"] = "done" => left["quarantine"] = {}
    /\ cancelled \subseteq contextDone

\* The inductive invariant of the composition.
MirroringInvariant ==
    /\ TypeOK /\ PairsInvariant /\ RunsInvariant /\ Swept
    /\ \A q \in Requests : Linked(q)

\* What a step does to the candidates.
RunStep ==
    \/ UNCHANGED runVars
    \/ \E q \in Requests : \/ StartCall(q) \/ Finish(q)
                           \/ QuarantineCapacity(q)
    \/ \E reason \in Reasons \cup {Capacity} : QuarantineCall(reason)
    \/ StartClose("shutdown") \/ ShutdownReturns \/ Receive
    \/ \E s \in Sweeps : SweepStep(s)

\* What a step does to the pairs, but for the contexts that end.
PairStep ==
    \/ UNCHANGED pairVars
    \/ \E q \in Requests : \/ Start(q) \/ ReferenceStep(q) \/ CandidateStep(q)
                           \/ ContextEnds(q)
                           \/ \E used \in Protocols :
                                 Join(q, used) \/ JoinFails(q, used)
    \/ /\ contextDone \subseteq contextDone' /\ contextDone' \subseteq Requests
       /\ UNCHANGED <<requests, exchanges, protocol, ignored, outcome, joined, done, reference,
                      candidate, verdict, released, joins, calls>>

\* Contexts that end, for whichever reason, leave the pairs linked.
LEMMA PairStepKeeps ==
    ASSUME PairsInvariant, PairStep
    PROVE  PairsInvariant'
<1>1. CASE UNCHANGED pairVars
  BY <1>1, StutterLinked DEF pairVars
<1>2. CASE \E q \in Requests :
              \/ Start(q) \/ ReferenceStep(q) \/ CandidateStep(q)
              \/ ContextEnds(q)
              \/ \E used \in Protocols : Join(q, used) \/ JoinFails(q, used)
  BY Zenon, <1>2, NextLinked DEF PairsNext
<1>3. CASE /\ contextDone \subseteq contextDone' /\ contextDone' \subseteq Requests
           /\ UNCHANGED <<requests, exchanges, protocol, ignored, outcome, joined, done,
                          reference, candidate, verdict, released, joins, calls>>
  <2>1. PairsTypeOK'
    BY <1>3 DEF PairsInvariant, PairsTypeOK
  <2>2. ASSUME NEW q \in Requests PROVE PairLinked(q)' /\ PairJudged(q)'
    BY Zenon, <1>3 DEF PairsInvariant, PairLinked, PairJudged
  <2> QED BY <2>1, <2>2 DEF PairsInvariant
<1> QED BY <1>1, <1>2, <1>3 DEF PairStep

\* A step of the candidates keeps their invariant.
LEMMA RunStepKeeps ==
    ASSUME RunsInvariant, RunStep
    PROVE  RunsInvariant'
<1>1. CASE UNCHANGED runVars
  <2>1. UNCHANGED runVars
    BY <1>1 DEF runVars
  <2> QED BY Zenon, <2>1, NextSound
<1>2. CASE \E reason \in Reasons \cup {Capacity} : QuarantineCall(reason)
  BY Zenon, <1>2, QuarantineCallSound
<1>3. CASE RunsNext
  BY Zenon, <1>3, NextSound
<1> QED BY Zenon, <1>1, <1>2, <1>3 DEF RunStep, RunsNext

\* Quarantine leaves the runs, their channel and Shutdown alone.
LEMMA QuarantineLeaves ==
    ASSUME RunsInvariant, NEW reason, Quarantine(reason)
    PROVE  /\ UNCHANGED <<closing, runs, idle, closed, cancelled, waitsOn>>
           /\ sweep'["shutdown"] = sweep["shutdown"]
           /\ \/ UNCHANGED <<sweep, left>>
              \/ sweep'["quarantine"] = "cancelling"
BY DEF Quarantine, RunsInvariant, RunsTracked, RunsTypeOK, Sweeps

\* Sweeps and Shutdown go on as they should while the contexts of cancelled runs end.
LEMMA SweptKept ==
    ASSUME RunsInvariant, Swept, RunStep, contextDone \cup cancelled' \subseteq contextDone'
    PROVE  Swept'
<1> USE DEF Swept, RunsInvariant, RunsTracked, RunsTypeOK, Sweeps
<1>1. CASE UNCHANGED runVars
  BY <1>1 DEF runVars
<1>2. ASSUME NEW q \in Requests, Admit(q) PROVE Swept'
  BY <1>2 DEF Admit
<1>3. ASSUME NEW q \in Requests,
             Refuse(q) \/ ExceedCapacity(q) \/ Finish(q)
      PROVE  Swept'
  BY <1>3 DEF Refuse, ExceedCapacity, Finish
<1>4. ASSUME NEW reason, Quarantine(reason) PROVE Swept'
  BY <1>4, QuarantineLeaves
<1>5. CASE StartClose("shutdown")
  BY <1>5 DEF StartClose
<1>6. CASE ShutdownReturns
  BY <1>6 DEF ShutdownReturns
<1>7. CASE Receive
  BY <1>7 DEF Receive
<1>8. ASSUME NEW s \in Sweeps, NEW q \in Requests, CancelRun(s, q)
      PROVE  Swept'
  BY <1>8 DEF CancelRun
<1>9. ASSUME NEW s \in Sweeps, EndSweep(s) PROVE Swept'
  BY <1>9 DEF EndSweep
<1> HIDE DEF Swept, RunsInvariant, RunsTracked, RunsTypeOK, Sweeps
<1> QED BY Zenon, <1>1, <1>2, <1>3, <1>4, <1>5, <1>6, <1>7, <1>8, <1>9 DEF RunStep,
       StartCall, QuarantineCapacity, QuarantineCall,
       SweepStep

\* The states of a handler.
Handlers ==
    {"new", "rejected", "accepted", "direct", "exceeding", "admitted", "paired", "unpaired",
     "forwarding", "done"}

\* A step moves the handler, the run and the pair of q, and makes no join fail.
Moves(q, h, w, r, c) ==
    /\ handler' = [handler EXCEPT ![q] = h] /\ work' = [work EXCEPT ![q] = w]
    /\ reference' = [reference EXCEPT ![q] = r] /\ candidate' = [candidate EXCEPT ![q] = c]
    /\ \A y \in Requests : <<"pairing", y>> \in calls' => <<"pairing", y>> \in calls

\* A step of one request that leaves it linked leaves all of them linked.
LEMMA LinkedKept ==
    ASSUME MirroringInvariant, NEW q \in Requests,
           NEW h \in Handlers, NEW w, NEW r, NEW c, Links(h, w, r, c), Moves(q, h, w, r, c)
    PROVE  handler' \in [Requests -> Handlers] /\ \A y \in Requests : Linked(y)'
<1> USE DEF Moves
<1>1. /\ handler \in [Requests -> Handlers] /\ DOMAIN work = Requests
      /\ DOMAIN reference = Requests /\ DOMAIN candidate = Requests
  BY DEF MirroringInvariant, TypeOK, PairsTypeOK, RunsTypeOK, Handlers
<1>2. handler' \in [Requests -> Handlers]
  BY <1>1
<1>3. ASSUME NEW y \in Requests PROVE Linked(y)'
  <2>1. Linked(y)
    BY Zenon DEF MirroringInvariant
  <2>2. CASE y = q
    <3>1. handler'[y] = h /\ work'[y] = w /\ reference'[y] = r /\ candidate'[y] = c
      BY <1>1, <2>2
    <3> QED BY Zenon, <2>1, <3>1 DEF Linked
  <2>3. CASE y # q
    <3>1. /\ handler'[y] = handler[y] /\ work'[y] = work[y]
          /\ reference'[y] = reference[y] /\ candidate'[y] = candidate[y]
      BY <1>1, <2>3
    <3> QED BY Zenon, <2>1, <3>1 DEF Linked
  <2> QED BY <2>2, <2>3
<1> QED BY <1>2, <1>3

\* A step that no handler, run or pair takes part in.
LEMMA LinkedUntouched ==
    ASSUME MirroringInvariant, UNCHANGED <<handler, work, reference, candidate, calls>>
    PROVE  handler' \in [Requests -> Handlers] /\ \A y \in Requests : Linked(y)'
BY DEF MirroringInvariant, TypeOK, Handlers, Linked

\* Both sides and every link make up the invariant.
LEMMA Together ==
    ASSUME MirroringInvariant, PairStep, RunStep,
           contextDone \cup cancelled' \subseteq contextDone',
           handler' \in [Requests -> Handlers], \A y \in Requests : Linked(y)'
    PROVE  MirroringInvariant'
<1>1. PairsInvariant' /\ RunsInvariant' /\ Swept'
  BY Zenon, PairStepKeeps, RunStepKeeps, SweptKept DEF MirroringInvariant
<1>2. TypeOK'
  BY Zenon, <1>1 DEF TypeOK, PairsInvariant, RunsInvariant, RunsTracked, Handlers
<1> QED BY Zenon, <1>1, <1>2 DEF MirroringInvariant

\* What the invariant says of one request.
LEMMA AtRequest ==
    ASSUME MirroringInvariant, NEW q \in Requests
    PROVE  /\ Links(handler[q], work[q], reference[q], candidate[q]) /\ PairLinked(q)
           /\ handler[q] \in Handlers
           /\ handler = [handler EXCEPT ![q] = handler[q]]
           /\ work = [work EXCEPT ![q] = work[q]]
           /\ reference = [reference EXCEPT ![q] = reference[q]]
           /\ candidate = [candidate EXCEPT ![q] = candidate[q]]
           /\ protocol[q] \in Protocols
<1>1. Linked(q) /\ PairLinked(q)
  BY Zenon DEF MirroringInvariant, PairsInvariant
<1>2. /\ handler \in [Requests -> Handlers] /\ work \in [Requests -> Works]
      /\ protocol \in [Requests -> Protocols]
      /\ \E S, T : reference \in [Requests -> S] /\ candidate \in [Requests -> T]
  BY Zenon DEF MirroringInvariant, TypeOK, Handlers, PairsTypeOK, RunsTypeOK
<1> QED BY <1>1, <1>2 DEF Linked

-----------------------------------------------------------------------------
(* One lemma for each step of a request.                                   *)

\* The request is accepted or rejected, or the reference alone serves it.
LEMMA ServedKeeps ==
    ASSUME MirroringInvariant, NEW q \in Requests, Accept(q) \/ ServeReference(q)
    PROVE  MirroringInvariant'
<1>1. PICK h \in {"accepted", "rejected", "done"} :
         /\ handler' = [handler EXCEPT ![q] = h] /\ UNCHANGED <<pairVars, runVars>>
         /\ IF h = "done" THEN handler[q] = "direct" ELSE handler[q] = "new"
  BY DEF Accept, ServeReference, Becomes
<1>2. UNCHANGED <<work, reference, candidate, calls, contextDone, cancelled>>
  BY <1>1 DEF pairVars, runVars
<1>3. Links(h, work[q], reference[q], candidate[q])
  BY <1>1, AtRequest DEF Links
<1>4. handler' \in [Requests -> Handlers] /\ \A y \in Requests : Linked(y)'
  <2>1. h \in Handlers /\ Moves(q, h, work[q], reference[q], candidate[q])
    BY <1>1, <1>2, <1>3, AtRequest DEF Handlers, Moves
  <2> QED BY Zenon, <2>1, <1>3, LinkedKept
<1>5. contextDone \cup cancelled' \subseteq contextDone'
  BY Zenon, <1>2 DEF MirroringInvariant, Swept
<1> QED BY Zenon, <1>1, <1>4, <1>5, Together DEF PairStep, RunStep

\* mirrors returns false, with or without a quarantine.
LEMMA PassThroughKeeps ==
    ASSUME MirroringInvariant, NEW q \in Requests, PassThrough(q)
    PROVE  MirroringInvariant'
<1>1. /\ handler[q] = "accepted" /\ handler' = [handler EXCEPT ![q] = "direct"]
      /\ UNCHANGED pairVars
      /\ UNCHANGED runVars \/ QuarantineCall("unlisted")
  BY DEF PassThrough, Becomes
<1>2. UNCHANGED <<work, reference, candidate, calls, contextDone, cancelled>>
  BY <1>1, QuarantineLeaves DEF pairVars, runVars, QuarantineCall, MirroringInvariant
<1>3. Links("direct", work[q], reference[q], candidate[q])
  BY <1>1, AtRequest DEF Links
<1>4. handler' \in [Requests -> Handlers] /\ \A y \in Requests : Linked(y)'
  <2>1. "direct" \in Handlers /\ Moves(q, "direct", work[q], reference[q], candidate[q])
    BY <1>1, <1>2, <1>3, AtRequest DEF Handlers, Moves
  <2> QED BY Zenon, <2>1, <1>3, LinkedKept
<1>5. contextDone \cup cancelled' \subseteq contextDone'
  BY Zenon, <1>2 DEF MirroringInvariant, Swept
<1>6. RunStep
  BY Zenon, <1>1, KindsAssumption DEF RunStep, Kinds
<1> QED BY Zenon, <1>1, <1>4, <1>5, <1>6, Together DEF PairStep

\* Start admits the run, refuses it, or finds no capacity and then quarantines.
LEMMA StartKeepsLinks ==
    ASSUME MirroringInvariant, NEW q \in Requests,
           StartRun(q) \/ RunRefused(q) \/ CapacityExceeded(q)
    PROVE  MirroringInvariant'
<1>1. PICK h \in {"admitted", "direct", "exceeding"}, w \in {"running", "refused", "exceeding"} :
         /\ handler' = [handler EXCEPT ![q] = h] /\ work' = [work EXCEPT ![q] = w]
         /\ UNCHANGED <<pairVars, cancelled>> /\ RunStep
         /\ <<h, w>> \in {<<"admitted", "running">>, <<"direct", "refused">>,
                          <<"exceeding", "exceeding">>}
         /\ handler[q] \in {"accepted", "exceeding"}
  <2>1. CASE StartRun(q)
    <3>1. RunStep
      BY Zenon, <2>1 DEF StartRun, RunStep, StartCall
    <3> QED BY <2>1, <3>1 DEF StartRun, Becomes, Admit
  <2>2. CASE RunRefused(q)
    BY <2>2 DEF RunRefused, Becomes, Refuse, ExceedCapacity, RunStep, StartCall
  <2>3. CASE CapacityExceeded(q)
    <3>1. RunStep
      BY Zenon, <2>3 DEF CapacityExceeded, RunStep
    <3>2. UNCHANGED cancelled
      BY Zenon, <2>3, QuarantineLeaves DEF CapacityExceeded, QuarantineCapacity,
         MirroringInvariant
    <3> QED BY <2>3, <3>1, <3>2 DEF CapacityExceeded, Becomes, QuarantineCapacity
  <2> QED BY <2>1, <2>2, <2>3
<1>2. UNCHANGED <<reference, candidate, calls, contextDone, cancelled>>
  BY <1>1 DEF pairVars
<1>3. Links(h, w, reference[q], candidate[q])
  BY <1>1, AtRequest DEF Links
<1>4. handler' \in [Requests -> Handlers] /\ \A y \in Requests : Linked(y)'
  <2>1. h \in Handlers /\ Moves(q, h, w, reference[q], candidate[q])
    BY <1>1, <1>2, <1>3, AtRequest DEF Handlers, Moves
  <2> QED BY Zenon, <2>1, <1>3, LinkedKept
<1>5. contextDone \cup cancelled' \subseteq contextDone'
  BY Zenon, <1>2 DEF MirroringInvariant, Swept
<1> QED BY Zenon, <1>1, <1>4, <1>5, Together DEF PairStep

\* The reference's point starts the pair.
LEMMA StartPairKeeps ==
    ASSUME MirroringInvariant, NEW q \in Requests, StartPair(q)
    PROVE  MirroringInvariant'
<1>1. /\ handler[q] = "admitted" /\ handler' = [handler EXCEPT ![q] = "paired"]
      /\ reference' = [reference EXCEPT ![q] = "started"] /\ Start(q)
      /\ UNCHANGED <<runVars, candidate, calls, contextDone>>
  BY DEF StartPair, Becomes, Start
<1>2. UNCHANGED <<work, cancelled>>
  BY <1>1 DEF runVars
<1>3. Links("paired", work[q], "started", candidate[q])
  BY <1>1, AtRequest DEF Links
<1>4. handler' \in [Requests -> Handlers] /\ \A y \in Requests : Linked(y)'
  <2>1. "paired" \in Handlers /\ Moves(q, "paired", work[q], "started", candidate[q])
    BY <1>1, <1>2, <1>3, AtRequest DEF Handlers, Moves
  <2> QED BY Zenon, <2>1, <1>3, LinkedKept
<1>5. contextDone \cup cancelled' \subseteq contextDone'
  BY Zenon, <1>1, <1>2 DEF MirroringInvariant, Swept
<1> QED BY Zenon, <1>1, <1>4, <1>5, Together DEF PairStep, RunStep

\* The candidate's point joins the pair that its own handler started: the join cannot fail.
LEMMA JoinPairKeeps ==
    ASSUME MirroringInvariant, NEW q \in Requests, JoinPair(q)
    PROVE  MirroringInvariant'
<1>1. reference[q] = "started" /\ candidate[q] = "new" /\ PairLinked(q)
  BY Zenon, AtRequest DEF JoinPair, Links
<1>2. q \in requests /\ q \notin joined
  BY Zenon, <1>1 DEF PairLinked
<1>3. /\ handler[q] = "paired" /\ handler' = [handler EXCEPT ![q] = "forwarding"]
      /\ candidate' = [candidate EXCEPT ![q] = "joined"] /\ Join(q, protocol[q])
      /\ UNCHANGED <<reference, calls, contextDone>>
  BY Zenon, <1>2 DEF JoinPair, JoinFails, Join, Becomes
<1>4. UNCHANGED runVars
  BY <1>3 DEF JoinPair, Quarantining
<1>5. UNCHANGED <<work, cancelled>>
  BY <1>4 DEF runVars
<1>6. Links("forwarding", work[q], reference[q], "joined")
  BY <1>1, <1>3, AtRequest DEF Links
<1>7. handler' \in [Requests -> Handlers] /\ \A y \in Requests : Linked(y)'
  <2>1. "forwarding" \in Handlers /\ Moves(q, "forwarding", work[q], reference[q], "joined")
    BY <1>3, <1>5, <1>6, AtRequest DEF Handlers, Moves
  <2> QED BY Zenon, <2>1, <1>6, LinkedKept
<1>8. contextDone \cup cancelled' \subseteq contextDone'
  BY Zenon, <1>3, <1>5 DEF MirroringInvariant, Swept
<1>9. PairStep /\ RunStep
  BY Zenon, <1>3, <1>4, AtRequest DEF PairStep, RunStep
<1> QED BY Zenon, <1>7, <1>8, <1>9, Together

\* The reference's response is taken and reported, while its candidate is on its way.
LEMMA RespondKeeps ==
    ASSUME MirroringInvariant, NEW q \in Requests, Respond(q)
    PROVE  MirroringInvariant'
<1>1. PICK h \in {"forwarding", "done"},
           r \in {"response", "failure", "cancelled", "reported"} :
         /\ handler[q] = "forwarding" /\ handler' = [handler EXCEPT ![q] = h]
         /\ reference' = [reference EXCEPT ![q] = r]
         /\ h = "done" <=> r = "reported"
         /\ UNCHANGED <<runVars, candidate, calls, contextDone>>
  <2>1. CASE TakeReference(q) /\ UNCHANGED handler
    <3>1. handler[q] = "forwarding" /\ handler' = [handler EXCEPT ![q] = "forwarding"]
      BY Zenon, <2>1, AtRequest DEF Respond
    <3> QED BY Zenon, <2>1, <3>1 DEF Respond, TakeReference
  <2>2. CASE FinishReference(q) /\ Becomes(q, "done")
    BY <2>2 DEF Respond, Becomes, FinishReference
  <2> QED BY <2>1, <2>2 DEF Respond
<1>2. UNCHANGED <<work, cancelled>>
  BY <1>1 DEF runVars
<1>3. Links(h, work[q], r, candidate[q])
  BY <1>1, AtRequest DEF Links
<1>4. handler' \in [Requests -> Handlers] /\ \A y \in Requests : Linked(y)'
  <2>1. h \in Handlers /\ Moves(q, h, work[q], r, candidate[q])
    BY <1>1, <1>2, AtRequest DEF Handlers, Moves
  <2> QED BY Zenon, <2>1, <1>3, LinkedKept
<1>5. contextDone \cup cancelled' \subseteq contextDone'
  BY Zenon, <1>1, <1>2 DEF MirroringInvariant, Swept
<1>6. PairStep /\ RunStep
  BY Zenon, <1>1 DEF Respond, PairStep, RunStep, ReferenceStep
<1> QED BY Zenon, <1>4, <1>5, <1>6, Together

\* The candidate's goroutine takes a step of its response, and its verdict may quarantine.
LEMMA GoroutineKeeps ==
    ASSUME MirroringInvariant, NEW q \in Requests, CandidateGoroutine(q)
    PROVE  MirroringInvariant'
<1>1. PICK c \in {"awaiting", "comparing", "finishing", "finished"} :
         /\ candidate' = [candidate EXCEPT ![q] = c] /\ candidate[q] \notin {"new", "finished"}
         /\ UNCHANGED <<reference, contextDone>>
         /\ \A y \in Requests : <<"pairing", y>> \in calls' => <<"pairing", y>> \in calls
  <2>1. <<q, "candidate">> \in exchanges => candidate[q] = "joined"
    BY Zenon, AtRequest DEF PairLinked
  <2>2. ASSUME NEW result, Report(q, result)
        PROVE  \A y \in Requests : <<"pairing", y>> \in calls' => <<"pairing", y>> \in calls
    BY <2>2 DEF Report
  <2>3. CASE CandidateResponse(q)
    BY Zenon, <2>1, <2>2, <2>3 DEF CandidateResponse
  <2>4. CASE CandidateUnable(q)
    BY Zenon, <2>1, <2>2, <2>4 DEF CandidateUnable
  <2>5. CASE SeeReference(q) \/ SeeContextDone(q)
    BY <2>5 DEF SeeReference, SeeContextDone
  <2>6. CASE Compare(q)
    BY Zenon, <2>2, <2>6 DEF Compare
  <2>7. CASE FinishCandidate(q)
    BY <2>7 DEF FinishCandidate
  <2> QED BY Zenon, <2>3, <2>4, <2>5, <2>6, <2>7 DEF CandidateGoroutine, CandidateStep
<1>2. RunStep /\ UNCHANGED <<work, cancelled>>
  <2>1. CASE UNCHANGED runVars
    BY <2>1 DEF RunStep, runVars
  <2>2. ASSUME NEW kind \in {"pairing", "divergent", "unable"}, QuarantineCall(kind)
        PROVE  RunStep /\ UNCHANGED <<work, cancelled>>
    <3>1. kind \in Reasons \/ <<kind, q>> \notin calls' \ calls
      BY <1>1, KindsAssumption DEF Kinds
    <3> QED BY Zenon, <2>2, KindsAssumption, QuarantineLeaves DEF RunStep, Kinds,
               QuarantineCall, MirroringInvariant
  <2> QED BY Zenon, <2>1, <2>2 DEF CandidateGoroutine, Quarantining
<1>3. UNCHANGED handler
  BY DEF CandidateGoroutine
<1>4. Links(handler[q], work[q], reference[q], c)
  BY <1>1, AtRequest DEF Links
<1>5. handler' \in [Requests -> Handlers] /\ \A y \in Requests : Linked(y)'
  <2>1. handler[q] \in Handlers /\ Moves(q, handler[q], work[q], reference[q], c)
    BY <1>1, <1>2, <1>3, AtRequest DEF Moves
  <2> QED BY Zenon, <2>1, <1>4, LinkedKept
<1>6. contextDone \cup cancelled' \subseteq contextDone'
  BY Zenon, <1>1, <1>2 DEF MirroringInvariant, Swept
<1>7. PairStep
  BY Zenon DEF CandidateGoroutine, PairStep
<1> QED BY Zenon, <1>2, <1>5, <1>6, <1>7, Together

\* The deferred Finish comes after the candidate's response is finished.
LEMMA FinishRunKeeps ==
    ASSUME MirroringInvariant, NEW q \in Requests, FinishRun(q)
    PROVE  MirroringInvariant'
<1>1. /\ candidate[q] = "finished" /\ work' = [work EXCEPT ![q] = "finished"]
      /\ UNCHANGED <<handler, pairVars, cancelled>>
  BY DEF FinishRun, Finish
<1>2. UNCHANGED <<reference, candidate, calls, contextDone>>
  BY <1>1 DEF pairVars
<1>3. Links(handler[q], "finished", reference[q], candidate[q])
  BY <1>1, AtRequest DEF Links
<1>4. handler' \in [Requests -> Handlers] /\ \A y \in Requests : Linked(y)'
  <2>1. handler[q] \in Handlers /\ Moves(q, handler[q], "finished", reference[q], candidate[q])
    BY <1>1, <1>2, AtRequest DEF Moves
  <2> QED BY Zenon, <2>1, <1>3, LinkedKept
<1>5. contextDone \cup cancelled' \subseteq contextDone'
  BY Zenon, <1>1, <1>2 DEF MirroringInvariant, Swept
<1>6. RunStep
  BY Zenon DEF FinishRun, RunStep
<1> QED BY Zenon, <1>1, <1>4, <1>5, <1>6, Together DEF PairStep

\* An upload exceeds the buffer, a timeout passes, Shutdown goes on, or the quarantine is
\* received: no handler, run or pair moves.
LEMMA AsideKeeps ==
    ASSUME MirroringInvariant,
           \/ \E q \in Requests : Overflow(q) \/ Timeout(q)
           \/ Shutdown \/ Notify \/ UNCHANGED vars
    PROVE  MirroringInvariant'
<1>1. ASSUME NEW q \in Requests, Overflow(q) PROVE MirroringInvariant'
  <2>1. UNCHANGED <<handler, pairVars, work, cancelled>> /\ RunStep
    BY Zenon, <1>1, QuarantineLeaves DEF Overflow, RunStep, QuarantineCall, MirroringInvariant
  <2>2. UNCHANGED <<reference, candidate, calls, contextDone>>
    BY <2>1 DEF pairVars
  <2>3. contextDone \cup cancelled' \subseteq contextDone'
    BY Zenon, <2>1, <2>2 DEF MirroringInvariant, Swept
  <2> QED BY Zenon, <2>1, <2>2, <2>3, LinkedUntouched, Together DEF PairStep
<1>2. ASSUME NEW q \in Requests, Timeout(q) PROVE MirroringInvariant'
  <2>1. /\ UNCHANGED <<handler, runVars, reference, candidate, calls>>
        /\ contextDone \subseteq contextDone'
    BY <1>2 DEF Timeout, ContextEnds
  <2>2. UNCHANGED <<work, cancelled>>
    BY <2>1 DEF runVars
  <2>3. contextDone \cup cancelled' \subseteq contextDone'
    BY Zenon, <2>1, <2>2 DEF MirroringInvariant, Swept
  <2> QED BY Zenon, <1>2, <2>1, <2>2, <2>3, LinkedUntouched, Together DEF PairStep, RunStep,
             Timeout
<1>3. CASE Shutdown \/ Notify \/ UNCHANGED vars
  <2>1. UNCHANGED <<handler, pairVars, work, cancelled>>
    BY <1>3 DEF Shutdown, Notify, vars, runVars, StartClose, ShutdownReturns, Receive
  <2>2. RunStep
    BY Zenon, <1>3 DEF Shutdown, Notify, vars, RunStep
  <2>3. UNCHANGED <<reference, candidate, calls, contextDone>>
    BY <2>1 DEF pairVars
  <2>4. contextDone \cup cancelled' \subseteq contextDone'
    BY Zenon, <2>1, <2>3 DEF MirroringInvariant, Swept
  <2> QED BY Zenon, <2>1, <2>2, <2>3, <2>4, LinkedUntouched, Together DEF PairStep
<1> QED BY Zenon, <1>1, <1>2, <1>3

\* A sweep ends the contexts of the runs that it cancels.
LEMMA SweepKeeps ==
    ASSUME MirroringInvariant, NEW s \in Sweeps, Sweep(s)
    PROVE  MirroringInvariant'
<1>1. /\ UNCHANGED <<handler, work, reference, candidate, calls>>
      /\ cancelled' \subseteq Requests
  BY DEF Sweep, SweepStep, EndSweep, CancelRun, MirroringInvariant, TypeOK, RunsTypeOK
<1>2. PairStep
  BY <1>1 DEF PairStep, Sweep, MirroringInvariant, TypeOK, PairsTypeOK
<1>3. RunStep /\ contextDone \cup cancelled' \subseteq contextDone'
  BY Zenon DEF Sweep, RunStep
<1> QED BY Zenon, <1>1, <1>2, <1>3, LinkedUntouched, Together

-----------------------------------------------------------------------------
\* The inductive invariant holds at first.
LEMMA InitMirroring ==
    ASSUME Init
    PROVE  MirroringInvariant
<1>1. PairsInvariant /\ RunsInvariant
  BY Zenon, InitLinked, InitRuns DEF Init
<1>2. TypeOK
  BY <1>1 DEF Init, TypeOK, PairsInvariant, RunsInvariant, RunsTracked
<1>3. Swept
  BY DEF Init, RunsInit, Swept, Sweeps
<1>4. ASSUME NEW q \in Requests PROVE Linked(q)
  BY DEF Init, PairsInit, RunsInit, Linked, Links
<1> QED BY <1>1, <1>2, <1>3, <1>4 DEF MirroringInvariant

\* Every step keeps it.
LEMMA NextMirroring ==
    ASSUME MirroringInvariant, [Next]_vars
    PROVE  MirroringInvariant'
<1>1. ASSUME NEW q \in Requests, Handle(q) PROVE MirroringInvariant'
  BY Zenon, <1>1, ServedKeeps, PassThroughKeeps, StartKeepsLinks, StartPairKeeps, JoinPairKeeps
     DEF Handle
<1>2. ASSUME NEW q \in Requests, Respond(q) PROVE MirroringInvariant'
  BY <1>2, RespondKeeps
<1>3. ASSUME NEW q \in Requests, CandidateRun(q) PROVE MirroringInvariant'
  BY Zenon, <1>3, GoroutineKeeps, FinishRunKeeps DEF CandidateRun
<1>4. ASSUME NEW s \in Sweeps, Sweep(s) PROVE MirroringInvariant'
  BY <1>4, SweepKeeps
<1> QED BY Zenon, <1>1, <1>2, <1>3, <1>4, AsideKeeps DEF Next, Quiescent

\* Every mirrored request, for any number of requests, slots and runs: no join of the
\* candidate's point ever fails, a candidate that uses the engine is under an active run, so
\* Shutdown that returns idle leaves none; a served request leaves nothing in the engine or
\* the budgets; and after the sweep of quarantine every live candidate's context is done.
THEOREM RequestsAreSound == Spec => []RequestsSound
<1>1. ASSUME MirroringInvariant PROVE RequestsSound
  <2>1. \A q \in Requests : Linked(q) /\ PairLinked(q)
    BY Zenon, <1>1 DEF MirroringInvariant, PairsInvariant
  <2>2. /\ runs = {q \in Requests : work[q] = "running"}
        /\ quarantine # None => runs \subseteq cancelled \cup left["quarantine"]
    BY Zenon, <1>1 DEF MirroringInvariant, RunsInvariant, RunsTracked, NoRunEscapes
  <2>3. ASSUME NEW q \in Requests, candidate[q] \notin {"new", "finished"} PROVE q \in runs
    BY Zenon, <2>1, <2>2, <2>3 DEF Linked, Links
  <2>4. JoinsNeverFail
    BY Zenon, <2>1 DEF JoinsNeverFail, Linked
  <2>5. RunCoversCandidate
    BY Zenon, <1>1, <2>3 DEF RunCoversCandidate, MirroringInvariant, Swept
  <2>6. NothingLeft
    <3>1. SUFFICES ASSUME NEW q \in Requests, handler[q] \in {"rejected", "done"}, q \notin runs
                   PROVE  /\ q \notin requests
                          /\ {<<q, "reference">>, <<q, "candidate">>} \cap exchanges = {}
                          /\ outcome[q] = "response" => <<q, "reference">> \in released
      BY Zenon DEF NothingLeft
    <3>2. Links(handler[q], work[q], reference[q], candidate[q]) /\ PairLinked(q)
      BY Zenon, <2>1 DEF Linked
    <3>3. /\ reference[q] \in {"new", "reported"} /\ candidate[q] \in {"new", "finished"}
          /\ candidate[q] = "new" <=> reference[q] = "new"
      BY <2>3, <3>1, <3>2 DEF Links
    <3> QED BY Zenon, <3>2, <3>3 DEF PairLinked
  <2>7. QuarantineReaches
    BY <1>1, <2>2, <2>3 DEF QuarantineReaches, MirroringInvariant, Swept
  <2> QED BY <2>4, <2>5, <2>6, <2>7 DEF RequestsSound
<1> QED BY InitMirroring, NextMirroring, <1>1, PTL DEF Spec

-----------------------------------------------------------------------------
(* The limit of the runs.                                                  *)

INSTANCE FiniteSetTheorems

WithinLimit == Cardinality(runs) <= MaxInFlight

\* Only Start adds a run, and only below the limit.
LEMMA LimitKept ==
    ASSUME RunsInvariant, WithinLimit, [RunsNext]_runVars
    PROVE  WithinLimit'
<1>1. IsFiniteSet(runs) /\ Cardinality(runs) \in Nat
  BY FS_Subset, FS_CardinalityType, RunsAssumption DEF RunsInvariant, RunsTracked, RunsTypeOK
<1>2. ASSUME NEW r \in Requests, Admit(r) PROVE WithinLimit'
  <2>1. Cardinality(runs) < MaxInFlight /\ runs' = runs \cup {r} /\ r \notin runs
    BY <1>2 DEF Admit, RunsInvariant, RunsTracked, RunsTypeOK
  <2>2. Cardinality(runs \cup {r}) = Cardinality(runs) + 1
    BY Zenon, <1>1, <2>1, FS_AddElement
  <2> QED BY <1>1, <2>1, <2>2, RunsAssumption DEF WithinLimit
<1>3. ASSUME NEW r \in Requests, Finish(r) PROVE WithinLimit'
  <2>1. runs' = runs \ {r} /\ r \in runs
    BY <1>3 DEF Finish, RunsInvariant, RunsTracked, RunsTypeOK
  <2>2. Cardinality(runs \ {r}) = Cardinality(runs) - 1
    BY Zenon, <1>1, <2>1, FS_RemoveElement
  <2> QED BY <1>1, <2>1, <2>2, RunsAssumption DEF WithinLimit
<1>4. CASE UNCHANGED runs
  BY Zenon, <1>4 DEF WithinLimit
<1>5. \/ UNCHANGED runs \/ \E r \in Requests : Admit(r) \/ Finish(r)
  BY Zenon DEF RunsNext, StartCall, SweepStep, runVars, Refuse, ExceedCapacity,
     QuarantineCapacity,
     QuarantineCall, Quarantine, StartClose, CancelRun, EndSweep, ShutdownReturns, Receive
<1> QED BY Zenon, <1>2, <1>3, <1>4, <1>5

\* Candidates (internal/proxy/candidates.go): whatever requests, quarantines, Close and
\* Shutdown race, runs keep to the limit and to the idle channel, none escapes the
\* cancellation, and the first quarantine is notified once.
THEOREM RunsAreSound == RunsSpec => []RunsSound
<1>1. ASSUME RunsInit PROVE RunsInvariant /\ WithinLimit
  <2>1. runs = {} /\ Cardinality({}) = 0
    BY Zenon, <1>1, FS_EmptySet DEF RunsInit
  <2> QED BY <1>1, <2>1, InitRuns, RunsAssumption DEF WithinLimit
<1>2. ASSUME RunsInvariant, WithinLimit, [RunsNext]_runVars PROVE RunsInvariant' /\ WithinLimit'
  BY Zenon, <1>2, NextSound, LimitKept
<1>3. ASSUME RunsInvariant, WithinLimit PROVE RunsSound
  <2>1. ReportedOnce
    <3>1. \A q : <<>> \o <<q>> = <<q>> /\ <<q>> \o <<>> = <<q>>
      OBVIOUS
    <3>2. <<>> \o <<>> = <<>>
      OBVIOUS
    <3> QED BY Zenon, <1>3, <3>1, <3>2 DEF RunsInvariant, Notified, ReportedOnce
  <2> QED BY <1>3, <2>1 DEF RunsInvariant, RunsTracked, IdleTracksRuns, WithinLimit, RunsSound
<1> QED BY <1>1, <1>2, <1>3, PTL DEF RunsSpec

=============================================================================

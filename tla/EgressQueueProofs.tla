------------------------- MODULE EgressQueueProofs --------------------------
(***************************************************************************)
(* Consistent is an inductive invariant of EgressQueue for any requests    *)
(* and hashes, and the theorems that follow from it; then shutdown beside  *)
(* the queue.                                                              *)
(***************************************************************************)
EXTENDS EgressShutdown, EgressQueueSteps, FiniteSetTheorems

-----------------------------------------------------------------------------
(* The reference side: forward, the end of hashing, reports and expiry.    *)

USE RequestsAssumption, SMTT(60) DEF queueVars, idleVars, referenceVars, candidateVars

\* forward adds a request that is in no queue and starts one more hash.
LEMMA ForwardConsistent ==
    ASSUME NEW r \in References, Consistent, Forward(r)
    PROVE  Consistent'
<1>0. \A h \in Hashes :
         /\ unused[h] \in Seq(References) /\ r \notin Range(unused[h])
         /\ waiting[h] \in Seq(Candidates) /\ r \notin Range(waiting[h])
  <2> SUFFICES ASSUME NEW h \in Hashes
               PROVE  /\ unused[h] \in Seq(References) /\ r \notin Range(unused[h])
                      /\ waiting[h] \in Seq(Candidates) /\ r \notin Range(waiting[h])
    OBVIOUS
  <2>1. unused[h] \in Seq(References) /\ waiting[h] \in Seq(Candidates)
    BY DEF Consistent, TypeOK
  <2>2. Range(unused[h]) \subseteq References /\ Range(waiting[h]) \subseteq Candidates
    BY <2>1, RangeProperties
  <2>3. r \notin Range(unused[h]) /\ r \notin Range(waiting[h])
    BY <2>2 DEF Consistent, Forward, QueuesSound
  <2> QED BY <2>1, <2>3
<1>1. TypeOK'
  BY DEF Consistent, Forward, Requests, TypeOK, Stages, Timers, Outcomes, Pcs, Kinds
<1>2. IdleIsClosed'
  <2>1. IsFiniteSet(InProgress) /\ r \notin InProgress
    BY FS_Subset DEF InProgress, Forward
  <2>2. InProgress' = InProgress \cup {r}
    BY DEF InProgress, Consistent, TypeOK, Forward
  <2>3. Cardinality(InProgress') = Cardinality(InProgress) + 1
    BY Zenon, <2>1, <2>2, FS_AddElement
  <2>4. hashing' # 0 /\ idle' \notin closed'
    <3>1. CASE hashing = 0
      BY <3>1 DEF Consistent, Forward, TypeOK, Numbered
    <3>2. CASE hashing # 0
      BY <3>2 DEF Consistent, Forward, TypeOK, IdleIsClosed
    <3> QED BY <3>1, <3>2
  <2> QED BY <2>3, <2>4 DEF Consistent, Forward, IdleIsClosed
<1>3. Numbered'
  BY DEF Consistent, Forward, Requests, TypeOK, Numbered
<1>4. QueuesSound'
  BY DEF Consistent, Forward, Requests, TypeOK, QueuesSound
<1>5. ReferencesSound'
  BY DEF Consistent, Forward, Requests, TypeOK, ReferencesSound
<1>6. ArrivalOrder'
  <2> SUFFICES ASSUME NEW h \in Hashes
               PROVE  /\ \A i, j \in 1 .. Len(unused[h]) :
                            i < j => arrival'[unused[h][i]] < arrival'[unused[h][j]]
                      /\ \A i, j \in 1 .. Len(waiting[h]) :
                            i < j => arrival'[waiting[h][i]] < arrival'[waiting[h][j]]
    BY Zenon DEF Forward, queueVars, ArrivalOrder, Ordered
  <2>1. arrival' = [arrival EXCEPT ![r] = arrivals + 1] /\ arrival \in [Requests -> Nat]
    BY DEF Consistent, TypeOK, Forward
  <2>2. Ordered(unused[h]) /\ Ordered(waiting[h])
    BY DEF Consistent, ArrivalOrder
  <2>3. References \subseteq Requests /\ Candidates \subseteq Requests
    BY DEF Requests
  <2>4. \A i, j \in 1 .. Len(unused[h]) :
           i < j => arrival'[unused[h][i]] < arrival'[unused[h][j]]
    BY Zenon, <1>0, <2>1, <2>2, <2>3, OrderedKept
  <2>5. \A i, j \in 1 .. Len(waiting[h]) :
           i < j => arrival'[waiting[h][i]] < arrival'[waiting[h][j]]
    BY Zenon, <1>0, <2>1, <2>2, <2>3, OrderedKept
  <2> QED BY <2>4, <2>5
<1>7. HeldSound'
  BY DEF Consistent, Forward, Requests, TypeOK, HeldSound, Held
<1>8. QueueExclusion' /\ FailClosed' /\ CandidatesSound'
  BY Zenon DEF Consistent, Forward, Requests, QueueExclusion, FailClosed, CandidatesSound
<1> QED BY <1>1, <1>2, <1>3, <1>4, <1>5, <1>6, <1>7, <1>8 DEF Consistent

\* A reference that cannot be identified is in no queue and in nobody's hands.
LEMMA HashFailsConsistent ==
    ASSUME NEW r \in References, Consistent, HashFails(r)
    PROVE  Consistent'
<1>1. TypeOK'
  BY DEF Consistent, HashFails, Requests, TypeOK, Stages, Timers, Outcomes, Pcs, Kinds, Abandon
<1>2. FailClosed'
  BY ZenonT(60) DEF Consistent, HashFails, Requests, TypeOK, FailClosed, Abandon
<1>3. IdleIsClosed'
  BY Zenon DEF Consistent, HashFails, Requests, TypeOK, IdleIsClosed, InProgress, Abandon
<1>4. Numbered'
  BY DEF Consistent, HashFails, Requests, TypeOK, Numbered, Abandon
<1>5. QueuesSound'
  BY DEF Consistent, HashFails, Requests, TypeOK, QueuesSound, Abandon
<1>6. ReferencesSound'
  BY DEF Consistent, HashFails, Requests, TypeOK, ReferencesSound, Abandon
<1>7. HeldSound'
  <2>1. \A d \in Candidates : Held(d)' = Held(d)
    BY DEF HashFails, Held
  <2> QED BY <2>1 DEF Consistent, HashFails, Requests, TypeOK, HeldSound, Abandon
<1>8. QueueExclusion' /\ ArrivalOrder' /\ CandidatesSound'
  BY DEF Consistent, HashFails, Requests, QueueExclusion, ArrivalOrder, Ordered,
     CandidatesSound, Abandon
<1> QED BY <1>1, <1>2, <1>3, <1>4, <1>5, <1>6, <1>7, <1>8 DEF Consistent

\* finishHashing counts down and closes the current idle channel at zero.
LEMMA FinishHashingConsistent ==
    ASSUME NEW r \in References, Consistent, FinishHashing(r)
    PROVE  Consistent'
<1>0. /\ Cardinality(InProgress') = Cardinality(InProgress) - 1
      /\ hashing = Cardinality(InProgress) /\ hashing \in Nat \ {0}
  <2>1. IsFiniteSet(InProgress) /\ r \in InProgress
    BY FS_Subset DEF InProgress, FinishHashing
  <2>2. InProgress' = InProgress \ {r}
    BY DEF InProgress, Consistent, TypeOK, FinishHashing
  <2>3. Cardinality(InProgress') = Cardinality(InProgress) - 1
    BY Zenon, <2>1, <2>2, FS_RemoveElement
  <2>4. Cardinality(InProgress) # 0
    BY <2>1, FS_EmptySet
  <2> QED BY <2>3, <2>4 DEF Consistent, IdleIsClosed, TypeOK
<1>1. TypeOK'
  BY <1>0 DEF Consistent, FinishHashing, Requests, TypeOK, Stages
<1>2. IdleIsClosed'
  BY <1>0 DEF Consistent, FinishHashing, Requests, IdleIsClosed, TypeOK
<1>3. Numbered'
  BY DEF Consistent, FinishHashing, Requests, TypeOK, Numbered
<1>4. QueuesSound'
  BY DEF Consistent, FinishHashing, Requests, TypeOK, QueuesSound
<1>5. ReferencesSound'
  BY DEF Consistent, FinishHashing, Requests, TypeOK, ReferencesSound
<1>6. HeldSound'
  <2>1. \A d \in Candidates : Held(d)' = Held(d)
    BY DEF FinishHashing, Held
  <2> QED BY <2>1 DEF Consistent, FinishHashing, Requests, TypeOK, HeldSound
<1>7. QueueExclusion' /\ ArrivalOrder' /\ FailClosed' /\ CandidatesSound'
  BY DEF Consistent, FinishHashing, Requests, QueueExclusion, ArrivalOrder, Ordered,
     FailClosed, CandidatesSound
<1> QED BY <1>1, <1>2, <1>3, <1>4, <1>5, <1>6, <1>7 DEF Consistent

\* A response is recorded once; an abandoned one is in nobody's hands.
LEMMA ProcessResponseConsistent ==
    ASSUME NEW r \in References, Consistent, ProcessResponse(r)
    PROVE  Consistent'
<1>1. TypeOK'
  BY DEF Consistent, ProcessResponse, Requests, TypeOK, Stages, Timers, Outcomes, Pcs,
     Kinds, Finish
<1>2. QueuesSound'
  BY DEF Consistent, ProcessResponse, Requests, TypeOK, QueuesSound, Finish
<1>3. ReferencesSound'
  BY DEF Consistent, ProcessResponse, Requests, TypeOK, ReferencesSound, Finish
<1>4. CandidatesSound'
  BY DEF Consistent, ProcessResponse, Requests, TypeOK, ReferencesSound, CandidatesSound, Finish
<1>5. HeldSound'
  <2>1. \A d \in Candidates : Held(d)' = Held(d)
    BY DEF ProcessResponse, Held
  <2> QED BY <2>1 DEF Consistent, ProcessResponse, Requests, TypeOK, HeldSound, Finish
<1>6. QueueExclusion' /\ ArrivalOrder' /\ FailClosed' /\ IdleIsClosed' /\ Numbered'
  BY Zenon DEF Consistent, ProcessResponse, Requests, QueueExclusion, ArrivalOrder, Ordered,
     FailClosed, IdleIsClosed, InProgress, Numbered, Finish
<1> QED BY <1>1, <1>2, <1>3, <1>4, <1>5, <1>6 DEF Consistent

\* A failure is recorded once.
LEMMA UnableConsistent ==
    ASSUME NEW r \in References, Consistent, Unable(r)
    PROVE  Consistent'
<1>1. TypeOK'
  BY DEF Consistent, Unable, Requests, TypeOK, Stages, Timers, Outcomes, Pcs, Kinds, Finish
<1>2. QueuesSound'
  BY DEF Consistent, Unable, Requests, TypeOK, QueuesSound, Finish
<1>3. ReferencesSound'
  BY DEF Consistent, Unable, Requests, TypeOK, ReferencesSound, Finish
<1>4. CandidatesSound'
  BY DEF Consistent, Unable, Requests, TypeOK, ReferencesSound, CandidatesSound, Finish
<1>5. HeldSound'
  <2>1. \A d \in Candidates : Held(d)' = Held(d)
    BY DEF Unable, Held
  <2> QED BY <2>1 DEF Consistent, Unable, Requests, TypeOK, HeldSound, Finish
<1>6. QueueExclusion' /\ ArrivalOrder' /\ FailClosed' /\ IdleIsClosed' /\ Numbered'
  BY Zenon DEF Consistent, Unable, Requests, QueueExclusion, ArrivalOrder, Ordered, FailClosed,
     IdleIsClosed, InProgress, Numbered, Finish
<1> QED BY <1>1, <1>2, <1>3, <1>4, <1>5, <1>6 DEF Consistent

\* A timer fires only while its reference is unused.
LEMMA TimerFiresConsistent ==
    ASSUME NEW r \in References, Consistent, TimerFires(r)
    PROVE  Consistent'
<1>1. TypeOK'
  BY DEF Consistent, TimerFires, Requests, TypeOK, Stages, Timers, Outcomes, Pcs, Kinds
<1>2. QueuesSound'
  BY DEF Consistent, TimerFires, Requests, TypeOK, QueuesSound
<1>3. ReferencesSound'
  BY DEF Consistent, TimerFires, Requests, TypeOK, ReferencesSound
<1>4. HeldSound'
  <2>1. \A d \in Candidates : Held(d)' = Held(d)
    BY DEF TimerFires, Held
  <2> QED BY <2>1 DEF Consistent, TimerFires, Requests, TypeOK, HeldSound
<1>5. QueueExclusion' /\ ArrivalOrder' /\ FailClosed' /\ IdleIsClosed' /\ Numbered' /\
       CandidatesSound'
  BY Zenon DEF Consistent, TimerFires, Requests, QueueExclusion, ArrivalOrder, Ordered,
     FailClosed, IdleIsClosed, InProgress, Numbered, CandidatesSound
<1> QED BY <1>1, <1>2, <1>3, <1>4, <1>5 DEF Consistent

\* expire removes the reference, or finds it claimed.
LEMMA ExpireConsistent ==
    ASSUME NEW r \in References, Consistent, Expire(r)
    PROVE  Consistent'
<1>r. FailClosed' /\ IdleIsClosed' /\ Numbered' /\ CandidatesSound'
  BY Zenon DEF Consistent, Expire, Requests, FailClosed, IdleIsClosed, InProgress, Numbered,
     CandidatesSound
<1> DEFINE h == hash[r]
           w == Delete(unused[h], r)
<1>a. /\ h \in Hashes /\ unused[h] \in Seq(References) /\ Ordered(unused[h])
      /\ arrival \in [Requests -> Nat] /\ References \subseteq Requests
  BY DEF Consistent, Expire, ReferencesSound, TypeOK, ArrivalOrder, Requests
<1>b. CASE r \in Range(unused[h])
  <2>1. unused' = [unused EXCEPT ![h] = w] /\ timer' = [timer EXCEPT ![r] = "expired"]
    BY <1>b DEF Expire
  <2>n. \A g \in Hashes \ {h} : r \notin Range(unused[g])
    BY DEF Consistent, QueuesSound
  <2> HIDE DEF h
  <2>2. r \in Range(unused[h]) /\ unused[h] # <<>>
    BY <1>a, <1>b, RangeProperties
  <2>3. w \in Seq(References) /\ Range(w) = Range(unused[h]) \ {r} /\ Ordered(w)
    BY <1>a, <2>2, DeleteQueue
  <2> HIDE DEF w
  <2>4. \A g \in Hashes : unused'[g] = IF g = h THEN w ELSE unused[g]
    BY <1>a, <2>1 DEF Consistent, TypeOK
  <2>5. \A g \in Hashes : Range(unused'[g]) = Range(unused[g]) \ {r}
    <3>1. Range(unused'[h]) = Range(w)
      BY <1>a, <2>4
    <3> QED BY <2>n, <2>3, <2>4, <3>1
  <2>6. TypeOK'
    BY <1>a, <2>1, <2>3 DEF Consistent, Expire, Requests, TypeOK, Timers
  <2>7. QueueExclusion'
    <3>1. waiting[h] = <<>>
      BY <1>a, <2>2 DEF Consistent, QueueExclusion
    <3> QED BY Zenon, <2>4, <3>1 DEF Consistent, Expire, Requests, QueueExclusion
  <2>8. ArrivalOrder'
    <3>1. \A g \in Hashes : Ordered(unused'[g])
      BY <2>3, <2>4 DEF Consistent, ArrivalOrder
    <3> QED BY Zenon, <3>1 DEF Consistent, Expire, Requests, ArrivalOrder, Ordered
  <2>9. QueuesSound'
    BY <2>1, <2>5 DEF Consistent, Expire, Requests, TypeOK, QueuesSound
  <2>10. ReferencesSound'
    BY <2>1, <2>5 DEF Consistent, Expire, Requests, TypeOK, ReferencesSound
  <2>11. HeldSound'
    <3>1. \A c \in Candidates : r \notin Held(c) /\ Held(c)' = Held(c)
      BY <1>a, <2>2 DEF Consistent, Expire, Requests, HeldSound, Held
    <3> QED BY <2>1, <2>5, <3>1 DEF Consistent, Expire, Requests, TypeOK, HeldSound, Held
  <2> QED BY <1>r, <2>6, <2>7, <2>8, <2>9, <2>10, <2>11 DEF Consistent
<1>c. CASE r \notin Range(unused[h])
  <2>1. unused' = unused /\ timer' = [timer EXCEPT ![r] = "off"]
    BY <1>c DEF Expire
  <2>n. \A g \in Hashes \ {h} : r \notin Range(unused[g])
    BY DEF Consistent, QueuesSound
  <2> HIDE DEF h
  <2>2. r \notin Range(unused[h])
    BY <1>a, <1>c, RangeProperties
  <2>3. \A g \in Hashes : r \notin Range(unused[g])
    BY <2>n, <2>2
  <2>4. TypeOK' /\ QueueExclusion' /\ ArrivalOrder'
    BY ZenonT(60), <2>1 DEF Consistent, Expire, Requests, TypeOK, Timers, QueueExclusion,
       ArrivalOrder, Ordered
  <2>5. QueuesSound'
    BY <2>1, <2>3 DEF Consistent, Expire, Requests, TypeOK, QueuesSound
  <2>6. ReferencesSound'
    BY <2>1 DEF Consistent, Expire, Requests, TypeOK, ReferencesSound
  <2>7. HeldSound'
    BY <2>1 DEF Consistent, Expire, Requests, TypeOK, HeldSound, Held
  <2> QED BY <1>r, <2>4, <2>5, <2>6, <2>7 DEF Consistent
<1> HIDE DEF h, w
<1> QED BY <1>b, <1>c DEF Consistent

\* An expired reference is in no queue and in nobody's hands.
LEMMA AbandonExpiredConsistent ==
    ASSUME NEW r \in References, Consistent, AbandonExpired(r)
    PROVE  Consistent'
<1>1. TypeOK'
  BY DEF Consistent, AbandonExpired, Requests, TypeOK, Stages, Timers, Outcomes, Pcs,
     Kinds, Abandon
<1>2. QueuesSound'
  BY DEF Consistent, AbandonExpired, Requests, TypeOK, QueuesSound, Abandon
<1>3. ReferencesSound'
  BY DEF Consistent, AbandonExpired, Requests, TypeOK, ReferencesSound, Abandon
<1>4. HeldSound'
  <2>1. \A d \in Candidates : Held(d)' = Held(d)
    BY DEF AbandonExpired, Held
  <2> QED BY <2>1 DEF Consistent, AbandonExpired, Requests, TypeOK, HeldSound, Abandon
<1>5. QueueExclusion' /\ ArrivalOrder' /\ FailClosed' /\ IdleIsClosed' /\ Numbered' /\
       CandidatesSound'
  BY Zenon DEF Consistent, AbandonExpired, Requests, QueueExclusion, ArrivalOrder, Ordered,
     FailClosed, IdleIsClosed, InProgress, Numbered, CandidatesSound, Abandon
<1> QED BY <1>1, <1>2, <1>3, <1>4, <1>5 DEF Consistent

-----------------------------------------------------------------------------
(* All steps.                                                              *)

\* A new queue is empty and its idle channel is closed.
LEMMA InitConsistent == Init => Consistent
<1> SUFFICES ASSUME Init PROVE Consistent
  OBVIOUS
<1>1. TypeOK
  BY DEF Init, TypeOK, Stages, Timers, Outcomes, Pcs
<1>2. QueueExclusion /\ ArrivalOrder /\ FailClosed /\ Numbered
  BY DEF Init, QueueExclusion, ArrivalOrder, Ordered, FailClosed, Numbered,
     Requests
<1>3. IdleIsClosed
  <2>1. InProgress = {}
    BY DEF Init, InProgress
  <2> QED BY <2>1, FS_EmptySet DEF Init, IdleIsClosed
<1>4. QueuesSound
  <2>1. \A h \in Hashes : Range(unused[h]) = {} /\ Range(waiting[h]) = {}
    BY DEF Init, Range
  <2> QED BY <2>1 DEF QueuesSound
<1>5. ReferencesSound /\ CandidatesSound /\ HeldSound
  BY DEF Init, ReferencesSound, CandidatesSound, HeldSound, Held, Requests
<1> QED BY <1>1, <1>2, <1>3, <1>4, <1>5 DEF Consistent

\* Steps that change nothing, the end of a quiescent run included.
LEMMA StutterConsistent ==
    ASSUME Consistent, UNCHANGED vars
    PROVE  Consistent'
<1> USE DEF vars
<1>1. TypeOK' /\ QueueExclusion' /\ FailClosed' /\ Numbered'
  BY Zenon DEF Consistent, TypeOK, QueueExclusion, FailClosed, Numbered
<1>2. ArrivalOrder' /\ IdleIsClosed'
  BY Zenon DEF Consistent, ArrivalOrder, Ordered, IdleIsClosed, InProgress
<1>3. QueuesSound' /\ ReferencesSound' /\ CandidatesSound'
  BY ZenonT(60) DEF Consistent, QueuesSound, ReferencesSound, CandidatesSound
<1>4. HeldSound'
  BY ZenonT(60) DEF Consistent, HeldSound, Held
<1> QED BY <1>1, <1>2, <1>3, <1>4 DEF Consistent

\* Every step of every goroutine keeps the queue consistent.
LEMMA NextConsistent ==
    ASSUME Consistent, [Next]_vars
    PROVE  Consistent'
<1>1. CASE UNCHANGED vars
  BY <1>1, StutterConsistent
<1>2. ASSUME NEW r \in References,
             Forward(r) \/ HashingStep(r) \/ ReportStep(r) \/ ExpiryStep(r)
      PROVE  Consistent'
  BY <1>2, ForwardConsistent, HashFailsConsistent, AddToWaiterConsistent,
     AddToUnusedConsistent, FinishHashingConsistent, ProcessResponseConsistent,
     UnableConsistent, TimerFiresConsistent, ExpireConsistent, AbandonExpiredConsistent
     DEF HashingStep, ReportStep, ExpiryStep
<1>3. ASSUME NEW c \in Candidates, Arrive(c) \/ CandidateStep(c) \/ Cancel(c)
      PROVE  Consistent'
  BY <1>3, ArriveConsistent, CandidateHashFailsConsistent, ClaimUnusedConsistent,
     ClaimWaitsConsistent, ReceiveConsistent, GiveUpConsistent, LeaveConsistent,
     SeeOutcomeConsistent, SeeCancelledConsistent, ReplayConsistent, CancelConsistent
     DEF CandidateStep
<1> QED BY Zenon, <1>1, <1>2, <1>3 DEF Next, Quiescent

-----------------------------------------------------------------------------
(* The theorems.                                                           *)

\* The queues and every exchange in flight stay consistent with the goroutines that work
\* on them, for any number of requests, any hashes and any interleaving.
THEOREM Consistency == Spec => []Consistent
<1>1. Consistent /\ [Next]_vars => Consistent'
  BY NextConsistent
<1> QED BY InitConsistent, <1>1, PTL DEF Spec

\* Every variable of the queue keeps its type.
THEOREM TypeCorrect == Spec => []TypeOK
<1>1. Consistent => TypeOK
  BY DEF Consistent
<1> QED BY <1>1, Consistency, PTL

\* No candidate waits beside an unused reference of its hash (the comment on q.mu).
THEOREM Exclusion == Spec => []QueueExclusion
<1>1. Consistent => QueueExclusion
  BY DEF Consistent
<1> QED BY <1>1, Consistency, PTL

\* Both queues stay in arrival order although hashing finishes out of order.
THEOREM Order == Spec => []ArrivalOrder
<1>1. Consistent => ArrivalOrder
  BY DEF Consistent
<1> QED BY <1>1, Consistency, PTL

\* claim and add pair each reference with at most one candidate, of the same hash.
THEOREM Pairing == Spec => []PairedOneToOne
<1>1. ASSUME Consistent PROVE PairedOneToOne
  BY <1>1 DEF Consistent, HeldSound, PairedOneToOne
<1> QED BY <1>1, Consistency, PTL

\* No response is released while a candidate replays it, whatever expires or is abandoned.
THEOREM Replays == Spec => []ReplayIntact
<1>1. ASSUME Consistent PROVE ReplayIntact
  <2> SUFFICES ASSUME NEW c \in Candidates, pc[c] = "replaying"
               PROVE  outcome[pending[c]] = "raw" /\ pending[c] \notin released
    BY DEF ReplayIntact
  <2>1. outcome[pending[c]] = "raw" /\ pending[c] # None
    BY <1>1 DEF Consistent, CandidatesSound
  <2>2. pending[c] \in Held(c)
    BY <2>1 DEF Held
  <2> QED BY <1>1, <2>1, <2>2 DEF Consistent, HeldSound
<1> QED BY <1>1, Consistency, PTL

\* Delivery to a waiter never blocks under q.mu, and no waiter ends with a reference in
\* its channel.
THEOREM NothingStranded == Spec => []NoStrandedReference
<1>1. ASSUME Consistent PROVE NoStrandedReference
  BY <1>1 DEF Consistent, CandidatesSound, QueuesSound, NoStrandedReference
<1> QED BY <1>1, Consistency, PTL

\* An unanswered candidate request quarantines unless it was cancelled; an answered one
\* never does.
THEOREM FailsClosed == Spec => []FailClosed
<1>1. Consistent => FailClosed
  BY DEF Consistent
<1> QED BY <1>1, Consistency, PTL

\* hashing counts the goroutines in flight and idle is closed exactly at zero, so
\* finishHashing never closes a closed channel.
THEOREM Idleness == Spec => []IdleIsClosed
<1>1. Consistent => IdleIsClosed
  BY DEF Consistent
<1> QED BY <1>1, Consistency, PTL

\* A candidate is reported unmatched only when no reference of its hash is available: only
\* Leave reports it, and a waiter that is still queued sees no unused reference.
THEOREM NoMatchIsMissed == Spec => NoMissedMatch
<1> DEFINE Missed == \A c \in Candidates : <<"unmatched", c>> \in quarantine' \ quarantine =>
                        unused[hash[c]] = <<>> /\ Held(c) = {}
<1>1. ASSUME Consistent, [Next]_vars PROVE [Missed]_vars
  <2> SUFFICES ASSUME Next, NEW c \in Candidates,
                      <<"unmatched", c>> \in quarantine', <<"unmatched", c>> \notin quarantine
               PROVE  unused[hash[c]] = <<>> /\ Held(c) = {}
    BY <1>1 DEF vars
  <2>1. Leave(c)
    <3>1. ASSUME NEW r \in References,
                 Forward(r) \/ HashingStep(r) \/ ReportStep(r) \/ ExpiryStep(r)
          PROVE  FALSE
      <4>1. CASE HashFails(r)
        <5>1. quarantine' = quarantine \cup {<<"unable", r>>}
          BY <4>1 DEF HashFails
        <5> QED BY <5>1
      <4>2. quarantine' # quarantine
        OBVIOUS
      <4> QED BY Zenon, <3>1, <4>1, <4>2 DEF Forward, HashingStep, AddToWaiter, AddToUnused,
             FinishHashing, ReportStep, ProcessResponse, Unable, ExpiryStep, TimerFires, Expire,
             AbandonExpired
    <3>2. ASSUME NEW d \in Candidates, Arrive(d) \/ CandidateStep(d) \/ Cancel(d)
          PROVE  Leave(c)
      <4>1. CASE Leave(d)
        <5>1. quarantine' \subseteq quarantine \cup {<<"unmatched", d>>}
          BY Zenon, <4>1 DEF Leave, Fail
        <5>2. c = d
          BY <5>1
        <5> QED BY <4>1, <5>2
      <4>2. CASE CandidateHashFails(d) \/ SeeOutcome(d) \/ SeeCancelled(d)
        <5>1. quarantine' \subseteq quarantine \cup {<<"unable", d>>}
          BY <4>2 DEF CandidateHashFails, SeeOutcome, SeeCancelled, Fail
        <5> QED BY <5>1
      <4>3. ASSUME quarantine' = quarantine PROVE Leave(c)
        BY <4>3
      <4> QED BY Zenon, <3>2, <4>1, <4>2, <4>3 DEF Arrive, CandidateStep, ClaimUnused, ClaimWaits,
             Receive, GiveUp, Replay, Cancel
    <3> QED BY Zenon, <3>1, <3>2 DEF Next, Quiescent, vars
  <2>2. c \in Range(waiting[hash[c]]) /\ hash[c] \in Hashes
    BY ZenonT(60), <1>1, <2>1 DEF Leave, Consistent, CandidatesSound
  <2>3. waiting[hash[c]] # <<>> /\ c \in Range(waiting[hash[c]])
    BY <1>1, <2>2, RangeProperties DEF Consistent, TypeOK
  <2>4. ready[c] = None /\ pending[c] = None
    BY ZenonT(60), <1>1, <2>1, <2>2, <2>3 DEF Leave, Consistent, QueuesSound, CandidatesSound
  <2> QED BY <1>1, <2>2, <2>3, <2>4 DEF Consistent, QueueExclusion, Held
<1> QED BY <1>1, Consistency, PTL DEF Spec, NoMissedMatch, Missed

-----------------------------------------------------------------------------
(* Shutdown.                                                               *)

\* The channel that a shutdown waits on stays open while a hash that it awaits goes on, and
\* once another channel has replaced it, it is closed.
WaitSound ==
    /\ shutdown \in [waiting : BOOLEAN, idle : Nat, awaits : SUBSET References]
    /\ \A r \in shutdown.awaits : stage[r] # "new"
    /\ shutdown.waiting /\ shutdown.idle # idle => shutdown.idle \in closed
    /\ shutdown.waiting /\ shutdown.idle \in closed =>
          \A r \in shutdown.awaits : stage[r] = "finished"

\* No shutdown is waiting at first.
LEMMA InitWait == ShutdownInit => WaitSound
BY DEF ShutdownInit, Init, NoShutdown, WaitSound

\* A new reference replaces the channel only when it is closed.
LEMMA ForwardWait ==
    ASSUME Consistent, WaitSound, UNCHANGED shutdown, NEW r \in References, Forward(r)
    PROVE  WaitSound'
<1>1. hashing = 0 => idle \in closed
  BY DEF Consistent, IdleIsClosed
<1>2. r \notin shutdown.awaits /\ \A x \in shutdown.awaits : stage'[x] = stage[x]
  BY DEF Forward, WaitSound, Consistent, TypeOK
<1> QED BY Zenon, <1>1, <1>2 DEF Forward, WaitSound, Consistent, TypeOK

\* The last hash closes the channel, and then no awaited hash is in progress.
LEMMA FinishWait ==
    ASSUME Consistent, WaitSound, UNCHANGED shutdown, NEW r \in References, FinishHashing(r)
    PROVE  WaitSound'
<1>1. \A x \in References : stage'[x] = IF x = r THEN "finished" ELSE stage[x]
  BY DEF FinishHashing, Consistent, TypeOK
<1>2. CASE hashing = 1
  <2>1. IsFiniteSet(InProgress) /\ r \in InProgress /\ Cardinality(InProgress) = 1
    BY <1>2, FS_Subset DEF InProgress, FinishHashing, Consistent, IdleIsClosed
  <2>2. InProgress = {r}
    <3>1. PICK x : InProgress = {x}
      BY Zenon, <2>1, FS_Singleton
    <3> QED BY <2>1, <3>1
  <2>3. \A x \in shutdown.awaits : stage'[x] = "finished"
    BY <1>1, <2>2 DEF WaitSound, InProgress, Consistent, TypeOK, Stages
  <2> QED BY <1>1, <1>2, <2>3 DEF FinishHashing, WaitSound, Consistent, TypeOK
<1>3. CASE hashing # 1
  BY <1>1, <1>3 DEF FinishHashing, WaitSound, Consistent, TypeOK
<1> QED BY <1>2, <1>3

\* Every other step leaves the channels, and which hashes are new or ended, as they are.
LEMMA OtherWait ==
    ASSUME Consistent, WaitSound, UNCHANGED <<shutdown, idle, closed>>,
           \A r \in References :
              stage[r] \in {"new", "finished"} <=> stage'[r] \in {"new", "finished"},
           \A r \in References : stage[r] = "new" <=> stage'[r] = "new"
    PROVE  WaitSound'
BY DEF WaitSound

\* A step of the queue keeps the wait sound.
LEMMA NextWait ==
    ASSUME Consistent, WaitSound, [Next]_vars, UNCHANGED shutdown
    PROVE  WaitSound'
<1> DEFINE Same == UNCHANGED <<idle, closed, stage>>
<1>0. ASSUME Same PROVE WaitSound'
  BY <1>0 DEF WaitSound
<1>1. CASE UNCHANGED vars
  BY <1>0, <1>1 DEF vars
<1>2. ASSUME NEW r \in References, Forward(r) \/ HashingStep(r) \/ ReportStep(r) \/ ExpiryStep(r)
      PROVE  WaitSound'
  <2>1. CASE HashFails(r) \/ (\E h \in Hashes : AddToWaiter(r, h) \/ AddToUnused(r, h))
    <3>1. /\ stage[r] = "hashing" /\ stage' = [stage EXCEPT ![r] = "hashed"]
          /\ UNCHANGED <<idle, closed>>
      BY <2>1 DEF HashFails, AddToWaiter, AddToUnused
    <3> QED BY <3>1, OtherWait DEF Consistent, TypeOK
  <2>2. CASE ReportStep(r) \/ ExpiryStep(r)
    <3>1. Same
      BY <2>2 DEF ReportStep, ProcessResponse, Unable, ExpiryStep, TimerFires, Expire,
         AbandonExpired
    <3> QED BY <1>0, <3>1
  <2> QED BY <1>2, <2>1, <2>2, ForwardWait, FinishWait DEF HashingStep
<1>3. ASSUME NEW c \in Candidates, Arrive(c) \/ CandidateStep(c) \/ Cancel(c)
      PROVE  WaitSound'
  <2>1. Same
    BY Zenon, <1>3 DEF Arrive, CandidateStep, CandidateHashFails, ClaimUnused, ClaimWaits,
       Receive, GiveUp, Leave, SeeOutcome, SeeCancelled, Replay, Cancel
  <2> QED BY <1>0, <2>1
<1> QED BY <1>1, <1>2, <1>3 DEF Next, Quiescent

\* egressQueue.shutdown returns nil only when every hash in progress at its call has ended:
\* requests that arrive while it waits, and the channels they make, do not let it go early.
THEOREM ShutdownIsSafe == ShutdownSpec => []ShutdownWaits
<1>1. ShutdownInit => Consistent /\ WaitSound
  BY InitConsistent, InitWait DEF ShutdownInit
<1>2. Consistent /\ WaitSound /\ [ShutdownNext]_allVars => (Consistent /\ WaitSound)'
  <2> SUFFICES ASSUME Consistent, WaitSound, [ShutdownNext]_allVars
               PROVE  Consistent' /\ WaitSound'
    OBVIOUS
  <2>1. [Next]_vars
    BY DEF ShutdownNext, allVars, StartShutdown, ShutdownIdle, ShutdownTimeout
  <2>2. CASE UNCHANGED shutdown
    BY <2>1, <2>2, NextWait, NextConsistent
  <2>3. CASE StartShutdown
    <3>1. /\ InProgress \subseteq References
          /\ \A r \in InProgress : stage[r] \notin {"new", "finished"}
      BY DEF InProgress
    <3>2. idle \in closed => InProgress = {}
      <4>1. IsFiniteSet(InProgress)
        BY FS_Subset DEF InProgress
      <4>2. idle \in closed => Cardinality(InProgress) = 0
        BY DEF Consistent, IdleIsClosed
      <4> QED BY <4>1, <4>2, FS_EmptySet
    <3>3. shutdown' = [waiting |-> TRUE, idle |-> idle, awaits |-> InProgress]
      BY <2>3 DEF StartShutdown
    <3>4. UNCHANGED <<idle, closed, stage>> /\ idle \in Nat
      BY <2>3 DEF StartShutdown, vars, Consistent, TypeOK
    <3>5. WaitSound'
      BY <3>1, <3>2, <3>3, <3>4 DEF WaitSound
    <3> QED BY <2>1, <3>5, NextConsistent
  <2>4. CASE ShutdownIdle \/ ShutdownTimeout
    <3>1. shutdown' = NoShutdown /\ UNCHANGED vars
      BY <2>4 DEF ShutdownIdle, ShutdownTimeout
    <3> QED BY <2>1, <3>1, NextConsistent DEF NoShutdown, WaitSound, vars
  <2> QED BY <2>2, <2>3, <2>4 DEF ShutdownNext, allVars
<1>3. WaitSound => ShutdownWaits
  BY DEF WaitSound, ShutdownWaits
<1> QED BY <1>1, <1>2, <1>3, PTL DEF ShutdownSpec

=============================================================================

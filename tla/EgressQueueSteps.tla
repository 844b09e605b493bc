-------------------------- MODULE EgressQueueSteps --------------------------
(***************************************************************************)
(* Lemmas for EgressQueueProofs: a candidate after its claim, and a        *)
(* reference whose hash puts it in a queue, keep Consistent.                *)
(***************************************************************************)
EXTENDS EgressQueueClaims

USE RequestsAssumption, SMTT(60) DEF queueVars, idleVars, referenceVars, candidateVars

-----------------------------------------------------------------------------
(* A candidate that waits, gives up or replays.                            *)

\* The waiter moves the reference from its channel into its hands.
LEMMA ReceiveConsistent ==
    ASSUME NEW c \in Candidates, Consistent, Receive(c)
    PROVE  Consistent'
<1>1. TypeOK'
  BY DEF Consistent, Receive, Requests, TypeOK, Stages, Timers, Outcomes, Pcs, Kinds
<1>2. FailClosed'
  BY Zenon DEF Consistent, Receive, Requests, TypeOK, FailClosed
<1>3. Numbered'
  BY DEF Consistent, Receive, Requests, TypeOK, Numbered
<1>4. QueuesSound'
  BY DEF Consistent, Receive, Requests, TypeOK, QueuesSound
<1>5. CandidatesSound'
  BY DEF Consistent, Receive, Requests, TypeOK, CandidatesSound
<1>6. HeldSound'
  BY DEF Consistent, Receive, Requests, TypeOK, CandidatesSound, HeldSound, Held
<1>7. QueueExclusion' /\ ArrivalOrder' /\ IdleIsClosed' /\ ReferencesSound'
  BY Zenon DEF Consistent, Receive, Requests, QueueExclusion, ArrivalOrder, Ordered,
     IdleIsClosed, InProgress, ReferencesSound
<1> QED BY <1>1, <1>2, <1>3, <1>4, <1>5, <1>6, <1>7 DEF Consistent

\* The waiter stays in the queue until it takes q.mu again.
LEMMA GiveUpConsistent ==
    ASSUME NEW c \in Candidates, Consistent, GiveUp(c)
    PROVE  Consistent'
<1>1. TypeOK'
  BY DEF Consistent, GiveUp, Requests, TypeOK, Stages, Timers, Outcomes, Pcs, Kinds
<1>2. FailClosed'
  BY Zenon DEF Consistent, GiveUp, Requests, TypeOK, FailClosed
<1>3. Numbered'
  BY DEF Consistent, GiveUp, Requests, TypeOK, Numbered
<1>4. QueuesSound'
  BY DEF Consistent, GiveUp, Requests, TypeOK, QueuesSound
<1>5. CandidatesSound'
  BY DEF Consistent, GiveUp, Requests, TypeOK, CandidatesSound
<1>6. HeldSound'
  <2>1. \A d \in Candidates : Held(d)' = Held(d)
    BY DEF GiveUp, Held
  <2> QED BY <2>1 DEF Consistent, GiveUp, Requests, TypeOK, HeldSound
<1>7. QueueExclusion' /\ ArrivalOrder' /\ IdleIsClosed' /\ ReferencesSound'
  BY Zenon DEF Consistent, GiveUp, Requests, QueueExclusion, ArrivalOrder, Ordered,
     IdleIsClosed, InProgress, ReferencesSound
<1> QED BY <1>1, <1>2, <1>3, <1>4, <1>5, <1>6, <1>7 DEF Consistent

\* The waiter leaves the queue, or its reference is on the way.
LEMMA LeaveConsistent ==
    ASSUME NEW c \in Candidates, Consistent, Leave(c)
    PROVE  Consistent'
<1>r. IdleIsClosed' /\ ReferencesSound'
  BY Zenon DEF Consistent, Leave, Requests, IdleIsClosed, InProgress, ReferencesSound, Fail
<1> DEFINE h == hash[c]
           w == Delete(waiting[h], c)
<1>a. /\ h \in Hashes /\ waiting[h] \in Seq(Candidates) /\ Ordered(waiting[h])
      /\ arrival \in [Requests -> Nat] /\ Candidates \subseteq Requests /\ pending[c] = None
  BY DEF Consistent, Leave, CandidatesSound, TypeOK, ArrivalOrder, Requests
<1>n. \A g \in Hashes \ {h} : c \notin Range(waiting[g])
  BY DEF Consistent, QueuesSound
<1>b. CASE c \in Range(waiting[h])
  <2>1. waiting' = [waiting EXCEPT ![h] = w] /\ Fail(c, "unmatched")
    BY <1>b DEF Leave
  <2> HIDE DEF h
  <2>2. c \in Range(waiting[h]) /\ waiting[h] # <<>>
    BY <1>a, <1>b, RangeProperties
  <2>3. w \in Seq(Candidates) /\ Range(w) = Range(waiting[h]) \ {c} /\ Ordered(w)
    BY <1>a, <2>2, DeleteQueue
  <2> HIDE DEF w
  <2>4. \A g \in Hashes : waiting'[g] = IF g = h THEN w ELSE waiting[g]
    BY <1>a, <2>1 DEF Consistent, TypeOK
  <2>5. \A g \in Hashes : Range(waiting'[g]) = Range(waiting[g]) \ {c}
    <3>1. Range(waiting'[h]) = Range(w)
      BY <1>a, <2>4
    <3> QED BY <1>n, <2>3, <2>4, <3>1
  <2>q. /\ pc' = [pc EXCEPT ![c] = "failed"]
        /\ quarantine' \in SUBSET (Kinds \X Requests)
    BY <1>a, <2>1 DEF Consistent, TypeOK, Fail, Kinds
  <2>6. TypeOK'
    BY <1>a, <2>1, <2>3, <2>q DEF Consistent, Leave, Requests, TypeOK, Pcs
  <2>7. QueueExclusion'
    <3>1. unused[h] = <<>>
      BY <1>a, <2>2 DEF Consistent, QueueExclusion
    <3> QED BY Zenon, <2>4, <3>1 DEF Consistent, Leave, Requests, QueueExclusion
  <2>8. ArrivalOrder'
    <3>1. \A g \in Hashes : Ordered(waiting'[g])
      BY <2>3, <2>4 DEF Consistent, ArrivalOrder
    <3> QED BY <3>1 DEF Consistent, Leave, Requests, ArrivalOrder, Ordered
  <2>9. FailClosed'
    BY <2>1, FailKeepsClosed DEF Consistent, Leave, Kinds
  <2>10. QueuesSound'
    BY <2>5, <2>q DEF Consistent, Leave, Requests, TypeOK, QueuesSound
  <2>11. ready[c] = None
    BY <1>a, <2>2 DEF Consistent, QueuesSound
  <2>12. CandidatesSound' /\ Numbered'
    BY <2>11, <2>q DEF Consistent, Leave, Requests, TypeOK, CandidatesSound, Numbered
  <2>13. HeldSound'
    <3>1. Held(c) = {} /\ \A d \in Candidates : Held(d)' = Held(d)
      BY <1>a, <2>11 DEF Held, Leave
    <3> QED BY <2>q, <3>1 DEF Consistent, Leave, Requests, TypeOK, HeldSound
  <2> QED BY <1>r, <2>6, <2>7, <2>8, <2>9, <2>10, <2>12, <2>13 DEF Consistent
<1>c. CASE c \notin Range(waiting[h])
  <2>1. /\ pc' = [pc EXCEPT ![c] = "receiving"]
        /\ waiting' = waiting /\ quarantine' = quarantine
    BY <1>c DEF Leave
  <2> HIDE DEF h
  <2>2. c \notin Range(waiting[h])
    BY <1>a, <1>c, RangeProperties
  <2>3. \A g \in Hashes : c \notin Range(waiting[g])
    BY <1>n, <2>2
  <2>4. TypeOK' /\ QueueExclusion' /\ ArrivalOrder'
    BY <2>1 DEF Consistent, Leave, Requests, TypeOK, Pcs, QueueExclusion, ArrivalOrder, Ordered
  <2>5. FailClosed'
    BY Zenon, <2>1 DEF Consistent, Leave, Requests, TypeOK, FailClosed
  <2>6. QueuesSound'
    BY <2>1, <2>3 DEF Consistent, Leave, Requests, TypeOK, QueuesSound
  <2>7. CandidatesSound' /\ Numbered'
    BY <2>1 DEF Consistent, Leave, Requests, TypeOK, CandidatesSound, Numbered
  <2>8. HeldSound'
    BY <2>1 DEF Consistent, Leave, Requests, TypeOK, HeldSound, Held
  <2> QED BY <1>r, <2>4, <2>5, <2>6, <2>7, <2>8 DEF Consistent
<1> HIDE DEF h, w
<1> QED BY <1>b, <1>c DEF Consistent

\* wait returns the response, which is not released, or the failure.
LEMMA SeeOutcomeConsistent ==
    ASSUME NEW c \in Candidates, Consistent, SeeOutcome(c)
    PROVE  Consistent'
<1>a. \/ /\ pc' = [pc EXCEPT ![c] = "replaying"] /\ quarantine' = quarantine
         /\ outcome[pending[c]] = "raw"
      \/ Fail(c, "unable")
  BY DEF SeeOutcome
<1>b. pc' \in [Candidates -> Pcs] /\ quarantine' \in SUBSET (Kinds \X Requests)
  <2>1. CASE Fail(c, "unable")
    BY <2>1 DEF Consistent, TypeOK, Fail, Pcs, Kinds, Requests
  <2>2. CASE pc' = [pc EXCEPT ![c] = "replaying"] /\ quarantine' = quarantine
    BY <2>2 DEF Consistent, TypeOK, Pcs
  <2> QED BY <1>a, <2>1, <2>2
<1>c. /\ \A d \in Candidates \ {c} : pc'[d] = pc[d]
      /\ pc'[c] \in {"replaying", "failed"} /\ ready[c] = None
  BY <1>a DEF Consistent, TypeOK, CandidatesSound, SeeOutcome, Fail
<1>1. TypeOK'
  BY <1>b DEF Consistent, SeeOutcome, Requests, TypeOK
<1>2. FailClosed'
  <2>1. CASE Fail(c, "unable")
    BY <2>1, FailKeepsClosed DEF Consistent, SeeOutcome, Kinds
  <2>2. CASE pc' = [pc EXCEPT ![c] = "replaying"] /\ quarantine' = quarantine
    BY Zenon, <2>2 DEF Consistent, SeeOutcome, Requests, TypeOK, FailClosed
  <2> QED BY <1>a, <2>1, <2>2
<1>3. Numbered'
  BY DEF Consistent, SeeOutcome, Requests, TypeOK, Numbered, Fail
<1>4. QueuesSound'
  <2>1. \A h \in Hashes : \A d \in Range(waiting[h]) : d \in Candidates \ {c}
    <3>1. \A h \in Hashes : Range(waiting[h]) \subseteq Candidates
      BY RangeProperties DEF Consistent, TypeOK
    <3> QED BY <3>1 DEF Consistent, SeeOutcome, QueuesSound
  <2> QED BY <1>c, <2>1 DEF Consistent, SeeOutcome, Requests, QueuesSound
<1>5. CandidatesSound'
  BY DEF Consistent, SeeOutcome, Requests, TypeOK, CandidatesSound, Fail
<1>6. HeldSound'
  <2>1. \A d \in Candidates : Held(d)' = Held(d)
    BY DEF SeeOutcome, Held
  <2>2. /\ UNCHANGED <<hash, stage, timer, unused, abandoned, released>>
        /\ pc[c] = "awaiting" /\ HeldSound
    BY DEF Consistent, SeeOutcome
  <2> QED BY <1>c, <2>1, <2>2 DEF HeldSound
<1>7. QueueExclusion' /\ ArrivalOrder' /\ IdleIsClosed' /\ ReferencesSound'
  BY DEF Consistent, SeeOutcome, Requests, QueueExclusion, ArrivalOrder, Ordered,
     IdleIsClosed, InProgress, ReferencesSound, Fail
<1> QED BY <1>1, <1>2, <1>3, <1>4, <1>5, <1>6, <1>7 DEF Consistent

\* wait abandons a reference that is this candidate's alone.
LEMMA SeeCancelledConsistent ==
    ASSUME NEW c \in Candidates, Consistent, SeeCancelled(c)
    PROVE  Consistent'
<1>a. pending[c] \in References
  BY DEF Consistent, SeeCancelled, TypeOK, CandidatesSound
<1>1. TypeOK'
  BY <1>a DEF Consistent, SeeCancelled, Requests, TypeOK, Fail, Abandon, Pcs, Kinds
<1>2. FailClosed'
  BY FailKeepsClosed DEF Consistent, SeeCancelled, Kinds
<1>3. Numbered'
  BY DEF Consistent, SeeCancelled, Requests, TypeOK, Numbered, Fail, Abandon
<1>4. QueuesSound'
  BY DEF Consistent, SeeCancelled, Requests, TypeOK, QueuesSound, CandidatesSound,
     HeldSound, Held, Fail, Abandon
<1>5. ReferencesSound'
  BY DEF Consistent, SeeCancelled, Requests, TypeOK, ReferencesSound, CandidatesSound,
     HeldSound, Held, Fail, Abandon
<1>6. CandidatesSound'
  BY DEF Consistent, SeeCancelled, Requests, TypeOK, CandidatesSound, Fail, Abandon
<1>7. HeldSound'
  BY DEF Consistent, SeeCancelled, Requests, TypeOK, CandidatesSound, HeldSound, Held,
     Fail, Abandon
<1>8. QueueExclusion' /\ ArrivalOrder' /\ IdleIsClosed'
  BY DEF Consistent, SeeCancelled, Requests, QueueExclusion, ArrivalOrder, Ordered,
     IdleIsClosed, InProgress, Fail, Abandon
<1> QED BY <1>1, <1>2, <1>3, <1>4, <1>5, <1>6, <1>7, <1>8 DEF Consistent

\* Replay releases a response that is this candidate's alone.
LEMMA ReplayConsistent ==
    ASSUME NEW c \in Candidates, Consistent, Replay(c)
    PROVE  Consistent'
<1>a. pending[c] \in References
  BY DEF Consistent, Replay, TypeOK, CandidatesSound
<1>1. TypeOK'
  BY <1>a DEF Consistent, Replay, Requests, TypeOK, Pcs
<1>2. FailClosed'
  BY Zenon DEF Consistent, Replay, Requests, TypeOK, FailClosed
<1>3. Numbered'
  BY DEF Consistent, Replay, Requests, TypeOK, Numbered
<1>4. QueuesSound'
  BY DEF Consistent, Replay, Requests, TypeOK, QueuesSound, CandidatesSound, HeldSound, Held
<1>5. ReferencesSound'
  BY ZenonT(60) DEF Consistent, Replay, Requests, TypeOK, ReferencesSound, CandidatesSound,
     HeldSound, Held
<1>6. CandidatesSound'
  BY DEF Consistent, Replay, Requests, TypeOK, CandidatesSound
<1>7. HeldSound'
  BY DEF Consistent, Replay, Requests, TypeOK, CandidatesSound, HeldSound, Held
<1>8. QueueExclusion' /\ ArrivalOrder' /\ IdleIsClosed'
  BY DEF Consistent, Replay, Requests, QueueExclusion, ArrivalOrder, Ordered,
     IdleIsClosed, InProgress
<1> QED BY <1>1, <1>2, <1>3, <1>4, <1>5, <1>6, <1>7, <1>8 DEF Consistent

\* A done context changes nothing in the queues.
LEMMA CancelConsistent ==
    ASSUME NEW c \in Candidates, Consistent, Cancel(c)
    PROVE  Consistent'
<1>1. TypeOK'
  BY DEF Consistent, Cancel, Requests, TypeOK, Stages, Timers, Outcomes, Pcs, Kinds
<1>2. FailClosed'
  BY Zenon DEF Consistent, Cancel, Requests, TypeOK, FailClosed
<1>3. HeldSound'
  <2>1. \A d \in Candidates : Held(d)' = Held(d)
    BY DEF Cancel, Held
  <2> QED BY <2>1 DEF Consistent, Cancel, Requests, TypeOK, HeldSound
<1>4. ArrivalOrder'
  BY DEF Consistent, Cancel, Requests, ArrivalOrder, Ordered
<1>5. Numbered'
  BY DEF Consistent, Cancel, Requests, Numbered
<1>6. QueuesSound'
  BY DEF Consistent, Cancel, Requests, QueuesSound
<1>7. ReferencesSound'
  BY DEF Consistent, Cancel, Requests, ReferencesSound
<1>8. CandidatesSound'
  BY DEF Consistent, Cancel, Requests, CandidatesSound
<1>9. QueueExclusion' /\ IdleIsClosed'
  BY DEF Consistent, Cancel, Requests, QueueExclusion, IdleIsClosed, InProgress
<1> QED BY <1>1, <1>2, <1>3, <1>4, <1>5, <1>6, <1>7, <1>8, <1>9 DEF Consistent

-----------------------------------------------------------------------------
(* A reference whose hash is ready.                                        *)

\* add hands the reference to the first waiter, which leaves the queue.
LEMMA AddToWaiterConsistent ==
    ASSUME NEW r \in References, NEW h \in Hashes, Consistent, AddToWaiter(r, h)
    PROVE  Consistent'
<1>q. /\ waiting[h] \in Seq(Candidates) /\ waiting[h] # <<>> /\ Ordered(waiting[h])
      /\ arrival \in [Requests -> Nat] /\ Candidates \subseteq Requests
  BY DEF Consistent, TypeOK, ArrivalOrder, AddToWaiter, Requests
<1>p. PICK c \in Candidates : c = Head(waiting[h])
  BY <1>q, TailQueue
<1>a. /\ c \in Range(waiting[h]) /\ Tail(waiting[h]) \in Seq(Candidates)
      /\ Range(Tail(waiting[h])) = Range(waiting[h]) \ {c} /\ Ordered(Tail(waiting[h]))
  BY <1>p, <1>q, TailQueue
<1>d. ready' = [ready EXCEPT ![c] = r] /\ ready[c] = None
  BY <1>p DEF AddToWaiter
<1>b. \A g \in Hashes :
         waiting'[g] = IF g = h THEN Tail(waiting[h]) ELSE waiting[g]
  BY DEF Consistent, TypeOK, AddToWaiter
<1>c. \A g \in Hashes : Range(waiting'[g]) = Range(waiting[g]) \ {c}
  <2>1. \A g \in Hashes \ {h} : c \notin Range(waiting[g])
    BY <1>a DEF Consistent, QueuesSound
  <2>2. Range(waiting'[h]) = Range(waiting[h]) \ {c}
    BY <1>a, <1>b
  <2> QED BY <1>b, <2>1, <2>2
<1>1. TypeOK'
  BY DEF Consistent, AddToWaiter, Requests, TypeOK, Stages, Timers, Outcomes, Pcs, Kinds
<1>2. QueueExclusion'
  BY DEF Consistent, AddToWaiter, Requests, TypeOK, QueueExclusion
<1>3. ArrivalOrder'
  <2>1. \A g \in Hashes : Ordered(waiting'[g])
    BY <1>a, <1>b DEF Consistent, ArrivalOrder
  <2> QED BY Zenon, <2>1 DEF Consistent, AddToWaiter, Requests, ArrivalOrder, Ordered
<1>4. IdleIsClosed'
  BY Zenon DEF Consistent, AddToWaiter, Requests, TypeOK, IdleIsClosed, InProgress
<1>5. Numbered'
  BY DEF Consistent, AddToWaiter, Requests, TypeOK, Numbered
<1>6. QueuesSound'
  BY <1>a, <1>c, <1>d DEF Consistent, AddToWaiter, Requests, TypeOK, QueuesSound,
     ReferencesSound
<1>7. ReferencesSound'
  BY DEF Consistent, AddToWaiter, Requests, TypeOK, ReferencesSound
<1>8. CandidatesSound'
  BY <1>a, <1>d DEF Consistent, AddToWaiter, Requests, TypeOK, QueuesSound, CandidatesSound
<1>9. HeldSound'
  <2>1. hash[c] = h /\ pc[c] \in {"waiting", "leaving"} /\ pending[c] = None
    BY <1>a DEF Consistent, QueuesSound, CandidatesSound
  <2>2. /\ r \notin abandoned \cup released /\ timer[r] = "off" /\ hash[r] = None
        /\ \A d \in Candidates : r \notin Held(d)
        /\ \A g \in Hashes : r \notin Range(unused[g])
    BY DEF Consistent, AddToWaiter, ReferencesSound, HeldSound, QueuesSound
  <2>3. Held(c)' = {r}
    <3>1. ready'[c] = r /\ pending'[c] = None /\ r # None
      BY <1>a, <1>d, <2>1 DEF Consistent, TypeOK, AddToWaiter
    <3> QED BY <3>1 DEF Held
  <2>4. \A d \in Candidates \ {c} : Held(d)' = Held(d)
    BY <1>a, <1>d DEF Held, Consistent, TypeOK, AddToWaiter
  <2>5. \A d \in Candidates : Held(d) \subseteq References
    BY DEF Held, Consistent, TypeOK
  <2>6. /\ \A x \in Requests \ {r} : hash'[x] = hash[x]
        /\ \A x \in References \ {r} : stage'[x] = stage[x]
        /\ hash'[r] = h /\ stage'[r] = "hashed"
    BY DEF Consistent, TypeOK, AddToWaiter, Requests
  <2>7. \A d \in Candidates : d \in Requests /\ d # r
    BY DEF Requests
  <2>8. \A x \in References : x \in Requests
    BY DEF Requests
  <2>9. UNCHANGED <<unused, timer, pc, abandoned, released>>
    BY DEF AddToWaiter
  <2>10. HeldSound
    BY DEF Consistent
  <2> SUFFICES ASSUME NEW d \in Candidates, NEW x \in Held(d)'
               PROVE  /\ hash'[x] = hash'[d] /\ stage'[x] \in {"hashed", "finished"}
                      /\ timer'[x] \in {"off", "fired"}
                      /\ \A e \in Candidates \ {d} : x \notin Held(e)'
                      /\ \A g \in Hashes : x \notin Range(unused'[g])
                      /\ pc'[d] \notin {"failed", "replayed"} => x \notin abandoned' \cup released'
    BY DEF HeldSound
  <2>11. CASE d = c
    BY <1>a, <2>1, <2>2, <2>3, <2>4, <2>6, <2>7, <2>9, <2>11
  <2>12. CASE d # c
    <3>1. x \in Held(d) /\ x \in References /\ x # r
      BY <2>2, <2>4, <2>5, <2>12
    <3>2. /\ hash[x] = hash[d] /\ stage[x] \in {"hashed", "finished"}
          /\ timer[x] \in {"off", "fired"}
          /\ \A e \in Candidates \ {d} : x \notin Held(e)
          /\ \A g \in Hashes : x \notin Range(unused[g])
          /\ pc[d] \notin {"failed", "replayed"} => x \notin abandoned \cup released
      BY <2>10, <3>1 DEF HeldSound
    <3>3. \A e \in Candidates \ {d} : x \notin Held(e)'
      BY <2>3, <2>4, <3>1, <3>2
    <3> QED BY <2>6, <2>7, <2>8, <2>9, <3>1, <3>2, <3>3
  <2> QED BY <2>11, <2>12
<1>10. FailClosed'
  BY Zenon DEF Consistent, AddToWaiter, Requests, FailClosed
<1> QED BY <1>1, <1>2, <1>3, <1>4, <1>5, <1>6, <1>7, <1>8, <1>9, <1>10 DEF Consistent

\* add inserts the reference in arrival order; nobody waits for its hash.
LEMMA AddToUnusedConsistent ==
    ASSUME NEW r \in References, NEW h \in Hashes, Consistent, AddToUnused(r, h)
    PROVE  Consistent'
<1>a. /\ hash[r] = None /\ timer[r] = "off" /\ r \notin abandoned \cup released
      /\ \A g \in Hashes : r \notin Range(unused[g])
  BY DEF Consistent, AddToUnused, ReferencesSound, QueuesSound
<1> DEFINE w == InsertByArrival(unused[h], r)
<1>b. /\ w \in Seq(References) /\ Range(w) = Range(unused[h]) \cup {r} /\ Ordered(w)
  <2>1. /\ unused[h] \in Seq(References) /\ arrival \in [Requests -> Nat]
        /\ References \subseteq Requests /\ Ordered(unused[h])
    BY DEF Consistent, TypeOK, ArrivalOrder, Requests
  <2>2. \A y \in Range(unused[h]) : arrival[y] # arrival[r]
    <3>1. Range(unused[h]) \subseteq References
      BY <2>1, RangeProperties
    <3>2. arrival[r] # 0
      BY <2>1 DEF Consistent, Numbered, AddToUnused
    <3>3. \A y \in Requests \ {r} : arrival[y] # arrival[r]
      BY <2>1, <3>2 DEF Consistent, Numbered
    <3> QED BY <1>a, <2>1, <3>1, <3>3
  <2> QED BY <2>1, <2>2, InsertByArrivalProperties
<1>c. unused' = [unused EXCEPT ![h] = w]
  BY DEF AddToUnused
<1> HIDE DEF w
<1>d. \A g \in Hashes : unused'[g] = IF g = h THEN w ELSE unused[g]
  BY <1>c DEF Consistent, TypeOK
<1>e. /\ Range(unused'[h]) = Range(unused[h]) \cup {r}
      /\ \A g \in Hashes \ {h} : Range(unused'[g]) = Range(unused[g])
  <2>1. Range(unused'[h]) = Range(w)
    BY <1>d
  <2>2. \A g \in Hashes \ {h} : unused'[g] = unused[g]
    BY <1>d
  <2> QED BY <1>b, <2>1, <2>2
<1>1. TypeOK'
  BY <1>b, <1>c DEF Consistent, AddToUnused, Requests, TypeOK, Stages, Timers
<1>2. QueueExclusion'
  BY <1>d DEF Consistent, AddToUnused, Requests, QueueExclusion
<1>3. ArrivalOrder'
  <2>1. \A g \in Hashes : Ordered(unused'[g])
    BY <1>b, <1>d DEF Consistent, ArrivalOrder
  <2> QED BY <2>1 DEF Consistent, AddToUnused, Requests, ArrivalOrder, Ordered
<1>4. IdleIsClosed'
  BY Zenon DEF Consistent, AddToUnused, Requests, TypeOK, IdleIsClosed, InProgress
<1>5. Numbered'
  BY DEF Consistent, AddToUnused, Requests, TypeOK, Numbered
<1>6. QueuesSound'
  BY <1>a, <1>e DEF Consistent, AddToUnused, Requests, TypeOK, QueuesSound
<1>7. ReferencesSound'
  BY <1>a, <1>e DEF Consistent, AddToUnused, Requests, TypeOK, ReferencesSound
<1>8. CandidatesSound'
  BY DEF Consistent, AddToUnused, Requests, TypeOK, QueuesSound, ReferencesSound,
     CandidatesSound, HeldSound, Held
<1>9. HeldSound'
  <2>1. \A c \in Candidates : r \notin Held(c) /\ Held(c)' = Held(c)
    BY <1>a DEF Consistent, AddToUnused, Requests, HeldSound, Held
  <2>2. \A c \in Candidates : Held(c) \subseteq References
    BY DEF Held, Consistent, TypeOK
  <2> QED BY <1>a, <1>e, <2>1, <2>2 DEF Consistent, AddToUnused, Requests, TypeOK, HeldSound
<1>10. FailClosed'
  BY Zenon DEF Consistent, AddToUnused, Requests, FailClosed
<1> QED BY <1>1, <1>2, <1>3, <1>4, <1>5, <1>6, <1>7, <1>8, <1>9, <1>10 DEF Consistent

=============================================================================

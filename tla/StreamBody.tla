------------------------------ MODULE StreamBody ------------------------------
(***************************************************************************)
(* The mirrored request bodies (internal/httpserver/body.go) on their      *)
(* shared budget (internal/proxy/budget.go).                               *)
(*                                                                         *)
(* The reference's transport reads a client's upload through a tee, which  *)
(* appends what it read to the candidate's body and never waits; the       *)
(* candidate's transport reads that body.  One action is one critical      *)
(* section of b.mu, except that an append holds b.mu over one step per     *)
(* block, because other bodies reserve and release in between.             *)
(*                                                                         *)
(* A byte is its position in the upload.                                   *)
(***************************************************************************)
EXTENDS Integers, Sequences, FiniteSets, FiniteSetsExt, Functions

CONSTANTS
    Bodies,     \* uploads that are mirrored
    BlockSize,  \* bufferBlockSize
    Limit,      \* limit of the budget
    MaxBytes    \* bound: bytes of one upload

ASSUME BodiesAssumption ==
    IsFiniteSet(Bodies) /\ {BlockSize, Limit, MaxBytes} \subseteq Nat \ {0}

VARIABLES
    used,         \* bytes reserved from the budget
    chunks,       \* data of the chunks from b.head to b.tail
    offset,       \* b.offset
    allocated,    \* b.allocated
    writerError,  \* b.writerError, "none" while b.writerClosed is false
    readerClosed, \* bodies with b.readerClosed
    aborted,      \* bodies whose candidate request was cancelled by b.abort
    sent,         \* bytes the tee has read from each upload
    pending,      \* what an append that holds b.mu has still to store
    source,       \* the producer of each body
    reader,       \* the consumer of each body
    got,          \* what the consumer has read
    quarantine    \* bodies whose overflow callback quarantined the candidate

bodyVars == <<chunks, offset, allocated, writerError, readerClosed>>
vars == <<used, bodyVars, aborted, sent, pending, source, reader, got, quarantine>>

Init ==
    /\ used = 0
    /\ chunks = [b \in Bodies |-> <<>>]
    /\ offset = [b \in Bodies |-> 0]
    /\ allocated = [b \in Bodies |-> 0]
    /\ writerError = [b \in Bodies |-> "none"]
    /\ readerClosed = {}
    /\ aborted = {}
    /\ sent = [b \in Bodies |-> 0]
    /\ pending = [b \in Bodies |-> <<>>]
    /\ source = [b \in Bodies |-> "reading"]
    /\ reader = [b \in Bodies |-> "reading"]
    /\ got = [b \in Bodies |-> <<>>]
    /\ quarantine = {}

-----------------------------------------------------------------------------
(* The lock and the condition variable.                                    *)

\* b.mu is free: no append is in its loop.
Free(b) == pending[b] = <<>>

\* b.ready.Signal and Broadcast, which are the same for one consumer.
Wake(b) == IF reader[b] = "waiting" THEN [reader EXCEPT ![b] = "reading"] ELSE reader

\* Capacity of each chunk.
Capacity == IF BlockSize < Limit THEN BlockSize ELSE Limit

clearBuffer(b) ==
    /\ chunks' = [chunks EXCEPT ![b] = <<>>]
    /\ offset' = [offset EXCEPT ![b] = 0]
    /\ allocated' = [allocated EXCEPT ![b] = 0]
    /\ used' = used - allocated[b]

-----------------------------------------------------------------------------
(* The producer: teeBody.Read and Close, called by the reference transport. *)

\* The tee reads n bytes and append drops them, because one end is closed.
AppendDrops(b, n) ==
    /\ source[b] = "reading" /\ Free(b)
    /\ sent[b] + n <= MaxBytes
    /\ b \in readerClosed \/ writerError[b] # "none"
    /\ sent' = [sent EXCEPT ![b] = @ + n]
    /\ UNCHANGED <<used, bodyVars, aborted, pending, source, reader, got, quarantine>>

\* The tee reads n bytes and append takes b.mu to store them.
StartAppend(b, n) ==
    /\ source[b] = "reading" /\ Free(b)
    /\ sent[b] + n <= MaxBytes
    /\ b \notin readerClosed /\ writerError[b] = "none"
    /\ sent' = [sent EXCEPT ![b] = @ + n]
    /\ pending' = [pending EXCEPT ![b] = [i \in 1 .. n |-> sent[b] + i]]
    /\ UNCHANGED <<used, bodyVars, aborted, source, reader, got, quarantine>>

\* b.tail
tail(b) == chunks[b][Len(chunks[b])]

\* The queue has no chunk, or its last one is full.
NeedsChunk(b) == chunks[b] # <<>> => Len(tail(b)) = Capacity

\* The queue after one iteration of append's loop, which starts a chunk if needed.
Filled(b, n) ==
    LET data == SubSeq(pending[b], 1, n)
    IN  IF NeedsChunk(b) THEN Append(chunks[b], data)
        ELSE [chunks[b] EXCEPT ![Len(chunks[b])] = @ \o data]

\* Mutant: the producer does not wake the reader.
FillSilently(b) ==
    /\ ~Free(b)
    /\ NeedsChunk(b) => used + Capacity <= Limit
    /\ LET available == IF NeedsChunk(b) THEN Capacity ELSE Capacity - Len(tail(b))
           n == Min({available, Len(pending[b])})
       IN  /\ chunks' = [chunks EXCEPT ![b] = Filled(b, n)]
           /\ pending' = [pending EXCEPT ![b] = SubSeq(@, n + 1, Len(@))]
    /\ used' = IF NeedsChunk(b) THEN used + Capacity ELSE used
    /\ allocated' = [allocated EXCEPT ![b] = IF NeedsChunk(b) THEN @ + Capacity ELSE @]
    /\ UNCHANGED <<offset, writerError, readerClosed, aborted, sent, source, reader, got,
                   quarantine>>

\* One iteration.  The last one signals the reader and unlocks b.mu.
Fill(b) ==
    /\ ~Free(b)
    /\ NeedsChunk(b) => used + Capacity <= Limit
    /\ LET available == IF NeedsChunk(b) THEN Capacity ELSE Capacity - Len(tail(b))
           n == Min({available, Len(pending[b])})
       IN  /\ chunks' = [chunks EXCEPT ![b] = Filled(b, n)]
           /\ pending' = [pending EXCEPT ![b] = SubSeq(@, n + 1, Len(@))]
    /\ used' = IF NeedsChunk(b) THEN used + Capacity ELSE used
    /\ allocated' = [allocated EXCEPT ![b] = IF NeedsChunk(b) THEN @ + Capacity ELSE @]
    /\ reader' = IF pending'[b] = <<>> THEN Wake(b) ELSE reader
    /\ UNCHANGED <<offset, writerError, readerClosed, aborted, sent, source, got, quarantine>>

\* The budget is full: append ends the body and unlocks b.mu.
Overflow(b) ==
    /\ ~Free(b) /\ NeedsChunk(b)
    /\ used + Capacity > Limit
    /\ writerError' = [writerError EXCEPT ![b] = "overflow"]
    /\ clearBuffer(b)
    /\ pending' = [pending EXCEPT ![b] = <<>>]
    /\ reader' = Wake(b)
    /\ source' = [source EXCEPT ![b] = "overflowing"]
    /\ UNCHANGED <<readerClosed, aborted, sent, got, quarantine>>

\* Mutant: the overflow is not reported.
OverflowIgnored(b) ==
    /\ source[b] = "overflowing"
    /\ source' = [source EXCEPT ![b] = "reading"]
    /\ UNCHANGED <<used, bodyVars, aborted, sent, pending, reader, got, quarantine>>

\* Then it calls b.overflow, which quarantines the candidate; the upload goes on.
OverflowCall(b) ==
    /\ source[b] = "overflowing"
    /\ quarantine' = quarantine \cup {b}
    /\ source' = [source EXCEPT ![b] = "reading"]
    /\ UNCHANGED <<used, bodyVars, aborted, sent, pending, reader, got>>

\* Mutant: the candidate is not cancelled with the upload.
CloseUnaborted(b, err) ==
    /\ writerError' = IF writerError[b] = "none"
                      THEN [writerError EXCEPT ![b] = err] ELSE writerError
    /\ reader' = IF writerError[b] = "none" THEN Wake(b) ELSE reader
    /\ UNCHANGED aborted

\* closeWriter.  A body that was ended before stays as it is.
closeWriter(b, err) ==
    \/ /\ writerError[b] # "none"
       /\ UNCHANGED <<writerError, aborted, reader>>
    \/ /\ writerError[b] = "none"
       /\ aborted' = IF err = "EOF" THEN aborted ELSE aborted \cup {b}
       /\ writerError' = [writerError EXCEPT ![b] = err]
       /\ reader' = Wake(b)

\* The tee's source ends, breaks, or is closed before its end.
SourceEnds(b) ==
    /\ source[b] = "reading" /\ Free(b)
    /\ \E err \in {"EOF", "broken"} :
          /\ source' = [source EXCEPT ![b] = err]
          /\ closeWriter(b, err)
    /\ UNCHANGED <<used, chunks, offset, allocated, readerClosed, sent, pending, got, quarantine>>

-----------------------------------------------------------------------------
(* The consumer: Read and Close, called by the candidate transport.        *)

\* Read finds nothing yet and waits on b.ready.
ReadWaits(b) ==
    /\ reader[b] = "reading" /\ Free(b)
    /\ chunks[b] = <<>> /\ writerError[b] = "none" /\ b \notin readerClosed
    /\ reader' = [reader EXCEPT ![b] = "waiting"]
    /\ UNCHANGED <<used, bodyVars, aborted, sent, pending, source, got, quarantine>>

\* Read copies n bytes of the first chunk, and frees the chunk once all of its data,
\* which may be less than its capacity, is read.
Read(b, n) ==
    /\ reader[b] = "reading" /\ Free(b)
    /\ chunks[b] # <<>>
    /\ n <= Len(Head(chunks[b])) - offset[b]
    /\ got' = [got EXCEPT ![b] = @ \o SubSeq(Head(chunks[b]), offset[b] + 1, offset[b] + n)]
    /\ \/ /\ offset[b] + n = Len(Head(chunks[b]))
          /\ chunks' = [chunks EXCEPT ![b] = Tail(@)]
          /\ offset' = [offset EXCEPT ![b] = 0]
          /\ allocated' = [allocated EXCEPT ![b] = @ - Capacity]
          /\ used' = used - Capacity
       \/ /\ offset[b] + n # Len(Head(chunks[b]))
          /\ offset' = [offset EXCEPT ![b] = @ + n]
          /\ UNCHANGED <<chunks, allocated, used>>
    /\ UNCHANGED <<writerError, readerClosed, aborted, sent, pending, source, reader, quarantine>>

\* Read returns the error of the closed reader or the writer.
ReadEnds(b) ==
    /\ reader[b] = "reading" /\ Free(b)
    /\ chunks[b] = <<>>
    /\ \/ /\ b \in readerClosed
          /\ reader' = [reader EXCEPT ![b] = "closed"]
       \/ /\ b \notin readerClosed /\ writerError[b] # "none"
          /\ reader' = [reader EXCEPT ![b] = writerError[b]]
    /\ UNCHANGED <<used, bodyVars, aborted, sent, pending, source, got, quarantine>>

\* closeReader, called by the transport and by the candidate's handler as it returns,
\* which may be while another goroutine of the transport is in Read.
CloseReader(b) ==
    /\ Free(b)
    /\ b \notin readerClosed
    /\ readerClosed' = readerClosed \cup {b}
    /\ clearBuffer(b)
    /\ reader' = Wake(b)
    /\ UNCHANGED <<writerError, aborted, sent, pending, source, got, quarantine>>

-----------------------------------------------------------------------------
Sizes == 1 .. MaxBytes

Produce(b) ==
    \/ \E n \in Sizes : AppendDrops(b, n) \/ StartAppend(b, n)
    \/ Fill(b) \/ Overflow(b) \/ OverflowCall(b) \/ SourceEnds(b)

Consume(b) == ReadWaits(b) \/ ReadEnds(b) \/ \E n \in Sizes : Read(b, n)

\* Both ends of every body are finished.
Quiescent ==
    /\ \A b \in Bodies : source[b] \in {"EOF", "broken"} /\ b \in readerClosed
    /\ \A b \in Bodies : reader[b] \notin {"reading", "waiting"}
    /\ UNCHANGED vars

Next ==
    \/ \E b \in Bodies : Produce(b) \/ Consume(b) \/ CloseReader(b)
    \/ Quiescent

Spec == Init /\ [][Next]_vars

\* The upload and the candidate's transport go on reading, and an append that holds
\* b.mu goes on.  Nobody has to close the reader.
Fairness ==
    \A b \in Bodies :
       /\ WF_vars(Fill(b) \/ Overflow(b))
       /\ WF_vars(OverflowCall(b))
       /\ WF_vars(Consume(b))

FairSpec == Spec /\ Fairness

-----------------------------------------------------------------------------
(* Properties.                                                             *)

Ends == {"EOF", "broken", "overflow"}

\* Every field of every body and of its two goroutines holds a value of its type.
TypeOK ==
    /\ used \in 0 .. Limit
    /\ chunks \in [Bodies -> Seq(Seq(Sizes))]
    /\ offset \in [Bodies -> 0 .. Capacity]
    /\ allocated \in [Bodies -> 0 .. Limit]
    /\ writerError \in [Bodies -> Ends \cup {"none"}]
    /\ readerClosed \in SUBSET Bodies
    /\ aborted \in SUBSET Bodies
    /\ sent \in [Bodies -> 0 .. MaxBytes]
    /\ pending \in [Bodies -> Seq(Sizes)]
    /\ source \in [Bodies -> {"reading", "overflowing", "EOF", "broken"}]
    /\ reader \in [Bodies -> {"reading", "waiting", "closed"} \cup Ends]
    /\ got \in [Bodies -> Seq(Sizes)]
    /\ quarantine \in SUBSET Bodies

\* "Its allocation is charged to the shared budget until read or discarded": the budget
\* is charged for the chunks that are queued and for nothing else, so it is never
\* exceeded, no release panics, and a body whose reader is closed holds nothing.  The
\* rest of the state is well typed too.
BudgetConserved ==
    /\ TypeOK
    /\ used = SumFunctionOnSet(allocated, Bodies)
    /\ \A b \in Bodies : allocated[b] = Capacity * Len(chunks[b])
    /\ \A b \in readerClosed : chunks[b] = <<>>

\* The candidate reads a prefix of the upload, without gaps across chunk boundaries and
\* partly filled chunks; at EOF it has read all of the upload.
BodyIntact ==
    \A b \in Bodies :
       /\ got[b] = [i \in 1 .. Len(got[b]) |-> i]
       /\ reader[b] = "EOF" => source[b] = "EOF" /\ Len(got[b]) = sent[b]

\* The comment in closeWriter: "Abort before the reader can see the error, or the
\* candidate reports its own failure and is quarantined".
AbortedFirst == \A b \in Bodies : reader[b] = "broken" => b \in aborted

\* A candidate whose body overflowed the budget is always quarantined for it, although
\* its reader may see the overflow first.
OverflowQuarantines ==
    \A b \in Bodies : (writerError[b] = "overflow") ~> (b \in quarantine)

\* No wakeup is lost: queued data is read or discarded, and once the upload has ended,
\* however it ended, the candidate's reader gets to an end.
ReaderEnds ==
    \A b \in Bodies :
       /\ (chunks[b] # <<>>) ~> (chunks[b] = <<>>)
       /\ (source[b] \in {"EOF", "broken"}) ~> (reader[b] \notin {"reading", "waiting"})

\* A body at every moment: the shared budget is charged for what is queued, the candidate
\* has read a prefix of the upload, and sees a broken upload only once it is aborted.
BodiesSound == BudgetConserved /\ BodyIntact /\ AbortedFirst

=============================================================================

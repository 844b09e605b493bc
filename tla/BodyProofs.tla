----------------------------- MODULE BodyProofs -----------------------------
(***************************************************************************)
(* The bodies of a mirrored request.  StreamBody: for any number of        *)
(* bodies and any limit, what a reader gets is a prefix of what the source *)
(* sent and at EOF all of it, a broken upload is aborted first, and the    *)
(* budget is charged for exactly what is queued.                           *)
(* RequestCapture: a body that is hashed is the whole upload.              *)
(*                                                                         *)
(* BodiesLinked is inductive: chunks in a queue follow one another and go  *)
(* on where the reader is, so a read continues what was read, and the      *)
(* budget is the sum of what each body has allocated.  What that needs of  *)
(* sums is SumFacts: RecordingProofs proves it, and the end of this module *)
(* takes it from there.                                                    *)
(***************************************************************************)
EXTENDS StreamBody, RequestCapture, TLAPS

USE SMTT(60) DEF bodyVars

\* On S, f and h have integers that may differ at x alone.
DifferAt(x, f, h, S) == \A y \in S : f[y] \in Int /\ h[y] \in Int /\ (y # x => h[y] = f[y])

\* What the budget needs of sums over finite sets (SumsAreSo proves it): a sum of naturals is
\* a natural, at least each of its parts, and zero if they all are; a change of one part
\* changes the sum by as much.
SumFacts ==
    /\ \A S, f : IsFiniteSet(S) /\ (\A x \in S : f[x] \in Nat) =>
          /\ SumFunctionOnSet(f, S) \in Nat
          /\ \A x \in S : f[x] <= SumFunctionOnSet(f, S)
          /\ (\A x \in S : f[x] = 0) => SumFunctionOnSet(f, S) = 0
    /\ \A S, f, h, x : IsFiniteSet(S) /\ DifferAt(x, f, h, S) =>
          /\ x \in S => SumFunctionOnSet(h, S) = SumFunctionOnSet(f, S) - f[x] + h[x]
          /\ x \notin S => SumFunctionOnSet(h, S) = SumFunctionOnSet(f, S)

\* The first of these facts, for one sum.
LEMMA BudgetBounds ==
    ASSUME SumFacts, NEW S, IsFiniteSet(S), NEW f, \A x \in S : f[x] \in Nat
    PROVE  /\ SumFunctionOnSet(f, S) \in Nat
           /\ \A x \in S : f[x] <= SumFunctionOnSet(f, S)
           /\ (\A x \in S : f[x] = 0) => SumFunctionOnSet(f, S) = 0
BY Zenon DEF SumFacts

\* The second, for one change.
LEMMA BudgetChanges ==
    ASSUME SumFacts, NEW S, IsFiniteSet(S), NEW f, NEW h, NEW x, DifferAt(x, f, h, S)
    PROVE  /\ x \in S => SumFunctionOnSet(h, S) = SumFunctionOnSet(f, S) - f[x] + h[x]
           /\ x \notin S => SumFunctionOnSet(h, S) = SumFunctionOnSet(f, S)
BY Zenon DEF SumFacts

\* The positions in s follow one another.
Run(s) == \A j \in 1 .. Len(s) : s[j] = s[1] + (j - 1)

\* The chunks of a queue hold data, in a row.
Row(cs) ==
    /\ \A k \in 1 .. Len(cs) : Len(cs[k]) \in 1 .. Capacity /\ Run(cs[k])
    /\ \A k \in 1 .. Len(cs) - 1 : cs[k + 1][1] = cs[k][1] + Len(cs[k])

\* The queue of b goes on where its reader is.
Queued(b) ==
    /\ allocated[b] = Capacity * Len(chunks[b])
    /\ Row(chunks[b])
    /\ chunks[b] = <<>> => offset[b] = 0
    /\ chunks[b] # <<>> =>
          offset[b] < Len(chunks[b][1]) /\ chunks[b][1][1] + offset[b] = Len(got[b]) + 1

\* b stores nothing any more.
Discarded(b) == b \in readerClosed \/ writerError[b] = "overflow"

\* The position after the queue, and the first one that is read but not stored.
QueueEnd(b) == IF chunks[b] = <<>> THEN Len(got[b]) + 1 ELSE tail(b)[1] + Len(tail(b))
Unstored(b) == IF Free(b) THEN sent[b] + 1 ELSE pending[b][1]

\* The queue ends where the append under way goes on.
Stored(b) ==
    /\ Discarded(b) => chunks[b] = <<>>
    /\ ~Discarded(b) => QueueEnd(b) = Unstored(b)
    /\ ~Free(b) => /\ source[b] = "reading" /\ b \notin readerClosed /\ writerError[b] = "none"
                   /\ Run(pending[b]) /\ pending[b][1] + Len(pending[b]) = sent[b] + 1

\* The first bytes of the upload.
Prefix(g) == \A i \in 1 .. Len(g) : g[i] = i

\* What the two ends of b know of each other.
EndsKnown(b) ==
    /\ Prefix(got[b])
    /\ writerError[b] = "EOF" => source[b] = "EOF"
    /\ writerError[b] = "broken" => source[b] = "broken" /\ b \in aborted
    /\ source[b] = "overflowing" => writerError[b] = "overflow"
    /\ source[b] \in {"EOF", "broken"} => writerError[b] # "none"
    /\ reader[b] = "EOF" => source[b] = "EOF" /\ Len(got[b]) = sent[b]
    /\ reader[b] = "broken" => b \in aborted

\* The inductive invariant.
BodiesLinked ==
    /\ TypeOK
    /\ used = SumFunctionOnSet(allocated, Bodies)
    /\ \A b \in Bodies : Queued(b) /\ Stored(b) /\ EndsKnown(b)

-----------------------------------------------------------------------------
(* Queues of chunks.                                                       *)

\* The empty sequence, of whatever.
LEMMA EmptyQueue == Len(<<>>) = 0 /\ \A S : <<>> \in Seq(S)
OBVIOUS

\* A chunk has room, and the budget room for a chunk (bufferBlockSize, or the limit if less).
LEMMA CapacityIsPositive == Capacity \in Nat \ {0} /\ Capacity <= Limit
BY BodiesAssumption DEF Capacity

\* A new chunk goes on where the queue ends.
LEMMA RowGrows ==
    ASSUME NEW n \in Nat, NEW cs, NEW as, NEW d, Len(cs) = n, Len(as) = n + 1,
           \A k \in 1 .. n : as[k] = cs[k], as[n + 1] = d,
           Row(cs), Run(d), Len(d) \in 1 .. Capacity, n # 0 => d[1] = cs[n][1] + Len(cs[n])
    PROVE  Row(as)
<1>1. ASSUME NEW k \in 1 .. n + 1 PROVE Len(as[k]) \in 1 .. Capacity /\ Run(as[k])
  <2>1. CASE k = n + 1
    BY Zenon, <2>1
  <2>2. CASE k # n + 1
    <3>1. k \in 1 .. n
      BY <2>2
    <3> QED BY Zenon, <3>1 DEF Row
  <2> QED BY Zenon, <2>1, <2>2
<1>2. ASSUME NEW k \in 1 .. n PROVE as[k + 1][1] = as[k][1] + Len(as[k])
  <2>1. CASE k = n
    <3>1. n # 0 /\ n \in 1 .. n
      BY <2>1
    <3> QED BY Zenon, <2>1, <3>1
  <2>2. CASE k # n
    <3>1. k \in 1 .. n - 1 /\ k + 1 \in 1 .. n
      BY <2>2
    <3> QED BY Zenon, <3>1 DEF Row
  <2> QED BY Zenon, <2>1, <2>2
<1>3. Len(as) - 1 = n
  OBVIOUS
<1> QED BY Zenon, <1>1, <1>2, <1>3 DEF Row

\* The last chunk is replaced by one that starts like it.
LEMMA RowReplaces ==
    ASSUME NEW n \in Nat \ {0}, NEW cs, NEW as, Len(cs) = n, Len(as) = n,
           \A k \in 1 .. n - 1 : as[k] = cs[k], as[n][1] = cs[n][1],
           Row(cs), Run(as[n]), Len(as[n]) \in 1 .. Capacity
    PROVE  Row(as)
<1>1. ASSUME NEW k \in 1 .. n PROVE Len(as[k]) \in 1 .. Capacity /\ Run(as[k])
  <2>1. CASE k = n
    BY Zenon, <2>1
  <2>2. CASE k # n
    <3>1. k \in 1 .. n - 1
      BY <2>2
    <3> QED BY Zenon, <3>1 DEF Row
  <2> QED BY Zenon, <2>1, <2>2
<1>2. ASSUME NEW k \in 1 .. n - 1 PROVE as[k + 1][1] = as[k][1] + Len(as[k])
  <2>1. as[k] = cs[k] /\ cs[k + 1][1] = cs[k][1] + Len(cs[k])
    BY Zenon DEF Row
  <2>2. as[k + 1][1] = cs[k + 1][1]
    <3>1. CASE k + 1 = n
      BY Zenon, <3>1
    <3>2. CASE k + 1 # n
      <4>1. k + 1 \in 1 .. n - 1
        BY <3>2
      <4> QED BY Zenon, <4>1
    <3> QED BY Zenon, <3>1, <3>2
  <2> QED BY <2>1, <2>2
<1> QED BY Zenon, <1>1, <1>2 DEF Row

\* e is t, of length m, and then d, of length n.
Joined(e, t, m, d, n) ==
    /\ Len(t) = m /\ Len(d) = n /\ Len(e) = m + n
    /\ \A j \in 1 .. m : e[j] = t[j]
    /\ \A j \in 1 .. n : e[m + j] = d[j]

\* Positions that go on where others end.
LEMMA RunsJoin ==
    ASSUME NEW m \in Nat \ {0}, NEW n \in Nat \ {0}, NEW t, NEW d, NEW e, Joined(e, t, m, d, n),
           Run(t), Run(d), t[1] \in Int, d[1] = t[1] + m
    PROVE  Run(e) /\ e[1] = t[1]
<1> USE DEF Joined
<1>1. e[1] = t[1]
  OBVIOUS
<1>2. ASSUME NEW j \in 1 .. m + n PROVE e[j] = t[1] + (j - 1)
  <2>1. CASE j <= m
    <3>1. j \in 1 .. m
      BY <2>1
    <3> QED BY <3>1 DEF Run
  <2>2. CASE j > m
    <3>1. j - m \in 1 .. n /\ m + (j - m) = j
      BY <2>2
    <3>2. e[j] = d[j - m]
      BY <3>1
    <3>3. d[j - m] = d[1] + ((j - m) - 1)
      BY <3>1 DEF Run
    <3> QED BY <3>2, <3>3
  <2> QED BY <2>1, <2>2
<1> QED BY <1>1, <1>2 DEF Run

\* The first chunk is dropped.
LEMMA RowShrinks ==
    ASSUME NEW n \in Nat \ {0}, NEW cs, NEW as, Len(cs) = n, Len(as) = n - 1,
           \A k \in 1 .. n - 1 : as[k] = cs[k + 1], Row(cs)
    PROVE  Row(as) /\ (n > 1 => as[1][1] = cs[1][1] + Len(cs[1]))
<1>1. ASSUME NEW k \in 1 .. n - 1 PROVE Len(as[k]) \in 1 .. Capacity /\ Run(as[k])
  <2>1. k + 1 \in 1 .. n
    OBVIOUS
  <2> QED BY Zenon, <2>1 DEF Row
<1>2. ASSUME NEW k \in 1 .. (n - 1) - 1 PROVE as[k + 1][1] = as[k][1] + Len(as[k])
  <2>1. k \in 1 .. n - 1 /\ k + 1 \in 1 .. n - 1
    OBVIOUS
  <2> QED BY Zenon, <2>1 DEF Row
<1>3. n > 1 => as[1][1] = cs[1][1] + Len(cs[1])
  <2>1. n > 1 => 1 \in 1 .. n - 1 /\ 1 + 1 = 2
    OBVIOUS
  <2> QED BY Zenon, <2>1 DEF Row
<1> QED BY Zenon, <1>1, <1>2, <1>3 DEF Row

-----------------------------------------------------------------------------
(* A step of one body.                                                     *)

\* Nothing of body c changes.
Untouched(c) ==
    /\ chunks'[c] = chunks[c] /\ offset'[c] = offset[c] /\ allocated'[c] = allocated[c]
    /\ writerError'[c] = writerError[c] /\ sent'[c] = sent[c] /\ pending'[c] = pending[c]
    /\ source'[c] = source[c] /\ reader'[c] = reader[c] /\ got'[c] = got[c]
    /\ c \in readerClosed' <=> c \in readerClosed
    /\ c \in aborted' <=> c \in aborted

\* A step of one body: what it does not touch of the others stays as it was.
LEMMA OneBody ==
    ASSUME BodiesLinked, NEW b \in Bodies, TypeOK', used' = SumFunctionOnSet(allocated', Bodies),
           Queued(b)', Stored(b)', EndsKnown(b)', \A c \in Bodies : c # b => Untouched(c)
    PROVE  BodiesLinked'
<1> SUFFICES ASSUME NEW c \in Bodies, c # b PROVE Queued(c)' /\ Stored(c)' /\ EndsKnown(c)'
  BY Zenon DEF BodiesLinked
<1>1. Queued(c) /\ Stored(c) /\ EndsKnown(c) /\ Untouched(c)
  BY Zenon DEF BodiesLinked
<1>2. Queued(c)'
  BY Zenon, <1>1 DEF Queued, Untouched
<1>3. Stored(c)'
  BY Zenon, <1>1 DEF Stored, Discarded, QueueEnd, Unstored, Free, tail, Untouched
<1>4. EndsKnown(c)'
  BY Zenon, <1>1 DEF EndsKnown, Untouched
<1> QED BY <1>2, <1>3, <1>4

\* The queue does not change.
LEMMA SameQueue ==
    ASSUME BodiesLinked, NEW b \in Bodies, UNCHANGED <<used, chunks, offset, allocated, got>>
    PROVE  used' = SumFunctionOnSet(allocated', Bodies) /\ Queued(b)'
BY Zenon DEF BodiesLinked, Queued

\* The sizes in one body.
LEMMA Sized ==
    ASSUME SumFacts, BodiesLinked, NEW b \in Bodies
    PROVE  /\ chunks[b] \in Seq(Seq(Sizes)) /\ got[b] \in Seq(Sizes) /\ pending[b] \in Seq(Sizes)
           /\ allocated[b] \in 0 .. used /\ used \in 0 .. Limit /\ sent[b] \in 0 .. MaxBytes
           /\ offset[b] \in Nat
           /\ Len(chunks[b]) \in Nat /\ Len(got[b]) \in Nat /\ Len(pending[b]) \in Nat
           /\ chunks[b] # <<>> => Len(chunks[b]) # 0
           /\ ~Free(b) => Len(pending[b]) # 0
<1>1. chunks[b] \in Seq(Seq(Sizes)) /\ got[b] \in Seq(Sizes) /\ pending[b] \in Seq(Sizes)
  BY DEF BodiesLinked, TypeOK
<1>2. \A c \in Bodies : allocated[c] \in Nat
  BY BodiesAssumption DEF BodiesLinked, TypeOK
<1>3. allocated[b] <= used
  BY <1>2, BudgetBounds, BodiesAssumption DEF BodiesLinked
<1>4. used \in 0 .. Limit /\ sent[b] \in 0 .. MaxBytes /\ offset[b] \in Nat
  BY CapacityIsPositive DEF BodiesLinked, TypeOK
<1>5. allocated[b] \in 0 .. used
  BY <1>2, <1>3, <1>4, BodiesAssumption
<1>6. /\ Len(chunks[b]) \in Nat /\ Len(got[b]) \in Nat /\ Len(pending[b]) \in Nat
      /\ chunks[b] # <<>> => Len(chunks[b]) # 0
      /\ pending[b] # <<>> => Len(pending[b]) # 0
  BY <1>1
<1> QED BY <1>1, <1>4, <1>5, <1>6 DEF Free

\* One body's allocation changes, and the budget by as much.
LEMMA Reallocated ==
    ASSUME SumFacts, BodiesLinked, NEW b \in Bodies, NEW v \in Nat,
           allocated' = [allocated EXCEPT ![b] = v], used' = used - allocated[b] + v, used' <= Limit
    PROVE  /\ used' = SumFunctionOnSet(allocated', Bodies)
           /\ used' \in 0 .. Limit /\ allocated' \in [Bodies -> 0 .. Limit]
<1>1. allocated[b] \in 0 .. used /\ used \in 0 .. Limit
  BY Sized
<1>2. v \in 0 .. Limit /\ used' \in 0 .. Limit
  BY <1>1, BodiesAssumption
<1>3. allocated' \in [Bodies -> 0 .. Limit]
  BY <1>2 DEF BodiesLinked, TypeOK
<1>4. DifferAt(b, allocated, allocated', Bodies) /\ allocated'[b] = v
  BY <1>3, BodiesAssumption DEF DifferAt, BodiesLinked, TypeOK
<1>5. \A h : DifferAt(b, allocated, h, Bodies) =>
         SumFunctionOnSet(h, Bodies) = SumFunctionOnSet(allocated, Bodies) - allocated[b] + h[b]
  BY BudgetChanges, BodiesAssumption
<1>6. SumFunctionOnSet(allocated', Bodies)
         = SumFunctionOnSet(allocated, Bodies) - allocated[b] + allocated'[b]
  BY Zenon, <1>4, <1>5
<1> QED BY <1>2, <1>3, <1>4, <1>6 DEF BodiesLinked

\* A signal does not reach a reader that has ended.
LEMMA WakeKeeps ==
    ASSUME TypeOK, NEW b \in Bodies
    PROVE  /\ Wake(b) \in [Bodies -> {"reading", "waiting", "closed"} \cup Ends]
           /\ Wake(b)[b] \in {"EOF", "broken"} => reader[b] = Wake(b)[b]
           /\ \A c \in Bodies : c # b => Wake(b)[c] = reader[c]
BY DEF TypeOK, Wake

-----------------------------------------------------------------------------
(* The producer.                                                           *)

\* What arrives once the reader is gone or the body ended is not stored.
LEMMA AppendDropsKeeps ==
    ASSUME BodiesLinked, NEW b \in Bodies, NEW n \in Sizes, AppendDrops(b, n)
    PROVE  BodiesLinked'
<1>1. TypeOK /\ Queued(b) /\ Stored(b) /\ EndsKnown(b)
  BY Zenon DEF BodiesLinked
<1>2. sent' \in [Bodies -> 0 .. MaxBytes] /\ \A c \in Bodies : c # b => sent'[c] = sent[c]
  BY <1>1, BodiesAssumption DEF AppendDrops, TypeOK, Sizes
<1>3. TypeOK'
  BY Zenon, <1>1, <1>2 DEF AppendDrops, TypeOK
<1>4. used' = SumFunctionOnSet(allocated', Bodies) /\ Queued(b)'
  BY Zenon, SameQueue DEF AppendDrops
<1>5. Discarded(b)
  <2>1. writerError[b] \in {"EOF", "broken", "overflow", "none"}
    BY <1>1 DEF TypeOK, Ends
  <2> QED BY <1>1, <2>1 DEF AppendDrops, EndsKnown, Discarded
<1>6. Stored(b)'
  BY Zenon, <1>1, <1>5 DEF AppendDrops, Stored, Discarded, Free
<1>7. EndsKnown(b)'
  BY <1>1 DEF AppendDrops, EndsKnown
<1>8. \A c \in Bodies : c # b => Untouched(c)
  BY Zenon, <1>2 DEF AppendDrops, Untouched
<1> QED BY <1>3, <1>4, <1>6, <1>7, <1>8, OneBody

\* The positions that one read of the upload brings.
LEMMA Numbered ==
    ASSUME NEW a \in 0 .. MaxBytes, NEW n \in Sizes, a + n <= MaxBytes
    PROVE  /\ [i \in 1 .. n |-> a + i] \in Seq(Sizes) /\ [i \in 1 .. n |-> a + i] # <<>>
           /\ Len([i \in 1 .. n |-> a + i]) = n /\ [i \in 1 .. n |-> a + i][1] = a + 1
           /\ Run([i \in 1 .. n |-> a + i])
<1> DEFINE p == [i \in 1 .. n |-> a + i]
<1>1. n \in Nat \ {0} /\ \A i \in 1 .. n : a + i \in Sizes
  BY BodiesAssumption DEF Sizes
<1>2. p \in Seq(Sizes) /\ Len(p) = n
  BY <1>1
<1>3. p # <<>>
  BY <1>1, <1>2
<1>4. p[1] = a + 1 /\ \A j \in 1 .. n : p[j] = a + j
  BY <1>1
<1>5. Run(p)
  <2> HIDE DEF p
  <2>1. \A j \in 1 .. n : p[j] = p[1] + (j - 1)
    BY <1>1, <1>4
  <2> QED BY Zenon, <1>2, <2>1 DEF Run
<1> QED BY Zenon, <1>2, <1>3, <1>4, <1>5

\* append takes the lock with data that continues what came before.
LEMMA StartAppendKeeps ==
    ASSUME SumFacts, BodiesLinked, NEW b \in Bodies, NEW n \in Sizes, StartAppend(b, n)
    PROVE  BodiesLinked'
<1>1. TypeOK /\ Queued(b) /\ Stored(b) /\ EndsKnown(b)
  BY Zenon DEF BodiesLinked
<1> DEFINE p == [i \in 1 .. n |-> sent[b] + i]
<1>2. sent[b] \in 0 .. MaxBytes /\ sent[b] + n <= MaxBytes
  BY Sized DEF StartAppend
<1>3. p \in Seq(Sizes) /\ p # <<>> /\ Len(p) = n /\ p[1] = sent[b] + 1 /\ Run(p)
  BY Zenon, <1>2, Numbered
<1>a. pending' = [pending EXCEPT ![b] = p]
  BY DEF StartAppend
<1> HIDE DEF p
<1>4. /\ pending' \in [Bodies -> Seq(Sizes)] /\ pending'[b] = p
      /\ \A c \in Bodies : c # b => pending'[c] = pending[c]
  BY Zenon, <1>1, <1>3, <1>a DEF TypeOK
<1>5. /\ sent' \in [Bodies -> 0 .. MaxBytes] /\ sent'[b] = sent[b] + n
      /\ \A c \in Bodies : c # b => sent'[c] = sent[c]
  BY <1>1, <1>2, BodiesAssumption DEF StartAppend, TypeOK, Sizes
<1>6. TypeOK'
  BY Zenon, <1>1, <1>4, <1>5 DEF StartAppend, TypeOK
<1>7. used' = SumFunctionOnSet(allocated', Bodies) /\ Queued(b)'
  BY Zenon, SameQueue DEF StartAppend
<1>8. Stored(b)'
  <2>1. QueueEnd(b)' = QueueEnd(b) /\ QueueEnd(b) = sent[b] + 1
    BY Zenon, <1>1 DEF StartAppend, Stored, Discarded, QueueEnd, Unstored, tail
  <2>2. Unstored(b)' = sent[b] + 1 /\ ~Free(b)'
    BY Zenon, <1>3, <1>4 DEF Unstored, Free
  <2>3. pending'[b][1] + Len(pending'[b]) = sent'[b] + 1
    <3>1. n \in Int /\ sent[b] \in Int
      BY <1>2, BodiesAssumption DEF Sizes
    <3> QED BY <1>3, <1>4, <1>5, <3>1
  <2> QED BY Zenon, <1>3, <1>4, <2>1, <2>2, <2>3 DEF StartAppend, Stored, Discarded
<1>9. EndsKnown(b)'
  BY <1>1 DEF StartAppend, EndsKnown
<1>10. \A c \in Bodies : c # b => Untouched(c)
  BY Zenon, <1>4, <1>5 DEF StartAppend, Untouched
<1> QED BY <1>6, <1>7, <1>8, <1>9, <1>10, OneBody

\* A slice of the positions in a run.
LEMMA RunSlice ==
    ASSUME NEW p \in Seq(Sizes), Run(p), NEW i \in 1 .. Len(p), NEW j \in i .. Len(p)
    PROVE  /\ SubSeq(p, i, j) \in Seq(Sizes) /\ SubSeq(p, i, j) # <<>>
           /\ Len(SubSeq(p, i, j)) = j - i + 1 /\ Run(SubSeq(p, i, j))
           /\ SubSeq(p, i, j)[1] = p[1] + (i - 1)
<1> DEFINE d == SubSeq(p, i, j)
<1>1. /\ i \in Nat \ {0} /\ j \in Nat \ {0} /\ i <= j /\ j <= Len(p) /\ Len(p) \in Nat
      /\ \A k \in 1 .. Len(p) : p[k] \in Sizes
  OBVIOUS
<1>2. /\ d \in Seq(Sizes) /\ Len(d) = j - i + 1
      /\ \A k \in 1 .. j - i + 1 : d[k] = p[i + k - 1]
  BY <1>1
<1>3. d # <<>>
  BY <1>1, <1>2
<1>4. p[1] \in Int
  BY <1>1, BodiesAssumption DEF Sizes
<1> HIDE DEF d
<1>5. ASSUME NEW k \in 1 .. j - i + 1 PROVE d[k] = p[1] + (i - 1) + (k - 1)
  <2>1. i + k - 1 \in 1 .. Len(p)
    BY <1>1
  <2>2. p[i + k - 1] = p[1] + ((i + k - 1) - 1)
    BY Zenon, <2>1 DEF Run
  <2> QED BY <1>1, <1>2, <1>4, <2>2
<1>6. d[1] = p[1] + (i - 1)
  <2>1. 1 \in 1 .. j - i + 1
    BY <1>1
  <2> QED BY <1>1, <1>4, <1>5, <2>1
<1>7. Run(d)
  <2>1. \A k \in 1 .. j - i + 1 : d[k] = d[1] + (k - 1)
    BY Zenon, <1>5, <1>6
  <2> QED BY Zenon, <1>2, <2>1 DEF Run
<1> QED BY <1>2, <1>3, <1>6, <1>7 DEF d

\* The queue cs2 goes on to position q, from where the reader is.
Goes(cs2, b, q) ==
    /\ cs2 \in Seq(Seq(Sizes)) /\ cs2 # <<>> /\ Row(cs2)
    /\ cs2[Len(cs2)][1] + Len(cs2[Len(cs2)]) = q
    /\ offset[b] < Len(cs2[1]) /\ cs2[1][1] + offset[b] = Len(got[b]) + 1

\* Data in a chunk of its own.
LEMMA NewChunk ==
    ASSUME SumFacts, BodiesLinked, NEW b \in Bodies, NEW d \in Seq(Sizes), Run(d),
           Len(d) \in 1 .. Capacity,
           d[1] = QueueEnd(b)
    PROVE  /\ Goes(Append(chunks[b], d), b, d[1] + Len(d))
           /\ Len(Append(chunks[b], d)) = Len(chunks[b]) + 1
<1> DEFINE cs == chunks[b]
           as == Append(cs, d)
           m == Len(cs)
<1>1. cs \in Seq(Seq(Sizes)) /\ m \in Nat /\ (cs # <<>> => m # 0) /\ (cs = <<>> => m = 0)
  BY Sized
<1>2. /\ as \in Seq(Seq(Sizes)) /\ Len(as) = m + 1 /\ as[m + 1] = d
      /\ \A k \in 1 .. m : as[k] = cs[k]
  <2> HIDE DEF cs
  <2> QED BY <1>1
<1>3. Queued(b)
  BY Zenon DEF BodiesLinked
<1>4. cs # <<>> => d[1] = cs[m][1] + Len(cs[m])
  BY Zenon DEF QueueEnd, tail
<1>5. m # 0 => d[1] = cs[m][1] + Len(cs[m])
  BY Zenon, <1>1, <1>4
<1>6. Row(as)
  <2>1. Row(cs)
    BY Zenon, <1>3 DEF Queued
  <2> HIDE DEF as, cs, m
  <2>2. Len(cs) = m
    BY DEF m
  <2> QED BY Zenon, <1>1, <1>2, <1>5, <2>1, <2>2, RowGrows
<1>7. as # <<>>
  <2> HIDE DEF as, m
  <2>1. m + 1 # 0
    BY <1>1
  <2> QED BY Zenon, <1>2, <2>1, EmptyQueue
<1>8. offset[b] < Len(as[1]) /\ as[1][1] + offset[b] = Len(got[b]) + 1
  <2>1. CASE cs = <<>>
    <3>1. offset[b] = 0 /\ d[1] = Len(got[b]) + 1 /\ m = 0
      BY Zenon, <1>1, <1>3, <2>1 DEF Queued, QueueEnd
    <3>2. as[1] = d
      <4> HIDE DEF as, m
      <4>1. m + 1 = 1
        BY <3>1
      <4> QED BY Zenon, <1>2, <4>1
    <3>3. Len(got[b]) \in Nat
      BY Sized
    <3> HIDE DEF as, m, cs
    <3> QED BY <3>1, <3>2, <3>3, CapacityIsPositive
  <2>2. CASE cs # <<>>
    <3>1. as[1] = cs[1]
      <4>1. 1 \in 1 .. m
        <5> HIDE DEF m
        <5>1. m \in Nat /\ m # 0
          BY Zenon, <1>1, <2>2
        <5> QED BY <5>1
      <4> HIDE DEF as, m
      <4> QED BY Zenon, <1>2, <4>1
    <3> HIDE DEF as
    <3> QED BY Zenon, <1>3, <2>2, <3>1 DEF Queued
  <2> QED BY <2>1, <2>2
<1>9. Goes(as, b, d[1] + Len(d))
  <2> HIDE DEF as, m
  <2> QED BY Zenon, <1>2, <1>6, <1>7, <1>8 DEF Goes
<1> QED BY Zenon, <1>2, <1>9

\* Data that goes into the last chunk.
LEMMA MoreInChunk ==
    ASSUME SumFacts, BodiesLinked, NEW b \in Bodies, NEW d \in Seq(Sizes), Run(d),
           Len(d) \in Nat \ {0},
           chunks[b] # <<>>, Len(tail(b)) + Len(d) <= Capacity, d[1] = QueueEnd(b)
    PROVE  /\ Goes([chunks[b] EXCEPT ![Len(chunks[b])] = @ \o d], b, d[1] + Len(d))
           /\ Len([chunks[b] EXCEPT ![Len(chunks[b])] = @ \o d]) = Len(chunks[b])
<1> DEFINE cs == chunks[b]
           m == Len(cs)
           t == cs[m]
           e == t \o d
           as == [cs EXCEPT ![m] = e]
<1>1. cs \in Seq(Seq(Sizes)) /\ m \in Nat \ {0}
  BY Sized
<1>2. 1 \in 1 .. m /\ m \in 1 .. m
  <2> HIDE DEF m
  <2> QED BY <1>1
<1>3. t \in Seq(Sizes)
  <2> HIDE DEF cs
  <2> QED BY <1>1, <1>2
<1>4. Queued(b) /\ Row(cs)
  BY Zenon DEF BodiesLinked, Queued
<1>5. Len(t) \in 1 .. Capacity /\ Run(t) /\ t[1] \in Int /\ d[1] = t[1] + Len(t)
  <2>1. Len(t) \in 1 .. Capacity /\ Run(t)
    BY Zenon, <1>2, <1>4 DEF Row
  <2>2. d[1] = t[1] + Len(t)
    BY Zenon DEF QueueEnd, tail
  <2>3. t[1] \in Int
    <3> HIDE DEF t
    <3> QED BY <1>3, <2>1, CapacityIsPositive, BodiesAssumption DEF Sizes
  <2> QED BY Zenon, <2>1, <2>2, <2>3
<1>6. /\ e \in Seq(Sizes) /\ Len(e) = Len(t) + Len(d)
      /\ \A j \in 1 .. Len(t) : e[j] = t[j]
      /\ \A j \in 1 .. Len(d) : e[Len(t) + j] = d[j]
  <2> HIDE DEF t
  <2> QED BY <1>3
<1>7. /\ as \in Seq(Seq(Sizes)) /\ Len(as) = m /\ as[m] = e /\ as # <<>>
      /\ \A k \in 1 .. m - 1 : as[k] = cs[k]
  <2> HIDE DEF cs, e
  <2> QED BY <1>1, <1>6
<1>8. Run(e) /\ e[1] = t[1]
  <2>1. Len(t) \in Nat \ {0}
    BY <1>5, CapacityIsPositive
  <2> HIDE DEF t, e
  <2>2. Joined(e, t, Len(t), d, Len(d))
    BY Zenon, <1>6 DEF Joined
  <2> QED BY <1>5, <2>1, <2>2, RunsJoin
<1>9. Len(e) \in 1 .. Capacity /\ Len(t) <= Len(e) /\ e[1] + Len(e) = d[1] + Len(d)
  <2>1. Len(t) + Len(d) <= Capacity
    BY DEF tail
  <2>2. \A x, y, z \in Nat : y = Len(t) /\ z = Len(d) /\ x = y + z => x \in 1 .. Capacity /\ y <= x
    BY <2>1, CapacityIsPositive
  <2>3. Len(t) \in Nat /\ Len(e) \in Nat
    BY <1>5, <1>6, CapacityIsPositive
  <2> HIDE DEF t, e
  <2> QED BY <1>5, <1>6, <1>8, <2>2, <2>3
<1>10. Row(as)
  <2> HIDE DEF as, cs, e, t, m
  <2>1. Len(cs) = m /\ as[m][1] = cs[m][1]
    BY Zenon, <1>7, <1>8 DEF m, t
  <2> QED BY Zenon, <1>1, <1>4, <1>7, <1>8, <1>9, <2>1, RowReplaces
<1>11. offset[b] < Len(as[1]) /\ as[1][1] + offset[b] = Len(got[b]) + 1
  <2>1. offset[b] < Len(cs[1]) /\ cs[1][1] + offset[b] = Len(got[b]) + 1
    BY Zenon, <1>4 DEF Queued
  <2>2. CASE m = 1
    <3>1. cs[1] = t /\ as[1] = e
      BY Zenon, <1>7, <2>2
    <3>2. offset[b] \in Nat /\ Len(t) \in Nat /\ Len(e) \in Nat
      BY <1>5, <1>9, CapacityIsPositive, Sized
    <3> HIDE DEF t, e, as, cs
    <3> QED BY <1>8, <1>9, <2>1, <3>1, <3>2
  <2>3. CASE m # 1
    <3> HIDE DEF m
    <3>1. 1 \in 1 .. m - 1
      BY <1>1, <2>3
    <3> HIDE DEF as
    <3> QED BY Zenon, <1>7, <2>1, <3>1
  <2> QED BY <2>2, <2>3
<1>12. Goes(as, b, d[1] + Len(d))
  <2> HIDE DEF as, e, t
  <2> QED BY Zenon, <1>7, <1>9, <1>10, <1>11 DEF Goes
<1> QED BY Zenon, <1>7, <1>12

\* The smaller of two numbers.
LEMMA MinOfTwo ==
    ASSUME NEW x \in Int, NEW y \in Int
    PROVE  Min({x, y}) \in {x, y} /\ Min({x, y}) <= x /\ Min({x, y}) <= y
BY DEF Min

\* One iteration of append: how much it takes, and what it leaves.
LEMMA FillTakes ==
    ASSUME SumFacts, BodiesLinked, NEW b \in Bodies, ~Free(b), NEW av \in 1 .. Capacity,
           NEW n, n = Min({av, Len(pending[b])})
    PROVE  LET p == pending[b]
               d == SubSeq(p, 1, n)
               r == SubSeq(p, n + 1, Len(p))
           IN  /\ d \in Seq(Sizes) /\ Run(d) /\ Len(d) \in 1 .. av /\ d[1] = QueueEnd(b)
               /\ r \in Seq(Sizes)
               /\ r = <<>> => sent[b] + 1 = d[1] + Len(d)
               /\ r # <<>> => /\ Run(r) /\ r[1] = d[1] + Len(d)
                              /\ r[1] + Len(r) = sent[b] + 1
<1> DEFINE p == pending[b]
           m == Len(p)
           d == SubSeq(p, 1, n)
           r == SubSeq(p, n + 1, m)
<1>1. p \in Seq(Sizes) /\ m \in Nat \ {0} /\ sent[b] \in Int
  BY Sized
<1>2. Run(p) /\ p[1] + m = sent[b] + 1 /\ p[1] = QueueEnd(b)
  BY Zenon DEF BodiesLinked, Stored, Discarded, Unstored
<1>3. p[1] \in Int
  <2> HIDE DEF p
  <2> QED BY <1>1, BodiesAssumption DEF Sizes
<1>4. n \in 1 .. m /\ n \in 1 .. av /\ n \in Nat
  <2> HIDE DEF m
  <2>1. av \in Nat \ {0}
    BY CapacityIsPositive
  <2>2. n \in {av, m} /\ n <= av /\ n <= m
    <3>1. av \in Int /\ m \in Int
      BY <1>1, <2>1
    <3>2. n = Min({av, m})
      BY Zenon DEF m
    <3> QED BY Zenon, <3>1, <3>2, MinOfTwo
  <2> QED BY <1>1, <2>1, <2>2
<1> HIDE DEF p
<1>5. d \in Seq(Sizes) /\ Run(d) /\ Len(d) = n /\ d[1] = p[1]
  <2>1. 1 \in 1 .. Len(p) /\ n \in 1 .. Len(p) /\ n - 1 + 1 = n
    BY <1>1, <1>4
  <2>2. /\ SubSeq(p, 1, n) \in Seq(Sizes) /\ Len(SubSeq(p, 1, n)) = n - 1 + 1
        /\ Run(SubSeq(p, 1, n)) /\ SubSeq(p, 1, n)[1] = p[1] + (1 - 1)
    BY Zenon, <1>1, <1>2, <2>1, RunSlice
  <2>3. p[1] + (1 - 1) = p[1]
    BY <1>3
  <2> QED BY Zenon, <2>1, <2>2, <2>3
<1>6. CASE n = m
  <2>1. r = <<>>
    <3> HIDE DEF r
    <3>1. SubSeq(p, n + 1, m) = <<>>
      BY <1>1, <1>6
    <3> QED BY Zenon, <3>1 DEF r
  <2>2. r \in Seq(Sizes)
    BY Zenon, <2>1, EmptyQueue
  <2> HIDE DEF r, d, m
  <2> QED BY Zenon, <1>2, <1>4, <1>5, <1>6, <2>1, <2>2 DEF r, d, p, m
<1>7. CASE n # m
  <2>1. n + 1 \in 1 .. m /\ m \in n + 1 .. m
    <3> HIDE DEF m
    <3> QED BY <1>1, <1>4, <1>7
  <2>2. /\ r \in Seq(Sizes) /\ r # <<>> /\ Len(r) = m - (n + 1) + 1 /\ Run(r)
        /\ r[1] = p[1] + ((n + 1) - 1)
    BY Zenon, <1>1, <1>2, <2>1, RunSlice
  <2>3. r[1] = d[1] + Len(d) /\ r[1] + Len(r) = sent[b] + 1
    <3> HIDE DEF r, d, m
    <3>1. r[1] = p[1] + n /\ Len(r) = m - n
      BY <1>1, <1>3, <1>4, <2>2
    <3> QED BY <1>1, <1>2, <1>3, <1>4, <1>5, <3>1
  <2> HIDE DEF r, d, m
  <2> QED BY Zenon, <1>2, <1>4, <1>5, <2>2, <2>3 DEF r, d, p, m
<1> QED BY Zenon, <1>6, <1>7

\* One iteration of append fills the last chunk, or a new one that the budget pays for.
LEMMA FillKeeps ==
    ASSUME SumFacts, BodiesLinked, NEW b \in Bodies, Fill(b)
    PROVE  BodiesLinked'
<1> DEFINE av == IF NeedsChunk(b) THEN Capacity ELSE Capacity - Len(tail(b))
           p == pending[b]
           n == Min({av, Len(p)})
           d == SubSeq(p, 1, n)
           r == SubSeq(p, n + 1, Len(p))
           cs == Filled(b, n)
           v == IF NeedsChunk(b) THEN allocated[b] + Capacity ELSE allocated[b]
<1>0. TypeOK /\ Queued(b) /\ Stored(b) /\ EndsKnown(b) /\ ~Free(b)
  BY Zenon DEF BodiesLinked, Fill
<1>1. av \in 1 .. Capacity /\ (~NeedsChunk(b) => chunks[b] # <<>> /\ av = Capacity - Len(tail(b)))
  <2>1. CASE NeedsChunk(b)
    BY <2>1, CapacityIsPositive
  <2>2. CASE ~NeedsChunk(b)
    <3>1. chunks[b] # <<>> /\ Len(tail(b)) # Capacity
      BY <2>2 DEF NeedsChunk
    <3>2. Len(chunks[b]) \in 1 .. Len(chunks[b])
      BY <3>1, Sized
    <3>3. Len(tail(b)) \in 1 .. Capacity
      BY Zenon, <1>0, <3>2 DEF Queued, Row, tail
    <3> QED BY <2>2, <3>1, <3>3, CapacityIsPositive
  <2> QED BY <2>1, <2>2
<1>2. /\ chunks' = [chunks EXCEPT ![b] = cs] /\ pending' = [pending EXCEPT ![b] = r]
      /\ used' = (IF NeedsChunk(b) THEN used + Capacity ELSE used)
      /\ allocated' = [allocated EXCEPT ![b] = v]
      /\ NeedsChunk(b) => used + Capacity <= Limit
  BY Zenon DEF Fill
<1>3. cs = IF NeedsChunk(b) THEN Append(chunks[b], d)
           ELSE [chunks[b] EXCEPT ![Len(chunks[b])] = @ \o d]
  BY Zenon DEF Filled
<1> HIDE DEF av, cs
<1>4. /\ d \in Seq(Sizes) /\ Run(d) /\ Len(d) \in 1 .. av /\ d[1] = QueueEnd(b)
      /\ r \in Seq(Sizes)
      /\ r = <<>> => sent[b] + 1 = d[1] + Len(d)
      /\ r # <<>> => Run(r) /\ r[1] = d[1] + Len(d) /\ r[1] + Len(r) = sent[b] + 1
  BY Zenon, <1>0, <1>1, FillTakes
<1> HIDE DEF d, r, n
<1>5. /\ Goes(cs, b, d[1] + Len(d))
      /\ Len(cs) = IF NeedsChunk(b) THEN Len(chunks[b]) + 1 ELSE Len(chunks[b])
  <2>1. CASE NeedsChunk(b)
    <3>1. Len(d) \in 1 .. Capacity
      BY <1>1, <1>4, CapacityIsPositive
    <3> QED BY Zenon, <1>3, <1>4, <2>1, <3>1, NewChunk
  <2>2. CASE ~NeedsChunk(b)
    <3>1. Len(d) \in Nat \ {0} /\ Len(tail(b)) + Len(d) <= Capacity
      <4>1. Len(chunks[b]) \in 1 .. Len(chunks[b])
        BY <1>1, <2>2, Sized
      <4>2. Len(tail(b)) \in 1 .. Capacity
        BY Zenon, <1>0, <4>1 DEF Queued, Row, tail
      <4> QED BY <1>1, <1>4, <2>2, <4>2, CapacityIsPositive
    <3> QED BY Zenon, <1>1, <1>3, <1>4, <2>2, <3>1, MoreInChunk
  <2> QED BY <2>1, <2>2
<1>6. cs \in Seq(Seq(Sizes)) /\ cs # <<>>
  BY Zenon, <1>5 DEF Goes
<1>7. /\ chunks' \in [Bodies -> Seq(Seq(Sizes))] /\ chunks'[b] = cs
      /\ \A c \in Bodies : c # b => chunks'[c] = chunks[c]
  BY Zenon, <1>0, <1>2, <1>6 DEF TypeOK
<1>8. /\ pending' \in [Bodies -> Seq(Sizes)] /\ pending'[b] = r
      /\ \A c \in Bodies : c # b => pending'[c] = pending[c]
  BY Zenon, <1>0, <1>2, <1>4 DEF TypeOK
<1>9. v \in Nat /\ used' = used - allocated[b] + v /\ used' <= Limit
  BY <1>2, Sized, CapacityIsPositive, BodiesAssumption
<1>10. /\ used' = SumFunctionOnSet(allocated', Bodies)
       /\ used' \in 0 .. Limit /\ allocated' \in [Bodies -> 0 .. Limit]
  <2> HIDE DEF v
  <2> QED BY Zenon, <1>2, <1>9, Reallocated
<1>11. allocated'[b] = v /\ \A c \in Bodies : c # b => allocated'[c] = allocated[c]
  BY Zenon, <1>0, <1>2 DEF TypeOK
<1>12. /\ reader' \in [Bodies -> {"reading", "waiting", "closed"} \cup Ends]
       /\ reader'[b] \in {"EOF", "broken"} => reader[b] = reader'[b]
       /\ \A c \in Bodies : c # b => reader'[c] = reader[c]
  <2>1. CASE reader' = Wake(b)
    BY Zenon, <1>0, <2>1, WakeKeeps
  <2>2. CASE reader' = reader
    BY Zenon, <1>0, <2>2 DEF TypeOK
  <2> QED BY Zenon, <2>1, <2>2 DEF Fill
<1>13. TypeOK'
  BY Zenon, <1>0, <1>7, <1>8, <1>10, <1>12 DEF Fill, TypeOK
<1>14. Queued(b)'
  <2>1. allocated'[b] = Capacity * Len(chunks'[b])
    <3>1. allocated[b] = Capacity * Len(chunks[b])
      BY Zenon, <1>0 DEF Queued
    <3>2. Len(chunks[b]) \in Nat
      BY Sized
    <3>3. \A x \in Nat : Capacity * x + Capacity = Capacity * (x + 1)
      BY CapacityIsPositive
    <3> HIDE DEF d
    <3> QED BY Zenon, <1>5, <1>7, <1>11, <3>1, <3>2, <3>3
  <2>2. UNCHANGED <<offset, got>>
    BY DEF Fill
  <2> QED BY Zenon, <1>5, <1>7, <2>1, <2>2 DEF Queued, Goes
<1>15. Stored(b)'
  <2>1. ~Discarded(b)' /\ UNCHANGED <<source, readerClosed, writerError, sent>>
    BY Zenon, <1>0 DEF Stored, Discarded, Fill
  <2>2. QueueEnd(b)' = d[1] + Len(d)
    BY Zenon, <1>5, <1>7 DEF QueueEnd, tail, Goes
  <2>3. Unstored(b)' = d[1] + Len(d)
    BY Zenon, <1>4, <1>8, <2>1 DEF Unstored, Free
  <2> QED BY Zenon, <1>0, <1>4, <1>8, <2>1, <2>2, <2>3 DEF Stored, Free
<1>16. EndsKnown(b)'
  BY Zenon, <1>0, <1>12 DEF Fill, EndsKnown
<1>17. \A c \in Bodies : c # b => Untouched(c)
  BY Zenon, <1>7, <1>8, <1>11, <1>12 DEF Fill, Untouched
<1> QED BY Zenon, <1>10, <1>13, <1>14, <1>15, <1>16, <1>17, OneBody

\* What clearBuffer leaves: an empty queue that the budget is not charged for.
LEMMA ClearKeeps ==
    ASSUME SumFacts, BodiesLinked, NEW b \in Bodies, clearBuffer(b)
    PROVE  /\ Queued(b)' /\ chunks'[b] = <<>>
           /\ used' = SumFunctionOnSet(allocated', Bodies)
           /\ used' \in 0 .. Limit /\ allocated' \in [Bodies -> 0 .. Limit]
           /\ chunks' \in [Bodies -> Seq(Seq(Sizes))] /\ offset' \in [Bodies -> 0 .. Capacity]
           /\ \A c \in Bodies : c # b =>
                 chunks'[c] = chunks[c] /\ offset'[c] = offset[c] /\ allocated'[c] = allocated[c]
<1>0. TypeOK
  BY DEF BodiesLinked
<1>1. /\ chunks' = [chunks EXCEPT ![b] = <<>>] /\ offset' = [offset EXCEPT ![b] = 0]
      /\ allocated' = [allocated EXCEPT ![b] = 0] /\ used' = used - allocated[b]
  BY Zenon DEF clearBuffer
<1>2. used' = used - allocated[b] + 0 /\ used' <= Limit
  BY <1>1, Sized, BodiesAssumption
<1>3. /\ used' = SumFunctionOnSet(allocated', Bodies)
      /\ used' \in 0 .. Limit /\ allocated' \in [Bodies -> 0 .. Limit]
  BY Zenon, <1>1, <1>2, Reallocated
<1>4. chunks' \in [Bodies -> Seq(Seq(Sizes))] /\ chunks'[b] = <<>>
  BY Zenon, <1>0, <1>1, EmptyQueue DEF TypeOK
<1>5. offset' \in [Bodies -> 0 .. Capacity] /\ offset'[b] = 0 /\ allocated'[b] = 0
  <2>1. 0 \in 0 .. Capacity
    BY CapacityIsPositive
  <2> QED BY Zenon, <1>0, <1>1, <2>1 DEF TypeOK
<1>6. \A c \in Bodies : c # b =>
         chunks'[c] = chunks[c] /\ offset'[c] = offset[c] /\ allocated'[c] = allocated[c]
  BY Zenon, <1>0, <1>1 DEF TypeOK
<1>7. Queued(b)'
  <2>1. 0 = Capacity * Len(<<>>)
    BY CapacityIsPositive
  <2>2. Row(<<>>)
    BY EmptyQueue DEF Row
  <2> QED BY Zenon, <1>4, <1>5, <2>1, <2>2 DEF Queued
<1> QED BY Zenon, <1>3, <1>4, <1>5, <1>6, <1>7

\* append finds the budget spent: what is queued is freed and paid back.
LEMMA OverflowKeeps ==
    ASSUME SumFacts, BodiesLinked, NEW b \in Bodies, Overflow(b)
    PROVE  BodiesLinked'
<1>0. TypeOK /\ Stored(b) /\ EndsKnown(b) /\ ~Free(b)
  BY Zenon DEF BodiesLinked, Overflow
<1>1. /\ Queued(b)' /\ chunks'[b] = <<>>
      /\ used' = SumFunctionOnSet(allocated', Bodies)
      /\ used' \in 0 .. Limit /\ allocated' \in [Bodies -> 0 .. Limit]
      /\ chunks' \in [Bodies -> Seq(Seq(Sizes))] /\ offset' \in [Bodies -> 0 .. Capacity]
      /\ \A c \in Bodies : c # b =>
            chunks'[c] = chunks[c] /\ offset'[c] = offset[c] /\ allocated'[c] = allocated[c]
  BY Zenon, ClearKeeps DEF Overflow
<1>2. /\ writerError' \in [Bodies -> Ends \cup {"none"}] /\ writerError'[b] = "overflow"
      /\ \A c \in Bodies : c # b => writerError'[c] = writerError[c]
  BY <1>0 DEF Overflow, TypeOK, Ends
<1>3. /\ pending' \in [Bodies -> Seq(Sizes)] /\ pending'[b] = <<>>
      /\ \A c \in Bodies : c # b => pending'[c] = pending[c]
  BY Zenon, <1>0, EmptyQueue DEF Overflow, TypeOK
<1>4. /\ source' \in [Bodies -> {"reading", "overflowing", "EOF", "broken"}]
      /\ source'[b] = "overflowing" /\ \A c \in Bodies : c # b => source'[c] = source[c]
  BY <1>0 DEF Overflow, TypeOK
<1>5. /\ reader' \in [Bodies -> {"reading", "waiting", "closed"} \cup Ends]
      /\ reader'[b] \in {"EOF", "broken"} => reader[b] = reader'[b]
      /\ \A c \in Bodies : c # b => reader'[c] = reader[c]
  BY Zenon, <1>0, WakeKeeps DEF Overflow
<1>6. TypeOK'
  BY Zenon, <1>0, <1>1, <1>2, <1>3, <1>4, <1>5 DEF Overflow, TypeOK
<1>7. Stored(b)'
  BY Zenon, <1>1, <1>2, <1>3 DEF Stored, Discarded, Free
<1>8. EndsKnown(b)'
  BY <1>0, <1>2, <1>4, <1>5 DEF Overflow, EndsKnown, Stored
<1>9. \A c \in Bodies : c # b => Untouched(c)
  BY Zenon, <1>1, <1>2, <1>3, <1>4, <1>5 DEF Overflow, Untouched
<1> QED BY Zenon, <1>1, <1>6, <1>7, <1>8, <1>9, OneBody

\* The overflow callback changes nothing of the body.
LEMMA OverflowCallKeeps ==
    ASSUME BodiesLinked, NEW b \in Bodies, OverflowCall(b)
    PROVE  BodiesLinked'
<1>0. TypeOK /\ Stored(b) /\ EndsKnown(b)
  BY Zenon DEF BodiesLinked
<1>1. used' = SumFunctionOnSet(allocated', Bodies) /\ Queued(b)'
  BY Zenon, SameQueue DEF OverflowCall
<1>2. /\ source' \in [Bodies -> {"reading", "overflowing", "EOF", "broken"}]
      /\ source'[b] = "reading" /\ \A c \in Bodies : c # b => source'[c] = source[c]
  BY <1>0 DEF OverflowCall, TypeOK
<1>3. quarantine' \in SUBSET Bodies
  BY <1>0 DEF OverflowCall, TypeOK
<1>4. TypeOK'
  BY Zenon, <1>0, <1>2, <1>3 DEF OverflowCall, TypeOK
<1>5. Stored(b)'
  BY Zenon, <1>0, <1>2 DEF OverflowCall, Stored, Discarded, QueueEnd, Unstored, Free, tail
<1>6. EndsKnown(b)'
  BY <1>0, <1>2 DEF OverflowCall, EndsKnown
<1>7. \A c \in Bodies : c # b => Untouched(c)
  BY Zenon, <1>2 DEF OverflowCall, Untouched
<1> QED BY Zenon, <1>1, <1>4, <1>5, <1>6, <1>7, OneBody

\* The end of the source, or its error, comes after all of its data.
LEMMA SourceEndsKeeps ==
    ASSUME BodiesLinked, NEW b \in Bodies, SourceEnds(b)
    PROVE  BodiesLinked'
<1>0. TypeOK /\ Stored(b) /\ EndsKnown(b) /\ Free(b) /\ source[b] = "reading"
  BY Zenon DEF BodiesLinked, SourceEnds
<1>1. used' = SumFunctionOnSet(allocated', Bodies) /\ Queued(b)'
  BY Zenon, SameQueue DEF SourceEnds
<1>2. PICK err \in {"EOF", "broken"} :
         source' = [source EXCEPT ![b] = err] /\ closeWriter(b, err)
  BY Zenon DEF SourceEnds
<1>3. /\ source' \in [Bodies -> {"reading", "overflowing", "EOF", "broken"}]
      /\ source'[b] = err /\ \A c \in Bodies : c # b => source'[c] = source[c]
  BY <1>0, <1>2 DEF TypeOK
<1>4. /\ reader' \in [Bodies -> {"reading", "waiting", "closed"} \cup Ends]
      /\ reader'[b] \in {"EOF", "broken"} => reader[b] = reader'[b]
      /\ \A c \in Bodies : c # b => reader'[c] = reader[c]
  <2>1. CASE reader' = Wake(b)
    BY Zenon, <1>0, <2>1, WakeKeeps
  <2>2. CASE reader' = reader
    BY Zenon, <1>0, <2>2 DEF TypeOK
  <2> QED BY Zenon, <1>2, <2>1, <2>2 DEF closeWriter
<1>5. /\ writerError' \in [Bodies -> Ends \cup {"none"}]
      /\ \A c \in Bodies : c # b => writerError'[c] = writerError[c]
      /\ aborted' \in SUBSET Bodies /\ aborted \subseteq aborted'
      /\ \A c \in Bodies : c # b => (c \in aborted' <=> c \in aborted)
      /\ writerError[b] # "none" => writerError'[b] = writerError[b]
      /\ writerError[b] = "none" => /\ writerError'[b] = err
                                    /\ err = "broken" => b \in aborted'
  BY Zenon, <1>0, <1>2 DEF closeWriter, TypeOK, Ends
<1>6. TypeOK'
  BY Zenon, <1>0, <1>3, <1>4, <1>5 DEF SourceEnds, TypeOK
<1>7. Stored(b)'
  <2>1. Discarded(b)' <=> Discarded(b)
    BY <1>2, <1>5 DEF Discarded, SourceEnds
  <2> QED BY Zenon, <1>0, <2>1 DEF SourceEnds, Stored, QueueEnd, Unstored, Free, tail
<1>8. EndsKnown(b)'
  BY <1>0, <1>2, <1>3, <1>4, <1>5 DEF SourceEnds, EndsKnown
<1>9. \A c \in Bodies : c # b => Untouched(c)
  BY Zenon, <1>3, <1>4, <1>5 DEF SourceEnds, Untouched
<1> QED BY Zenon, <1>1, <1>6, <1>7, <1>8, <1>9, OneBody

-----------------------------------------------------------------------------
(* The consumer.                                                           *)

\* A read of an empty, open body waits.
LEMMA ReadWaitsKeeps ==
    ASSUME BodiesLinked, NEW b \in Bodies, ReadWaits(b)
    PROVE  BodiesLinked'
<1>0. TypeOK /\ Stored(b) /\ EndsKnown(b)
  BY Zenon DEF BodiesLinked
<1>1. used' = SumFunctionOnSet(allocated', Bodies) /\ Queued(b)'
  BY Zenon, SameQueue DEF ReadWaits
<1>2. /\ reader' \in [Bodies -> {"reading", "waiting", "closed"} \cup Ends]
      /\ reader'[b] = "waiting" /\ \A c \in Bodies : c # b => reader'[c] = reader[c]
  BY <1>0 DEF ReadWaits, TypeOK
<1>3. TypeOK'
  BY Zenon, <1>0, <1>2 DEF ReadWaits, TypeOK
<1>4. Stored(b)'
  BY Zenon, <1>0 DEF ReadWaits, Stored, Discarded, QueueEnd, Unstored, Free, tail
<1>5. EndsKnown(b)'
  BY <1>0, <1>2 DEF ReadWaits, EndsKnown
<1>6. \A c \in Bodies : c # b => Untouched(c)
  BY Zenon, <1>2 DEF ReadWaits, Untouched
<1> QED BY Zenon, <1>1, <1>3, <1>4, <1>5, <1>6, OneBody

\* A read returns the end only when nothing is queued.
LEMMA ReadEndsKeeps ==
    ASSUME SumFacts, BodiesLinked, NEW b \in Bodies, ReadEnds(b)
    PROVE  BodiesLinked'
<1>0. TypeOK /\ Stored(b) /\ EndsKnown(b)
  BY Zenon DEF BodiesLinked
<1>1. used' = SumFunctionOnSet(allocated', Bodies) /\ Queued(b)'
  BY Zenon, SameQueue DEF ReadEnds
<1>2. /\ reader' \in [Bodies -> {"reading", "waiting", "closed"} \cup Ends]
      /\ \A c \in Bodies : c # b => reader'[c] = reader[c]
      /\ reader'[b] = "closed" \/ (reader'[b] = writerError[b] /\ b \notin readerClosed)
  BY Zenon, <1>0 DEF ReadEnds, TypeOK
<1>3. TypeOK'
  BY Zenon, <1>0, <1>2 DEF ReadEnds, TypeOK
<1>4. Stored(b)'
  BY Zenon, <1>0 DEF ReadEnds, Stored, Discarded, QueueEnd, Unstored, Free, tail
<1>5. writerError[b] = "EOF" /\ b \notin readerClosed => Len(got[b]) = sent[b]
  <2> SUFFICES ASSUME writerError[b] = "EOF", b \notin readerClosed PROVE Len(got[b]) = sent[b]
    OBVIOUS
  <2>1. ~Discarded(b)
    BY DEF Discarded
  <2>2. Len(got[b]) + 1 = sent[b] + 1
    BY Zenon, <1>0, <2>1 DEF Stored, QueueEnd, Unstored, ReadEnds
  <2>3. Len(got[b]) \in Int /\ sent[b] \in Int
    BY Sized
  <2> QED BY <2>2, <2>3
<1>6. EndsKnown(b)'
  BY <1>0, <1>2, <1>5 DEF ReadEnds, EndsKnown
<1>7. \A c \in Bodies : c # b => Untouched(c)
  BY Zenon, <1>2 DEF ReadEnds, Untouched
<1> QED BY Zenon, <1>1, <1>3, <1>4, <1>6, <1>7, OneBody

\* Close frees what is queued and pays it back.
LEMMA CloseReaderKeeps ==
    ASSUME SumFacts, BodiesLinked, NEW b \in Bodies, CloseReader(b)
    PROVE  BodiesLinked'
<1>0. TypeOK /\ Stored(b) /\ EndsKnown(b) /\ Free(b)
  BY Zenon DEF BodiesLinked, CloseReader
<1>1. /\ Queued(b)' /\ chunks'[b] = <<>>
      /\ used' = SumFunctionOnSet(allocated', Bodies)
      /\ used' \in 0 .. Limit /\ allocated' \in [Bodies -> 0 .. Limit]
      /\ chunks' \in [Bodies -> Seq(Seq(Sizes))] /\ offset' \in [Bodies -> 0 .. Capacity]
      /\ \A c \in Bodies : c # b =>
            chunks'[c] = chunks[c] /\ offset'[c] = offset[c] /\ allocated'[c] = allocated[c]
  BY Zenon, ClearKeeps DEF CloseReader
<1>2. /\ readerClosed' \in SUBSET Bodies /\ b \in readerClosed'
      /\ \A c \in Bodies : c # b => (c \in readerClosed' <=> c \in readerClosed)
  BY <1>0 DEF CloseReader, TypeOK
<1>3. /\ reader' \in [Bodies -> {"reading", "waiting", "closed"} \cup Ends]
      /\ reader'[b] \in {"EOF", "broken"} => reader[b] = reader'[b]
      /\ \A c \in Bodies : c # b => reader'[c] = reader[c]
  BY Zenon, <1>0, WakeKeeps DEF CloseReader
<1>4. TypeOK'
  BY Zenon, <1>0, <1>1, <1>2, <1>3 DEF CloseReader, TypeOK
<1>5. Stored(b)'
  BY Zenon, <1>0, <1>1, <1>2 DEF CloseReader, Stored, Discarded, Free
<1>6. EndsKnown(b)'
  BY <1>0, <1>3 DEF CloseReader, EndsKnown
<1>7. \A c \in Bodies : c # b => Untouched(c)
  BY Zenon, <1>1, <1>2, <1>3 DEF CloseReader, Untouched
<1> QED BY Zenon, <1>1, <1>4, <1>5, <1>6, <1>7, OneBody

\* The prefix a has m bytes more than g.
Continues(a, g, m) == a \in Seq(Sizes) /\ Prefix(a) /\ Len(a) = Len(g) + m

\* The first m bytes after offset o of a chunk follow what was read before.
LEMMA GotMore ==
    ASSUME NEW g \in Seq(Sizes), Prefix(g),
           NEW h \in Seq(Sizes), Run(h), NEW o \in Nat, NEW m \in Nat \ {0}, o + m <= Len(h),
           h[1] + o = Len(g) + 1
    PROVE  Continues(g \o SubSeq(h, o + 1, o + m), g, m)
<1> DEFINE d == SubSeq(h, o + 1, o + m)
           l == Len(g)
           a == g \o d
<1>1. l \in Nat /\ Len(h) \in Nat
  OBVIOUS
<1>2. o + 1 \in 1 .. Len(h) /\ o + m \in o + 1 .. Len(h)
  BY <1>1
<1>3. /\ d \in Seq(Sizes) /\ Len(d) = (o + m) - (o + 1) + 1 /\ Run(d)
      /\ d[1] = h[1] + ((o + 1) - 1)
  BY <1>2, RunSlice
<1>4. h[1] \in Int
  BY <1>1, <1>2, BodiesAssumption DEF Sizes
<1>5. Len(d) = m /\ d[1] = l + 1
  <2>1. (o + m) - (o + 1) + 1 = m /\ \A x \in Int : x + ((o + 1) - 1) = x + o
    OBVIOUS
  <2> HIDE DEF d
  <2> QED BY Zenon, <1>3, <1>4, <2>1
<1>6. /\ a \in Seq(Sizes) /\ Len(a) = l + m
      /\ \A i \in 1 .. l : a[i] = g[i]
      /\ \A j \in 1 .. m : a[l + j] = d[j]
  <2> HIDE DEF d
  <2>1. /\ a \in Seq(Sizes) /\ Len(a) = l + Len(d)
        /\ \A i \in 1 .. l : a[i] = g[i]
        /\ \A j \in 1 .. Len(d) : a[l + j] = d[j]
    BY <1>3
  <2> QED BY Zenon, <1>5, <2>1
<1>7. ASSUME NEW i \in 1 .. l + m PROVE a[i] = i
  <2> HIDE DEF a, d
  <2>1. CASE i <= l
    <3>1. i \in 1 .. l
      BY <1>1, <2>1
    <3> QED BY Zenon, <1>6, <3>1 DEF Prefix
  <2>2. CASE i > l
    <3> HIDE DEF l
    <3>1. i - l \in 1 .. m /\ l + (i - l) = i
      BY <1>1, <2>2
    <3>2. a[i] = d[i - l] /\ d[i - l] = d[1] + ((i - l) - 1)
      BY Zenon, <1>3, <1>5, <1>6, <3>1 DEF Run
    <3> QED BY <1>1, <1>5, <3>1, <3>2
  <2> HIDE DEF l
  <2>3. i <= l \/ i > l
    BY <1>1
  <2> QED BY <2>1, <2>2, <2>3
<1> QED BY Zenon, <1>6, <1>7 DEF Prefix, Continues

\* A read takes from the first chunk what follows what it has got, and frees a used-up chunk.
LEMMA ReadKeeps ==
    ASSUME SumFacts, BodiesLinked, NEW b \in Bodies, NEW n \in Sizes, Read(b, n)
    PROVE  BodiesLinked'
<1> DEFINE cs == chunks[b]
           h == cs[1]
           o == offset[b]
           m == Len(cs)
           g == got[b] \o SubSeq(h, o + 1, o + n)
<1>0. TypeOK /\ Queued(b) /\ Stored(b) /\ EndsKnown(b) /\ Free(b) /\ cs # <<>>
  BY Zenon DEF BodiesLinked, Read
<1>1. /\ cs \in Seq(Seq(Sizes)) /\ got[b] \in Seq(Sizes) /\ m \in Nat \ {0} /\ o \in Nat
      /\ Len(got[b]) \in Nat /\ sent[b] \in Int
      /\ used \in 0 .. Limit /\ allocated[b] \in 0 .. used
  BY <1>0, Sized
<1>2. 1 \in 1 .. m /\ m \in 1 .. m
  <2> HIDE DEF m
  <2> QED BY <1>1
<1>3. Head(cs) = h /\ h \in Seq(Sizes)
  <2> HIDE DEF cs
  <2> QED BY <1>1, <1>2
<1>4. /\ Len(h) \in 1 .. Capacity /\ Run(h) /\ Row(cs) /\ o < Len(h)
      /\ h[1] + o = Len(got[b]) + 1
  BY Zenon, <1>0, <1>2 DEF Queued, Row
<1>5. h[1] \in Int /\ Len(h) \in Nat
  <2> HIDE DEF h
  <2> QED BY <1>3, <1>4, CapacityIsPositive, BodiesAssumption DEF Sizes
<1>6. n \in Nat \ {0} /\ o + n <= Len(h)
  <2>1. n <= Len(h) - o
    BY Zenon, <1>3 DEF Read
  <2> HIDE DEF h, o
  <2> QED BY <1>1, <1>5, <2>1, BodiesAssumption DEF Sizes
<1>7. g \in Seq(Sizes) /\ Len(g) = Len(got[b]) + n /\ Prefix(g)
  <2>1. Prefix(got[b])
    BY Zenon, <1>0 DEF EndsKnown
  <2> HIDE DEF h, o
  <2>2. Continues(g, got[b], n)
    BY Zenon, <1>1, <1>3, <1>4, <1>6, <2>1, GotMore
  <2> HIDE DEF g
  <2> QED BY Zenon, <2>2 DEF Continues
<1>8. got' = [got EXCEPT ![b] = g]
  BY Zenon, <1>3 DEF Read
<1> HIDE DEF g
<1>9. /\ got' \in [Bodies -> Seq(Sizes)] /\ got'[b] = g
      /\ \A c \in Bodies : c # b => got'[c] = got[c]
  BY Zenon, <1>0, <1>7, <1>8 DEF TypeOK
<1>10. ~Discarded(b) /\ QueueEnd(b) = sent[b] + 1 /\ cs[m][1] + Len(cs[m]) = sent[b] + 1
  BY Zenon, <1>0 DEF Stored, QueueEnd, Unstored, tail
<1>11. EndsKnown(b)'
  <2>1. Prefix(got'[b])
    BY Zenon, <1>7, <1>9
  <2>2. reader[b] = "reading"
    BY DEF Read
  <2> QED BY Zenon, <1>0, <2>1, <2>2 DEF Read, EndsKnown
<1>12. CASE o + n = Len(h)
  <2> DEFINE as == Tail(cs)
             v == allocated[b] - Capacity
  <2>1. /\ chunks' = [chunks EXCEPT ![b] = as] /\ offset' = [offset EXCEPT ![b] = 0]
        /\ allocated' = [allocated EXCEPT ![b] = v] /\ used' = used - Capacity
    BY Zenon, <1>3, <1>12 DEF Read
  <2>2. /\ as \in Seq(Seq(Sizes)) /\ Len(as) = m - 1
        /\ \A k \in 1 .. m - 1 : as[k] = cs[k + 1]
    <3> HIDE DEF cs
    <3> QED BY <1>0, <1>1
  <2>3. Row(as) /\ (m > 1 => as[1][1] = h[1] + Len(h))
    <3> HIDE DEF as, cs
    <3>1. Len(cs) = m
      OBVIOUS
    <3> HIDE DEF m
    <3> QED BY Zenon, <1>1, <1>4, <2>2, <3>1, RowShrinks
  <2> HIDE DEF as
  <2>4. /\ chunks' \in [Bodies -> Seq(Seq(Sizes))] /\ chunks'[b] = as
        /\ \A c \in Bodies : c # b => chunks'[c] = chunks[c]
    BY Zenon, <1>0, <2>1, <2>2 DEF TypeOK
  <2>5. /\ offset' \in [Bodies -> 0 .. Capacity] /\ offset'[b] = 0
        /\ \A c \in Bodies : c # b => offset'[c] = offset[c]
    <3>1. 0 \in 0 .. Capacity
      BY CapacityIsPositive
    <3> QED BY Zenon, <1>0, <2>1, <3>1 DEF TypeOK
  <2>6. v = Capacity * (m - 1) /\ v \in Nat
    <3>1. allocated[b] = Capacity * m
      BY Zenon, <1>0 DEF Queued
    <3> HIDE DEF m
    <3>2. Capacity * m = Capacity * (m - 1) + Capacity /\ Capacity * (m - 1) \in Nat
      BY <1>1, CapacityIsPositive
    <3> QED BY <3>1, <3>2, CapacityIsPositive
  <2>7. used' = used - allocated[b] + v /\ used' <= Limit
    BY <1>1, <2>1, CapacityIsPositive, BodiesAssumption
  <2> HIDE DEF v
  <2>8. /\ used' = SumFunctionOnSet(allocated', Bodies)
        /\ used' \in 0 .. Limit /\ allocated' \in [Bodies -> 0 .. Limit]
    BY Zenon, <2>1, <2>6, <2>7, Reallocated
  <2>9. allocated'[b] = v /\ \A c \in Bodies : c # b => allocated'[c] = allocated[c]
    BY Zenon, <1>0, <2>1 DEF TypeOK
  <2>10. TypeOK'
    BY Zenon, <1>0, <1>9, <2>4, <2>5, <2>8 DEF Read, TypeOK
  <2>11. m > 1 \/ m = 1
    <3> HIDE DEF m
    <3> QED BY <1>1
  <2>12. m = 1 => as = <<>> /\ h[1] + Len(h) = sent[b] + 1
    <3>1. m = 1 => Len(as) = 0
      BY <2>2
    <3>2. m = 1 => as = <<>>
      BY <2>2, <3>1
    <3> QED BY Zenon, <1>10, <3>2
  <2>13. m > 1 => as # <<>> /\ as[m - 1] = cs[m]
    <3> HIDE DEF m
    <3>1. m > 1 => m - 1 \in 1 .. m - 1 /\ (m - 1) + 1 = m /\ m - 1 # 0
      BY <1>1
    <3> QED BY Zenon, <2>2, <3>1, EmptyQueue
  <2>14. Len(got[b]) + n + 1 = h[1] + Len(h)
    <3>1. o \in Int /\ Len(got[b]) \in Int /\ n \in Int
      BY <1>1, <1>6
    <3> HIDE DEF h, o
    <3>2. \A x, z \in Int : x + o = z + 1 => z + n + 1 = x + (o + n)
      BY <3>1
    <3>3. Len(got[b]) + n + 1 = h[1] + (o + n)
      BY Zenon, <1>4, <1>5, <3>1, <3>2
    <3> QED BY Zenon, <1>12, <3>3
  <2>15. Queued(b)'
    <3>1. m > 1 => 0 < Len(as[1]) /\ as[1][1] + 0 = Len(g) + 1
      <4> SUFFICES ASSUME m > 1 PROVE 0 < Len(as[1]) /\ as[1][1] + 0 = Len(g) + 1
        BY Zenon
      <4>1. 1 \in 1 .. Len(as)
        <5> HIDE DEF m
        <5> QED BY <1>1, <2>2
      <4>2. Len(as[1]) \in 1 .. Capacity
        BY Zenon, <2>3, <4>1 DEF Row
      <4>3. as[1][1] = Len(g) + 1 /\ as[1][1] \in Int
        <5>1. Len(g) + 1 = h[1] + Len(h)
          BY Zenon, <1>7, <2>14
        <5>2. h[1] + Len(h) \in Int
          <6> HIDE DEF h
          <6> QED BY <1>5
        <5> QED BY Zenon, <2>3, <5>1, <5>2
      <4>4. (\A x \in 1 .. Capacity : 0 < x) /\ \A x \in Int : x + 0 = x
        BY CapacityIsPositive
      <4> QED BY Zenon, <4>2, <4>3, <4>4
    <3> QED BY Zenon, <1>9, <2>2, <2>3, <2>4, <2>5, <2>6, <2>9, <2>11, <2>12, <2>13,
           <3>1 DEF Queued
  <2>16. Stored(b)'
    <3>1. m = 1 => QueueEnd(b)' = sent[b] + 1
      BY Zenon, <1>7, <1>9, <2>4, <2>12, <2>14 DEF QueueEnd
    <3>2. m > 1 => QueueEnd(b)' = sent[b] + 1
      BY Zenon, <1>10, <2>2, <2>4, <2>13 DEF QueueEnd, tail
    <3> QED BY Zenon, <1>0, <1>10, <2>11, <3>1, <3>2 DEF Read, Stored, Discarded, Unstored, Free
  <2>17. \A c \in Bodies : c # b => Untouched(c)
    BY Zenon, <1>9, <2>4, <2>5, <2>9 DEF Read, Untouched
  <2> QED BY Zenon, <1>11, <2>8, <2>10, <2>15, <2>16, <2>17, OneBody
<1>13. CASE o + n # Len(h)
  <2>1. offset' = [offset EXCEPT ![b] = o + n] /\ UNCHANGED <<chunks, allocated, used>>
    BY Zenon, <1>3, <1>13 DEF Read
  <2>2. o + n \in 0 .. Capacity /\ o + n < Len(h)
    <3> HIDE DEF o, h
    <3> QED BY <1>1, <1>4, <1>6, <1>13, CapacityIsPositive
  <2>3. /\ offset' \in [Bodies -> 0 .. Capacity] /\ offset'[b] = o + n
        /\ \A c \in Bodies : c # b => offset'[c] = offset[c]
    BY Zenon, <1>0, <2>1, <2>2 DEF TypeOK
  <2>4. TypeOK' /\ used' = SumFunctionOnSet(allocated', Bodies)
    BY Zenon, <1>0, <1>9, <2>1, <2>3 DEF BodiesLinked, Read, TypeOK
  <2>5. h[1] + (o + n) = Len(g) + 1
    <3>1. o \in Int /\ Len(got[b]) \in Int /\ n \in Int
      BY <1>1, <1>6
    <3> HIDE DEF h, o
    <3>2. \A x, z \in Int : x + o = z + 1 => x + (o + n) = z + n + 1
      BY <3>1
    <3>3. h[1] + (o + n) = Len(got[b]) + n + 1
      BY Zenon, <1>4, <1>5, <3>1, <3>2
    <3> QED BY Zenon, <1>7, <3>3
  <2>6. Queued(b)'
    BY Zenon, <1>0, <1>9, <2>1, <2>2, <2>3, <2>5 DEF Queued
  <2>7. Stored(b)'
    BY Zenon, <1>0, <1>10, <2>1 DEF Read, Stored, Discarded, QueueEnd, Unstored, Free, tail
  <2>8. \A c \in Bodies : c # b => Untouched(c)
    BY Zenon, <1>9, <2>1, <2>3 DEF Read, Untouched
  <2> QED BY Zenon, <1>11, <2>4, <2>6, <2>7, <2>8, OneBody
<1> QED BY <1>12, <1>13

-----------------------------------------------------------------------------
\* No body holds anything at first.
LEMMA InitBodies ==
    ASSUME SumFacts, Init
    PROVE  BodiesLinked
<1>1. TypeOK
  <2>1. 0 \in 0 .. Limit /\ 0 \in 0 .. Capacity /\ 0 \in 0 .. MaxBytes
    BY CapacityIsPositive, BodiesAssumption
  <2> QED BY <2>1, EmptyQueue DEF Init, TypeOK, Ends
<1>2. used = SumFunctionOnSet(allocated, Bodies)
  <2>1. \A x \in Bodies : allocated[x] = 0 /\ allocated[x] \in Nat
    BY DEF Init
  <2>2. SumFunctionOnSet(allocated, Bodies) = 0
    BY <2>1, BudgetBounds, BodiesAssumption
  <2> QED BY <2>2 DEF Init
<1>3. ASSUME NEW b \in Bodies PROVE Queued(b) /\ Stored(b) /\ EndsKnown(b)
  <2>1. /\ chunks[b] = <<>> /\ offset[b] = 0 /\ allocated[b] = 0 /\ got[b] = <<>>
        /\ sent[b] = 0 /\ pending[b] = <<>>
        /\ writerError[b] = "none" /\ source[b] = "reading" /\ reader[b] = "reading"
    BY DEF Init
  <2>2. 0 = Capacity * Len(<<>>) /\ Row(<<>>) /\ Prefix(<<>>)
    BY EmptyQueue, CapacityIsPositive DEF Row, Prefix
  <2>3. Queued(b)
    BY Zenon, <2>1, <2>2 DEF Queued
  <2>4. Stored(b)
    BY Zenon, <2>1, EmptyQueue DEF Stored, QueueEnd, Unstored, Free
  <2>5. EndsKnown(b)
    BY <2>1, <2>2 DEF EndsKnown
  <2> QED BY <2>3, <2>4, <2>5
<1> QED BY Zenon, <1>1, <1>2, <1>3 DEF BodiesLinked

\* Every step keeps the invariant.
LEMMA NextBodies ==
    ASSUME SumFacts, BodiesLinked, [Next]_vars
    PROVE  BodiesLinked'
<1>1. CASE UNCHANGED vars
  BY ZenonT(30), <1>1 DEF vars, BodiesLinked, TypeOK, Queued, Stored, EndsKnown, Discarded,
     QueueEnd,
     Unstored, Free, tail
<1>2. ASSUME NEW b \in Bodies, Produce(b) PROVE BodiesLinked'
  BY Zenon, <1>2, AppendDropsKeeps, StartAppendKeeps, FillKeeps, OverflowKeeps, OverflowCallKeeps,
     SourceEndsKeeps DEF Produce
<1>3. ASSUME NEW b \in Bodies, Consume(b) PROVE BodiesLinked'
  BY Zenon, <1>3, ReadWaitsKeeps, ReadEndsKeeps, ReadKeeps DEF Consume
<1> QED BY Zenon, <1>1, <1>2, <1>3, CloseReaderKeeps DEF Next, Quiescent

\* The budget is charged for what is queued, the candidate reads a prefix of the upload, all
\* of it at EOF, and sees a broken upload only once it is aborted: for every number of
\* bodies, size of a chunk, budget and length of an upload.
LEMMA BodiesSoundIf ==
    ASSUME SumFacts
    PROVE  Spec => []BodiesSound
<1>1. BodiesLinked => BodiesSound
  <2> SUFFICES ASSUME BodiesLinked PROVE BodiesSound
    OBVIOUS
  <2>1. BudgetConserved
    BY Zenon DEF BodiesLinked, BudgetConserved, Queued, Stored, Discarded, TypeOK
  <2>2. \A b \in Bodies : got[b] = [i \in 1 .. Len(got[b]) |-> i]
    <3> SUFFICES ASSUME NEW b \in Bodies PROVE got[b] = [i \in 1 .. Len(got[b]) |-> i]
      OBVIOUS
    <3>1. got[b] \in Seq(Sizes)
      BY Sized
    <3>2. Prefix(got[b])
      BY Zenon DEF BodiesLinked, EndsKnown
    <3> QED BY <3>1, <3>2 DEF Prefix
  <2>3. BodyIntact /\ AbortedFirst
    BY Zenon, <2>2 DEF BodiesLinked, EndsKnown, BodyIntact, AbortedFirst
  <2> QED BY Zenon, <2>1, <2>3 DEF BodiesSound
<1> QED BY <1>1, InitBodies, NextBodies, PTL DEF Spec

-----------------------------------------------------------------------------
(* The body of an egress request, captured for its hash (RequestCapture).  *)

USE CaptureAssumption

\* How much of the upload the sink has been told.
Told == bytes - tee.data

\* What the sink keeps of an upload of n bytes.
Keeps(kept, over, n) ==
    kept = (IF n > CaptureLimit THEN CaptureLimit ELSE n) /\ (over <=> n > CaptureLimit)

\* The inductive invariant: until the body is captured, the sink has the first bytes of
\* what it was told, up to the limit; an end of the upload that the tee saw or the sink was
\* told is its end; a body captured without an error is the whole of it.
CaptureInvariant ==
    /\ CaptureTypeOK
    /\ tee.data <= bytes
    /\ served # "streamed" => bytes = 0 /\ tee = Idle /\ ~eof /\ close = "none"
    /\ served = "new" => upload = "open" /\ ~Closed
    /\ tee.err = "EOF" \/ eof => upload = "EOF"
    /\ tee.err = "EOF" /\ eof => tee.data = 0
    /\ ~Closed => Keeps(body, overflow, Told)
    /\ captured.err = "EOF" => upload = "EOF" /\ Keeps(captured.body, captured.overflow, bytes)
    /\ hashing.err = "EOF" => configured /\ hashing = captured

\* A body captured now is captured for good.
LEMMA CapturedOnce ==
    ASSUME CaptureInvariant, NEW err \in Errors \ {"none"}, closeCapture(err)
    PROVE  /\ captured' \in Captures /\ captured'.err # "none"
           /\ Closed => captured' = captured
           /\ ~Closed => /\ captured'.err = err /\ captured'.body = body
                         /\ captured'.overflow = overflow
BY DEF CaptureInvariant, CaptureTypeOK, closeCapture, Closed, Captures

\* Nothing is captured before the request is served.
LEMMA InitCaptures ==
    ASSUME CaptureInit
    PROVE  CaptureInvariant
<1>1. NoBody \in Captures /\ NoBody.err = "none"
  BY DEF NoBody, Captures, Errors
<1>2. tee = Idle /\ tee.data = 0 /\ tee.err = "none"
  BY DEF CaptureInit, Idle
<1>3. CaptureTypeOK
  <2>1. eof \in BOOLEAN /\ overflow \in BOOLEAN /\ configured \in BOOLEAN
    BY Zenon DEF CaptureInit
  <2> QED BY <1>1, <1>2, <2>1 DEF CaptureInit, CaptureTypeOK, Errors
<1>4. ~Closed /\ Told = 0 /\ body = 0 /\ overflow = FALSE
  BY <1>1, <1>2 DEF CaptureInit, Closed, Told
<1>5. Keeps(body, overflow, Told)
  BY <1>4 DEF Keeps
<1> QED BY <1>1, <1>2, <1>3, <1>4, <1>5 DEF CaptureInit, CaptureInvariant

\* Every step of the transport, the tee and the hashing goroutine keeps it.
LEMMA NextCaptures ==
    ASSUME CaptureInvariant, [CaptureNext]_requestVars
    PROVE  CaptureInvariant'
<1> USE DEF captureVars
<1>1. CASE Refuse \/ ServeBody
  BY <1>1 DEF Refuse, ServeBody, CaptureInvariant, CaptureTypeOK, Idle, Closed, Told
<1>2. CASE ServeNowhere
  BY <1>2, CapturedOnce DEF ServeNowhere, CaptureInvariant, CaptureTypeOK, Idle, Closed, Told,
     Errors, closeCapture
<1>3. CASE ServeEmpty
  BY <1>3, CapturedOnce DEF ServeEmpty, CaptureInvariant, CaptureTypeOK, Idle, Closed, Told,
     Errors, closeCapture, Keeps
<1>4. ASSUME NEW n \in 1 .. UploadBytes, ReadData(n) PROVE CaptureInvariant'
  BY <1>4 DEF ReadData, CaptureInvariant, CaptureTypeOK, Idle, Closed, Told, Errors, Keeps
<1>5. CASE ReadEnd
  BY <1>5 DEF ReadEnd, CaptureInvariant, CaptureTypeOK, Idle, Closed, Told, Errors, Keeps
<1>6. CASE AppendData
  <2>1. /\ tee' \in [data : 0 .. UploadBytes, err : Errors \cup {"ended"}]
        /\ tee'.data = 0 /\ tee'.err = tee.err
    BY <1>6 DEF AppendData, CaptureInvariant, CaptureTypeOK
  <2>2. UNCHANGED <<served, configured, upload, bytes, eof, close, captured, hashing>>
        /\ tee # Idle /\ tee.data \in Nat \ {0}
    BY <1>6 DEF AppendData, append, CaptureInvariant, CaptureTypeOK, Idle
  <2>3. Told \in Nat /\ Told' = Told + tee.data
    BY <2>1, <2>2 DEF CaptureInvariant, CaptureTypeOK, Told
  <2>4. /\ body' \in 0 .. CaptureLimit /\ overflow' \in BOOLEAN
        /\ ~Closed' => Keeps(body', overflow', Told')
    <3>1. CASE Closed
      BY <1>6, <2>2, <3>1 DEF AppendData, append, CaptureInvariant, CaptureTypeOK, Closed
    <3>2. CASE ~Closed
      <4>1. Keeps(body, overflow, Told)
        BY <3>2 DEF CaptureInvariant
      <4>2. /\ body' = IF tee.data > CaptureLimit - body THEN CaptureLimit ELSE body + tee.data
            /\ overflow' = (overflow \/ tee.data > CaptureLimit - body)
        BY <1>6, <3>2 DEF AppendData, append
      <4>3. body' \in 0 .. CaptureLimit /\ overflow' \in BOOLEAN
        BY <2>2, <4>2 DEF CaptureInvariant, CaptureTypeOK
      <4> HIDE DEF Told
      <4>4. body' = (IF Told' > CaptureLimit THEN CaptureLimit ELSE Told')
        BY <2>2, <2>3, <4>1, <4>2 DEF Keeps
      <4>5. overflow \/ tee.data > CaptureLimit - body <=> Told' > CaptureLimit
        BY <2>2, <2>3, <4>1 DEF Keeps
      <4> QED BY Zenon, <4>2, <4>3, <4>4, <4>5 DEF Keeps
    <3> QED BY <3>1, <3>2
  <2> QED BY <2>1, <2>2, <2>4 DEF CaptureInvariant, CaptureTypeOK, Closed, Keeps
<1>7. CASE StoreEOF
  BY <1>7 DEF StoreEOF, CaptureInvariant, CaptureTypeOK, Idle, Closed, Told, Errors, Keeps
<1>8. CASE TeeEnds
  BY <1>8, CapturedOnce DEF TeeEnds, CaptureInvariant, CaptureTypeOK, Idle, Ended, Closed,
     Told, Errors, closeCapture, Keeps
<1>9. CASE CloseSource
  BY <1>9 DEF CloseSource, CaptureInvariant, CaptureTypeOK, Idle, Closed, Told, Errors, Keeps
<1>10. CASE CloseSink
  BY <1>10, CapturedOnce DEF CloseSink, CaptureInvariant, CaptureTypeOK, Idle, Closed, Told,
     Errors, closeCapture, Keeps
<1>11. CASE Wait
  <2>1. hashing' \in Captures /\ (hashing'.err = "EOF" => configured /\ hashing' = captured)
    <3>1. CASE configured
      BY <1>11, <3>1 DEF Wait, CaptureInvariant, CaptureTypeOK
    <3>2. CASE ~configured
      <4>1. hashing' = [body |-> 0, overflow |-> FALSE, err |-> "broken"]
        BY <1>11, <3>2 DEF Wait, NoBody
      <4> QED BY <4>1 DEF Captures, Errors
    <3> QED BY <3>1, <3>2
  <2> QED BY <1>11, <2>1 DEF Wait, CaptureInvariant, CaptureTypeOK, Idle, Closed, Told, Keeps
<1>12. CASE UNCHANGED requestVars
  BY <1>12 DEF requestVars, CaptureInvariant, CaptureTypeOK, Idle, Closed, Told, Errors, Keeps
<1> QED BY <1>1, <1>2, <1>3, <1>4, <1>5, <1>6, <1>7, <1>8, <1>9, <1>10, <1>11, <1>12
        DEF CaptureNext, CaptureQuiescent

\* The capture of an egress request (internal/httpserver): whatever the transport reads and
\* closes, and in whatever order, a body that the engine hashes without an error is the whole
\* upload, or as much of it as the limit allows and marked so.
THEOREM BodiesAreHashedWhole == CaptureSpec => []HashesWholeBody
<1>1. CaptureInvariant => HashesWholeBody
  <2> SUFFICES ASSUME CaptureInvariant, hashing.err = "EOF"
               PROVE  /\ CaptureTypeOK /\ upload = "EOF" /\ configured
                      /\ [body |-> hashing.body, overflow |-> hashing.overflow] =
                            candidateBody(bytes)
    BY DEF CaptureInvariant, HashesWholeBody
  <2>1. hashing = captured /\ Keeps(hashing.body, hashing.overflow, bytes)
    BY DEF CaptureInvariant
  <2>2. hashing.overflow \in BOOLEAN
    BY DEF CaptureInvariant, CaptureTypeOK, Captures
  <2>3. hashing.overflow = (bytes > CaptureLimit)
    BY <2>1, <2>2 DEF Keeps
  <2> QED BY <2>1, <2>3 DEF CaptureInvariant, Keeps, candidateBody
<1> QED BY <1>1, InitCaptures, NextCaptures, PTL DEF CaptureSpec

-----------------------------------------------------------------------------
(* The facts about sums, from RecordingProofs.  They are about no          *)
(* particular exchanges: there need not be any.                            *)

R == INSTANCE RecordingProofs WITH
    Exchanges <- {}, Shared <- "shared", Limit <- 0, MaxBytes <- 0, point <- <<>>,
    handler <- <<>>, result <- <<>>, overBudget <- {}, reserved <- <<>>, released <- {},
    delivered <- <<>>, whole <- {}, reports <- <<>>, replay <- <<>>

\* A sum is a sum, in either module.
LEMMA SameSums ==
    ASSUME NEW S, NEW f
    PROVE  /\ R!SumFunctionOnSet(f, S) = SumFunctionOnSet(f, S)
           /\ R!IsFiniteSet(S) <=> IsFiniteSet(S)
<1>1. R!SumFunctionOnSet(f, S) = SumFunctionOnSet(f, S)
  BY Zenon DEF SumFunctionOnSet, FoldFunctionOnSet, MapThenFoldSet, R!SumFunctionOnSet,
     R!FoldFunctionOnSet, R!MapThenFoldSet
<1>2. R!IsFiniteSet(S) <=> IsFiniteSet(S)
  BY Zenon DEF IsFiniteSet, R!IsFiniteSet
<1> QED BY <1>1, <1>2

\* No exchanges are finitely many.
LEMMA NoExchanges == R!PointsAssumption
<1>1. IsFiniteSet({})
  BY Zenon, EmptyQueue DEF IsFiniteSet
<1>2. R!IsFiniteSet({})
  BY Zenon, <1>1, SameSums
<1> QED BY <1>2 DEF R!PointsAssumption

\* The facts that the budget rests on.
LEMMA SumsAreSo == SumFacts
<1>1. ASSUME NEW S, NEW f, IsFiniteSet(S), \A x \in S : f[x] \in Nat
      PROVE  /\ SumFunctionOnSet(f, S) \in Nat
             /\ \A x \in S : f[x] <= SumFunctionOnSet(f, S)
             /\ (\A x \in S : f[x] = 0) => SumFunctionOnSet(f, S) = 0
  <2>1. R!IsFiniteSet(S) /\ R!SumFunctionOnSet(f, S) = SumFunctionOnSet(f, S)
    BY <1>1, SameSums
  <2> QED BY <1>1, <2>1, NoExchanges, R!SumBounds
<1>2. ASSUME NEW S, NEW f, NEW h, NEW x, IsFiniteSet(S), DifferAt(x, f, h, S)
      PROVE  /\ x \in S => SumFunctionOnSet(h, S) = SumFunctionOnSet(f, S) - f[x] + h[x]
             /\ x \notin S => SumFunctionOnSet(h, S) = SumFunctionOnSet(f, S)
  <2>1. R!IsFiniteSet(S) /\ R!DifferAt(x, f, h, S)
    BY <1>2, SameSums DEF R!DifferAt, DifferAt
  <2>2. /\ R!SumFunctionOnSet(f, S) = SumFunctionOnSet(f, S)
        /\ R!SumFunctionOnSet(h, S) = SumFunctionOnSet(h, S)
    BY SameSums
  <2> QED BY <2>1, <2>2, NoExchanges, R!SumChanges
<1> QED BY Zenon, <1>1, <1>2 DEF SumFacts

\* Streamed bodies (internal/httpserver): the budget is charged for what is queued, the
\* candidate reads a prefix of the upload, all of it at EOF, and sees a broken upload only once
\* it is aborted: for every number of bodies, size of a chunk, budget and length of an upload.
THEOREM BodiesAreSound == Spec => []BodiesSound
BY SumsAreSo, BodiesSoundIf

=============================================================================

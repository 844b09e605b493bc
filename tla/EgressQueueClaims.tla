------------------------- MODULE EgressQueueClaims --------------------------
(***************************************************************************)
(* Lemmas for EgressQueueProofs: the facts on queues as sequences, and     *)
(* that a candidate's steps up to its claim keep Consistent.               *)
(*                                                                         *)
(* There is one lemma for each action, with a step for each conjunct of    *)
(* Consistent that the action can disturb and one for the others.          *)
(***************************************************************************)
EXTENDS EgressQueue, WellFoundedInduction, TLAPS

-----------------------------------------------------------------------------
(* Queues as sequences: what insertByArrival, [1:] and slices.Delete do.   *)

USE SMTT(60)

\* A non-empty set of naturals has a least element.
LEMMA LeastNatural ==
    ASSUME NEW T, T \subseteq Nat, T # {}
    PROVE  \E x \in T : \A y \in T : x <= y
<1> DEFINE R == OpToRel(<, Nat)
<1>1. \A m, n \in Nat : m < n => <<m, n>> \in R
  BY DEF OpToRel
<1>2. IsWellFoundedOn(R, Nat)
  BY Zenon, NatLessThanWellFounded
<1> HIDE DEF R
<1>3. PICK x \in T : \A y \in T : ~(<<y, x>> \in R)
  BY Zenon, <1>2, WFMin
<1>4. ASSUME NEW y \in T PROVE x <= y
  <2>1. x \in Nat /\ y \in Nat
    OBVIOUS
  <2>2. ~(y < x)
    BY Zenon, <1>1, <1>3, <2>1
  <2> QED BY <2>1, <2>2
<1> QED BY <1>4

\* The elements of a slice, and of two sequences joined.
LEMMA Slice ==
    ASSUME NEW S, NEW s, NEW i \in Int, NEW j \in Int, \A k \in i .. j : s[k] \in S
    PROVE  /\ SubSeq(s, i, j) \in Seq(S)
           /\ Len(SubSeq(s, i, j)) = IF i <= j THEN j - i + 1 ELSE 0
           /\ \A k \in 1 .. j - i + 1 : SubSeq(s, i, j)[k] = s[i + k - 1]
OBVIOUS

\* Concatenation, by position.
LEMMA Joined ==
    ASSUME NEW S, NEW r \in Seq(S), NEW s \in Seq(S)
    PROVE  /\ r \o s \in Seq(S) /\ Len(r \o s) = Len(r) + Len(s)
           /\ \A k \in 1 .. Len(r) + Len(s) :
                 (r \o s)[k] = IF k <= Len(r) THEN r[k] ELSE s[k - Len(r)]
OBVIOUS

\* Inserting keeps the queue well typed and shifts what comes later.
LEMMA InsertProperties ==
    ASSUME NEW S, NEW s \in Seq(S), NEW e \in S, NEW i \in 1 .. Len(s) + 1
    PROVE  /\ Insert(s, i, e) \in Seq(S)
           /\ Len(Insert(s, i, e)) = Len(s) + 1
           /\ \A j \in 1 .. i - 1 : Insert(s, i, e)[j] = s[j]
           /\ Insert(s, i, e)[i] = e
           /\ \A j \in i .. Len(s) : Insert(s, i, e)[j + 1] = s[j]
<1> DEFINE a == SubSeq(s, 1, i - 1)
           b == SubSeq(s, i, Len(s))
<1>0. Len(s) \in Nat /\ \A j \in 1 .. Len(s) : s[j] \in S
  OBVIOUS
<1>1. /\ a \in Seq(S) /\ Len(a) = i - 1
      /\ \A j \in 1 .. i - 1 : a[j] = s[j]
  <2>1. \A j \in 1 .. i - 1 : s[j] \in S
    BY <1>0
  <2>2. /\ SubSeq(s, 1, i - 1) \in Seq(S)
        /\ Len(SubSeq(s, 1, i - 1)) = IF 1 <= i - 1 THEN (i - 1) - 1 + 1 ELSE 0
        /\ \A j \in 1 .. (i - 1) - 1 + 1 : SubSeq(s, 1, i - 1)[j] = s[1 + j - 1]
    BY <1>0, <2>1, Slice
  <2> QED BY <1>0, <2>2
<1>2. /\ b \in Seq(S) /\ Len(b) = Len(s) - i + 1
      /\ \A j \in 1 .. Len(s) - i + 1 : b[j] = s[i + j - 1]
  <2>1. \A j \in i .. Len(s) : s[j] \in S
    BY <1>0
  <2>2. /\ SubSeq(s, i, Len(s)) \in Seq(S)
        /\ Len(SubSeq(s, i, Len(s))) = IF i <= Len(s) THEN Len(s) - i + 1 ELSE 0
        /\ \A j \in 1 .. Len(s) - i + 1 : SubSeq(s, i, Len(s))[j] = s[i + j - 1]
    BY <1>0, <2>1, Slice
  <2> QED BY <1>0, <2>2
<1> DEFINE u == a \o <<e>>
           v == u \o b
<1> HIDE DEF a, b
<1>3. /\ u \in Seq(S) /\ Len(u) = i
      /\ \A j \in 1 .. i - 1 : u[j] = a[j]
      /\ u[i] = e
  <2>1. <<e>> \in Seq(S) /\ Len(<<e>>) = 1 /\ <<e>>[1] = e
    OBVIOUS
  <2> DEFINE one == <<e>>
  <2> HIDE DEF one
  <2>2. one \in Seq(S) /\ Len(one) = 1 /\ one[1] = e
    BY <2>1 DEF one
  <2>3. /\ a \o one \in Seq(S) /\ Len(a \o one) = Len(a) + Len(one)
        /\ \A j \in 1 .. Len(a) + Len(one) :
              (a \o one)[j] = IF j <= Len(a) THEN a[j] ELSE one[j - Len(a)]
    BY Zenon, <1>1, <2>2, Joined
  <2>4. u = a \o one
    BY DEF one
  <2> HIDE DEF u
  <2> QED BY <1>0, <1>1, <2>2, <2>3, <2>4
<1> HIDE DEF u
<1>4. /\ v \in Seq(S) /\ Len(v) = Len(s) + 1
      /\ \A j \in 1 .. i : v[j] = u[j]
      /\ \A j \in i .. Len(s) : v[j + 1] = b[j + 1 - i]
  <2>1. Len(u) + Len(b) = Len(s) + 1
    BY <1>0, <1>2, <1>3
  <2>2. /\ v \in Seq(S) /\ Len(v) = Len(u) + Len(b)
        /\ \A j \in 1 .. Len(u) + Len(b) :
              v[j] = IF j <= Len(u) THEN u[j] ELSE b[j - Len(u)]
    BY <1>2, <1>3, Joined
  <2>3. \A j \in 1 .. i : v[j] = u[j]
    BY <1>0, <1>3, <2>1, <2>2
  <2>4. \A j \in i .. Len(s) : j + 1 \in 1 .. Len(u) + Len(b) /\ ~(j + 1 <= Len(u))
    BY <1>0, <1>3, <2>1
  <2>5. \A j \in i .. Len(s) : v[j + 1] = b[j + 1 - Len(u)]
    BY <2>2, <2>4
  <2> QED BY <1>3, <2>1, <2>2, <2>3, <2>5
<1>5. Insert(s, i, e) = v
  BY DEF Insert, a, b, u
<1> HIDE DEF v
<1>6. \A j \in 1 .. i - 1 : v[j] = s[j]
  BY <1>0, <1>1, <1>3, <1>4
<1>7. v[i] = e
  BY <1>3, <1>4
<1>8. \A j \in i .. Len(s) : v[j + 1] = s[j]
  <2>1. \A j \in i .. Len(s) : j + 1 - i \in 1 .. Len(s) - i + 1 /\ i + (j + 1 - i) - 1 = j
    BY <1>0
  <2>2. \A j \in i .. Len(s) : b[j + 1 - i] = s[j]
    BY <1>2, <2>1
  <2> QED BY <1>4, <2>2
<1> QED BY <1>4, <1>5, <1>6, <1>7, <1>8

\* The elements of a queue, by position.
LEMMA RangeProperties ==
    ASSUME NEW S, NEW q \in Seq(S)
    PROVE  /\ Range(q) \subseteq S
           /\ \A x : x \in Range(q) <=> \E i \in 1 .. Len(q) : q[i] = x
           /\ q = <<>> <=> Range(q) = {}
<1>1. /\ Len(q) \in Nat
      /\ q \in [1 .. Len(q) -> S]
      /\ DOMAIN q = 1 .. Len(q)
  OBVIOUS
<1>2. Range(q) = {q[i] : i \in 1 .. Len(q)}
  BY <1>1 DEF Range
<1>3. q = <<>> <=> Len(q) = 0
  OBVIOUS
<1>4. q = <<>> <=> Range(q) = {}
  <2>1. CASE Len(q) = 0
    <3>1. 1 .. Len(q) = {}
      BY <2>1
    <3> QED BY <1>2, <1>3, <2>1, <3>1
  <2>2. CASE Len(q) # 0
    <3>1. 1 \in 1 .. Len(q)
      BY <1>1, <2>2
    <3> QED BY <1>2, <1>3, <2>2, <3>1
  <2> QED BY <2>1, <2>2
<1> QED BY <1>1, <1>2, <1>4

\* insertByArrival adds the item and keeps strict arrival order.
LEMMA InsertByArrivalProperties ==
    ASSUME NEW S, S \subseteq Requests, arrival \in [Requests -> Nat],
           NEW q \in Seq(S), NEW x \in S
    PROVE  /\ InsertByArrival(q, x) \in Seq(S)
           /\ Range(InsertByArrival(q, x)) = Range(q) \cup {x}
           /\ (Ordered(q) /\ \A y \in Range(q) : arrival[y] # arrival[x])
                 => Ordered(InsertByArrival(q, x))
<1> DEFINE P(i) == /\ \A j \in 1 .. i - 1 : arrival[q[j]] < arrival[x]
                   /\ i <= Len(q) => arrival[x] <= arrival[q[i]]
           T == {i \in 1 .. Len(q) + 1 : i <= Len(q) => arrival[x] <= arrival[q[i]]}
           index == CHOOSE i \in 1 .. Len(q) + 1 : P(i)
           w == Insert(q, index, x)
<1>1. /\ Len(q) \in Nat
      /\ \A j \in 1 .. Len(q) : q[j] \in S /\ arrival[q[j]] \in Nat
      /\ arrival[x] \in Nat
  OBVIOUS
<1>2. \E i \in 1 .. Len(q) + 1 : P(i)
  <2>1. T \subseteq Nat /\ Len(q) + 1 \in T
    BY <1>1
  <2>2. PICK i \in T : \A k \in T : i <= k
    BY Zenon, <2>1, LeastNatural
  <2>3. \A j \in 1 .. i - 1 : j \notin T
    BY <1>1, <2>1, <2>2
  <2>4. P(i)
    BY <1>1, <2>3
  <2> QED BY <2>4
<1>3. index \in 1 .. Len(q) + 1 /\ P(index)
  BY Zenon, <1>2
<1>4. InsertByArrival(q, x) = w
  BY DEF InsertByArrival
<1> HIDE DEF index
<1>r. Len(q) \in Nat /\ index \in 1 .. Len(q) + 1
  BY <1>1, <1>3
<1>5. /\ w \in Seq(S) /\ Len(w) = Len(q) + 1
      /\ \A j \in 1 .. index - 1 : w[j] = q[j]
      /\ w[index] = x
      /\ \A j \in index .. Len(q) : w[j + 1] = q[j]
  BY <1>3, InsertProperties
<1> HIDE DEF w
<1>6. Range(w) = Range(q) \cup {x}
  <2>1. ASSUME NEW y \in Range(w) PROVE y \in Range(q) \cup {x}
    <3>1. PICK j \in 1 .. Len(q) + 1 : w[j] = y
      BY <1>5, RangeProperties
    <3>2. CASE j = index
      BY <1>5, <3>1, <3>2
    <3>3. CASE j < index
      <4>1. j \in 1 .. Len(q) /\ q[j] = y
        BY <1>1, <1>3, <1>5, <3>1, <3>3
      <4> QED BY <4>1, RangeProperties
    <3>4. CASE j > index
      <4>0. j - 1 \in index .. Len(q) /\ j - 1 \in 1 .. Len(q) /\ (j - 1) + 1 = j
        BY <1>r, <3>4
      <4>1. j - 1 \in 1 .. Len(q) /\ q[j - 1] = y
        BY Zenon, <1>5, <3>1, <4>0
      <4> QED BY <4>1, RangeProperties
    <3> QED BY <1>3, <3>2, <3>3, <3>4
  <2>2. ASSUME NEW y \in Range(q) PROVE y \in Range(w)
    <3>1. PICK j \in 1 .. Len(q) : q[j] = y
      BY RangeProperties
    <3>2. \E k \in 1 .. Len(q) + 1 : w[k] = y
      <4>1. CASE j < index
        <5>1. j \in 1 .. index - 1 /\ j \in 1 .. Len(q) + 1
          BY <1>r, <4>1
        <5> QED BY <1>5, <3>1, <5>1
      <4>2. CASE j >= index
        <5>1. j \in index .. Len(q) /\ j + 1 \in 1 .. Len(q) + 1
          BY <1>r, <4>2
        <5> QED BY Zenon, <1>5, <3>1, <5>1
      <4> QED BY <1>3, <4>1, <4>2
    <3> QED BY Zenon, <1>5, <3>2, RangeProperties
  <2>3. x \in Range(w)
    <3>1. w[index] = x
      BY <1>3, <1>5
    <3> QED BY <1>3, <1>5, <3>1, RangeProperties
  <2> QED BY <2>1, <2>2, <2>3
<1>7. ASSUME Ordered(q), \A y \in Range(q) : arrival[y] # arrival[x]
      PROVE  Ordered(w)
  <2>0. \A j \in 1 .. Len(q) : arrival[q[j]] # arrival[x]
    BY <1>7, RangeProperties
  <2>1. \A j \in 1 .. Len(q) : j < index => arrival[q[j]] < arrival[x]
    BY <1>1, <1>3
  <2>2. \A j \in 1 .. Len(q) : j >= index => arrival[x] < arrival[q[j]]
    <3>1. ASSUME NEW j \in 1 .. Len(q), j >= index PROVE arrival[x] < arrival[q[j]]
      <4>1. index \in 1 .. Len(q) /\ arrival[x] < arrival[q[index]]
        BY <1>1, <1>3, <2>0, <3>1
      <4>2. CASE j = index
        BY <4>1, <4>2
      <4>3. CASE j > index
        <5>1. arrival[q[index]] < arrival[q[j]]
          BY <1>3, <1>7, <4>1, <4>3 DEF Ordered
        <5> QED BY <1>1, <4>1, <5>1
      <4> QED BY <1>3, <3>1, <4>2, <4>3
    <3> QED BY <3>1
  <2>3. ASSUME NEW i \in 1 .. Len(q) + 1, NEW j \in 1 .. Len(q) + 1, i < j
        PROVE  arrival[w[i]] < arrival[w[j]]
    <3>1. CASE j < index
      <4>0. /\ i \in 1 .. index - 1 /\ i \in 1 .. Len(q)
            /\ j \in 1 .. index - 1 /\ j \in 1 .. Len(q)
        BY <1>r, <2>3, <3>1
      <4>1. i \in 1 .. Len(q) /\ j \in 1 .. Len(q) /\ w[i] = q[i] /\ w[j] = q[j]
        BY <1>5, <4>0
      <4> QED BY <1>7, <2>3, <4>1 DEF Ordered
    <3>2. CASE j = index
      <4>0. i \in 1 .. index - 1 /\ i \in 1 .. Len(q)
        BY <1>r, <2>3, <3>2
      <4>1. i \in 1 .. Len(q) /\ i < index /\ w[i] = q[i] /\ w[j] = x
        BY <1>5, <2>3, <3>2, <4>0
      <4> QED BY <2>1, <4>1
    <3>3. CASE i = index
      <4>1. PICK k \in index .. Len(q) : j = k + 1
        <5>1. j - 1 \in index .. Len(q) /\ j = (j - 1) + 1
          BY <1>r, <2>3, <3>3
        <5> QED BY <5>1
      <4>2. k \in 1 .. Len(q) /\ k >= index
        BY <1>r, <4>1
      <4>3. w[i] = x /\ w[j] = q[k]
        BY <1>5, <3>3, <4>1
      <4> QED BY <2>2, <4>2, <4>3
    <3>4. CASE i < index /\ j > index
      <4>1. PICK k \in index .. Len(q) : j = k + 1
        <5>1. j - 1 \in index .. Len(q) /\ j = (j - 1) + 1
          BY <1>r, <2>3, <3>4
        <5> QED BY <5>1
      <4>2. i \in 1 .. index - 1 /\ i \in 1 .. Len(q) /\ k \in 1 .. Len(q) /\ k >= index
        BY <1>r, <3>4, <4>1
      <4>3. w[i] = q[i] /\ w[j] = q[k]
        BY Zenon, <1>5, <4>1, <4>2
      <4>4. arrival[q[i]] < arrival[x] /\ arrival[x] < arrival[q[k]]
        BY <2>1, <2>2, <3>4, <4>2
      <4>5. arrival[q[i]] \in Nat /\ arrival[x] \in Nat /\ arrival[q[k]] \in Nat
        BY <1>1, <4>2
      <4> QED BY <4>3, <4>4, <4>5
    <3>5. CASE i > index
      <4>1. PICK k \in index .. Len(q) : i = k + 1
        <5>1. i - 1 \in index .. Len(q) /\ i = (i - 1) + 1
          BY <1>r, <3>5
        <5> QED BY <5>1
      <4>2. PICK l \in index .. Len(q) : j = l + 1
        <5>1. j - 1 \in index .. Len(q) /\ j = (j - 1) + 1
          BY <1>r, <2>3, <3>5
        <5> QED BY <5>1
      <4>3. k \in 1 .. Len(q) /\ l \in 1 .. Len(q) /\ k < l
        BY <1>r, <2>3, <4>1, <4>2
      <4>4. w[i] = q[k] /\ w[j] = q[l]
        BY Zenon, <1>5, <4>1, <4>2
      <4> QED BY <1>7, <4>3, <4>4 DEF Ordered
    <3> QED BY <1>3, <2>3, <3>1, <3>2, <3>3, <3>4, <3>5
  <2> QED BY <1>5, <2>3 DEF Ordered
<1> QED BY <1>4, <1>5, <1>6, <1>7

\* In a strictly ordered queue no request occurs twice.
LEMMA OrderedDistinct ==
    ASSUME NEW S, S \subseteq Requests, arrival \in [Requests -> Nat],
           NEW q \in Seq(S), Ordered(q)
    PROVE  \A i, j \in 1 .. Len(q) : q[i] = q[j] => i = j
<1>1. Len(q) \in Nat /\ \A i \in 1 .. Len(q) : arrival[q[i]] \in Nat
  OBVIOUS
<1> QED BY <1>1 DEF Ordered

\* Dropping the position k of an ordered queue removes its request only.
LEMMA DropProperties ==
    ASSUME NEW S, S \subseteq Requests, arrival \in [Requests -> Nat],
           NEW q \in Seq(S), NEW k \in 1 .. Len(q), NEW w \in Seq(S), Len(w) = Len(q) - 1,
           \A i \in 1 .. Len(q) - 1 : w[i] = IF i < k THEN q[i] ELSE q[i + 1],
           Ordered(q)
    PROVE  Range(w) = Range(q) \ {q[k]} /\ Ordered(w)
<1> DEFINE n == Len(q)
<1>1. n \in Nat /\ k \in 1 .. n /\ Len(w) = n - 1
  OBVIOUS
<1>2. \A i \in 1 .. n - 1 : i < k => w[i] = q[i] /\ i \in 1 .. n
  BY <1>1
<1>3. \A i \in 1 .. n - 1 : i >= k => w[i] = q[i + 1] /\ i + 1 \in 1 .. n
  BY <1>1
<1>4. \A x : x \in Range(q) <=> \E i \in 1 .. n : q[i] = x
  BY Zenon, RangeProperties
<1>5. \A x : x \in Range(w) <=> \E i \in 1 .. n - 1 : w[i] = x
  BY <1>1, RangeProperties
<1>6. \A i, j \in 1 .. n : q[i] = q[j] => i = j
  BY Zenon, OrderedDistinct
<1>7. \A i, j \in 1 .. n : i < j => arrival[q[i]] < arrival[q[j]]
  BY DEF Ordered
<1> HIDE DEF n
<1>8. ASSUME NEW y \in Range(w) PROVE y \in Range(q) \ {q[k]}
  <2>1. PICK i \in 1 .. n - 1 : w[i] = y
    BY <1>5
  <2>2. CASE i < k
    <3>1. i # k
      BY <1>1, <2>2
    <3>2. i \in 1 .. n /\ q[i] = y
      BY Zenon, <1>2, <2>1, <2>2
    <3> QED BY Zenon, <1>1, <1>4, <1>6, <3>1, <3>2
  <2>3. CASE i >= k
    <3>1. i + 1 # k
      BY <1>1, <2>3
    <3>2. i + 1 \in 1 .. n /\ q[i + 1] = y
      BY Zenon, <1>3, <2>1, <2>3
    <3> QED BY Zenon, <1>1, <1>4, <1>6, <3>1, <3>2
  <2> QED BY <1>1, <2>2, <2>3
<1>9. ASSUME NEW y \in Range(q) \ {q[k]} PROVE y \in Range(w)
  <2>1. PICK j \in 1 .. n : q[j] = y
    BY Zenon, <1>4
  <2>2. CASE j < k
    <3>1. j \in 1 .. n - 1 /\ w[j] = y
      BY <1>1, <1>2, <2>1, <2>2
    <3> QED BY <1>5, <3>1
  <2>3. CASE j > k
    <3>1. j - 1 \in 1 .. n - 1 /\ j - 1 >= k /\ (j - 1) + 1 = j
      BY <1>1, <2>3
    <3>2. w[j - 1] = y
      BY <1>3, <2>1, <3>1
    <3> QED BY <1>5, <3>1, <3>2
  <2> QED BY <1>1, <1>9, <2>1, <2>2, <2>3
<1>10. ASSUME NEW i \in 1 .. n - 1, NEW j \in 1 .. n - 1, i < j
       PROVE  arrival[w[i]] < arrival[w[j]]
  <2>1. CASE j < k
    <3>1. i < k
      BY <1>1, <1>10, <2>1
    <3>2. w[i] = q[i] /\ w[j] = q[j] /\ i \in 1 .. n /\ j \in 1 .. n
      BY <1>2, <2>1, <3>1
    <3> QED BY <1>7, <1>10, <3>2
  <2>2. CASE i < k /\ j >= k
    <3>1. w[i] = q[i] /\ w[j] = q[j + 1] /\ i \in 1 .. n /\ j + 1 \in 1 .. n
      BY <1>2, <1>3, <2>2
    <3>2. i < j + 1
      BY <1>1, <1>10
    <3> QED BY <1>7, <3>1, <3>2
  <2>3. CASE i >= k
    <3>1. j >= k /\ i + 1 < j + 1
      BY <1>1, <1>10, <2>3
    <3>2. w[i] = q[i + 1] /\ w[j] = q[j + 1] /\ i + 1 \in 1 .. n /\ j + 1 \in 1 .. n
      BY <1>3, <2>3, <3>1
    <3> QED BY <1>7, <3>1, <3>2
  <2> QED BY <1>1, <2>1, <2>2, <2>3
<1>11. Ordered(w)
  BY Zenon, <1>1, <1>10 DEF Ordered
<1> QED BY <1>8, <1>9, <1>11

\* waiters[1:] and unused[1:] drop the first request of a queue.
LEMMA TailQueue ==
    ASSUME NEW S, S \subseteq Requests, arrival \in [Requests -> Nat],
           NEW q \in Seq(S), q # <<>>
    PROVE  /\ Head(q) \in S /\ Head(q) \in Range(q)
           /\ Tail(q) \in Seq(S)
           /\ Ordered(q) => Range(Tail(q)) = Range(q) \ {Head(q)} /\ Ordered(Tail(q))
<1>1. /\ Head(q) \in S /\ Tail(q) \in Seq(S) /\ Len(Tail(q)) = Len(q) - 1
      /\ \A i \in 1 .. Len(Tail(q)) : Tail(q)[i] = q[i + 1]
  OBVIOUS
<1>2. Len(q) \in Nat \ {0}
  OBVIOUS
<1>3. Head(q) = q[1]
  BY DEF Head
<1>4. 1 \in 1 .. Len(q)
  BY <1>2
<1>5. Head(q) \in Range(q)
  BY <1>3, <1>4, RangeProperties
<1> DEFINE w == Tail(q)
<1>6. /\ w \in Seq(S) /\ Len(w) = Len(q) - 1
      /\ \A i \in 1 .. Len(q) - 1 : w[i] = IF i < 1 THEN q[i] ELSE q[i + 1]
  BY <1>1, <1>2
<1> HIDE DEF w
<1>7. Ordered(q) => Range(w) = Range(q) \ {q[1]} /\ Ordered(w)
  BY Zenon, <1>4, <1>6, DropProperties
<1> QED BY <1>1, <1>3, <1>5, <1>7 DEF w

\* slices.Delete at the index of a request removes that request.
LEMMA DeleteQueue ==
    ASSUME NEW S, S \subseteq Requests, arrival \in [Requests -> Nat],
           NEW q \in Seq(S), NEW x \in Range(q)
    PROVE  /\ Delete(q, x) \in Seq(S)
           /\ Ordered(q) => Range(Delete(q, x)) = Range(q) \ {x}
                            /\ Ordered(Delete(q, x))
<1> DEFINE I == {i \in 1 .. Len(q) : q[i] = x}
           k == CHOOSE i \in 1 .. Len(q) : q[i] = x /\ \A j \in 1 .. i - 1 : q[j] # x
           a == SubSeq(q, 1, k - 1)
           b == SubSeq(q, k + 1, Len(q))
           w == a \o b
<1>1. Len(q) \in Nat /\ (\A i \in 1 .. Len(q) : q[i] \in S)
  OBVIOUS
<1>2. I # {} /\ I \subseteq Nat
  BY <1>1, RangeProperties
<1>3. k \in I
  <2>1. PICK i \in I : \A j \in I : i <= j
    BY Zenon, <1>2, LeastNatural
  <2>2. \A j \in 1 .. i - 1 : q[j] # x
    BY <1>1, <2>1
  <2> QED BY Zenon, <2>1, <2>2
<1>4. Delete(q, x) = w
  BY DEF Delete
<1> HIDE DEF k
<1>5. k \in 1 .. Len(q) /\ q[k] = x
  BY <1>3
<1>6. /\ a \in Seq(S) /\ Len(a) = k - 1 /\ \A i \in 1 .. k - 1 : a[i] = q[i]
  <2>1. \A i \in 1 .. k - 1 : q[i] \in S
    BY <1>1, <1>5
  <2>2. /\ SubSeq(q, 1, k - 1) \in Seq(S)
        /\ Len(SubSeq(q, 1, k - 1)) = IF 1 <= k - 1 THEN (k - 1) - 1 + 1 ELSE 0
        /\ \A i \in 1 .. (k - 1) - 1 + 1 : SubSeq(q, 1, k - 1)[i] = q[1 + i - 1]
    BY <1>1, <1>5, <2>1, Slice
  <2> QED BY <1>1, <1>5, <2>2
<1>7. /\ b \in Seq(S) /\ Len(b) = Len(q) - k
      /\ \A i \in 1 .. Len(q) - k : b[i] = q[k + i]
  <2>1. \A i \in k + 1 .. Len(q) : q[i] \in S
    BY <1>1, <1>5
  <2>2. /\ SubSeq(q, k + 1, Len(q)) \in Seq(S)
        /\ Len(SubSeq(q, k + 1, Len(q))) =
              IF k + 1 <= Len(q) THEN Len(q) - (k + 1) + 1 ELSE 0
        /\ \A i \in 1 .. Len(q) - (k + 1) + 1 :
              SubSeq(q, k + 1, Len(q))[i] = q[(k + 1) + i - 1]
    BY <1>1, <1>5, <2>1, Slice
  <2> QED BY <1>1, <1>5, <2>2
<1> HIDE DEF a, b
<1>8. /\ w \in Seq(S) /\ Len(w) = Len(a) + Len(b)
      /\ \A i \in 1 .. Len(a) + Len(b) : w[i] = IF i <= Len(a) THEN a[i] ELSE b[i - Len(a)]
  BY <1>6, <1>7, Joined
<1> HIDE DEF w
<1>9. /\ Len(w) = Len(q) - 1
      /\ \A i \in 1 .. Len(q) - 1 : w[i] = IF i < k THEN q[i] ELSE q[i + 1]
  <2>1. Len(a) + Len(b) = Len(q) - 1
    BY <1>1, <1>5, <1>6, <1>7
  <2>2. ASSUME NEW i \in 1 .. Len(q) - 1
        PROVE  w[i] = IF i < k THEN q[i] ELSE q[i + 1]
    <3>1. CASE i < k
      BY <1>1, <1>5, <1>6, <1>8, <2>1, <3>1
    <3>2. CASE i >= k
      <4>1. w[i] = b[i - (k - 1)]
        BY <1>1, <1>5, <1>6, <1>8, <2>1, <3>2
      <4>2. i - (k - 1) \in 1 .. Len(q) - k /\ k + (i - (k - 1)) = i + 1
        BY <1>1, <1>5, <3>2
      <4>3. b[i - (k - 1)] = q[k + (i - (k - 1))]
        BY <1>7, <4>2
      <4> QED BY <1>1, <1>5, <3>2, <4>1, <4>2, <4>3
    <3> QED BY <1>1, <1>5, <3>1, <3>2
  <2> QED BY <1>8, <2>1, <2>2
<1>10. Ordered(q) => Range(w) = Range(q) \ {q[k]} /\ Ordered(w)
  BY Zenon, <1>5, <1>8, <1>9, DropProperties
<1> QED BY <1>4, <1>5, <1>8, <1>10

\* Numbering a request that is not in a queue keeps the queue in order.
LEMMA OrderedKept ==
    ASSUME NEW S, S \subseteq Requests, NEW q \in Seq(S), NEW x, NEW n,
           arrival \in [Requests -> Nat], arrival' = [arrival EXCEPT ![x] = n],
           x \notin Range(q), Ordered(q)
    PROVE  \A i, j \in 1 .. Len(q) : i < j => arrival'[q[i]] < arrival'[q[j]]
<1>1. \A i \in 1 .. Len(q) : q[i] \in Requests /\ q[i] # x
  BY RangeProperties
<1>2. \A i \in 1 .. Len(q) : arrival'[q[i]] = arrival[q[i]]
  BY <1>1
<1> QED BY <1>2 DEF Ordered

\* The tail of intercept fails closed.
LEMMA FailKeepsClosed ==
    ASSUME TypeOK, FailClosed, NEW c \in Candidates, NEW kind \in Kinds, Fail(c, kind),
           cancelled' = cancelled
    PROVE  FailClosed'
<1>1. \A d \in Candidates : pc'[d] = IF d = c THEN "failed" ELSE pc[d]
  BY DEF TypeOK, Fail
<1>2. \A d \in Candidates \ {c} : \A k \in Kinds :
         <<k, d>> \in quarantine' <=> <<k, d>> \in quarantine
  BY DEF Fail
<1>3. c \notin cancelled => <<kind, c>> \in quarantine'
  BY DEF Fail
<1> QED BY <1>1, <1>2, <1>3 DEF FailClosed

-----------------------------------------------------------------------------
(* A candidate up to its claim.                                            *)

USE RequestsAssumption DEF queueVars, idleVars, referenceVars, candidateVars

\* match numbers a request that is in no queue.
LEMMA ArriveConsistent ==
    ASSUME NEW c \in Candidates, Consistent, Arrive(c)
    PROVE  Consistent'
<1>0. \A h \in Hashes :
         /\ unused[h] \in Seq(References) /\ c \notin Range(unused[h])
         /\ waiting[h] \in Seq(Candidates) /\ c \notin Range(waiting[h])
  <2> SUFFICES ASSUME NEW h \in Hashes
               PROVE  /\ unused[h] \in Seq(References) /\ c \notin Range(unused[h])
                      /\ waiting[h] \in Seq(Candidates) /\ c \notin Range(waiting[h])
    OBVIOUS
  <2>1. unused[h] \in Seq(References) /\ waiting[h] \in Seq(Candidates)
    BY DEF Consistent, TypeOK
  <2>2. Range(unused[h]) \subseteq References /\ Range(waiting[h]) \subseteq Candidates
    BY <2>1, RangeProperties
  <2>3. c \notin Range(unused[h]) /\ c \notin Range(waiting[h])
    BY <2>2 DEF Consistent, Arrive, QueuesSound
  <2> QED BY <2>1, <2>3
<1>1. TypeOK'
  BY DEF Consistent, Arrive, Requests, TypeOK, Stages, Timers, Outcomes, Pcs, Kinds
<1>2. ArrivalOrder'
  <2> SUFFICES ASSUME NEW h \in Hashes
               PROVE  /\ \A i, j \in 1 .. Len(unused[h]) :
                            i < j => arrival'[unused[h][i]] < arrival'[unused[h][j]]
                      /\ \A i, j \in 1 .. Len(waiting[h]) :
                            i < j => arrival'[waiting[h][i]] < arrival'[waiting[h][j]]
    BY DEF Arrive, queueVars, ArrivalOrder, Ordered
  <2>1. arrival' = [arrival EXCEPT ![c] = arrivals + 1] /\ arrival \in [Requests -> Nat]
    BY DEF Consistent, TypeOK, Arrive
  <2>2. Ordered(unused[h]) /\ Ordered(waiting[h])
    BY DEF Consistent, ArrivalOrder
  <2>3. References \subseteq Requests /\ Candidates \subseteq Requests
    BY DEF Requests
  <2>4. \A i, j \in 1 .. Len(unused[h]) :
           i < j => arrival'[unused[h][i]] < arrival'[unused[h][j]]
    BY Zenon, <1>0, <2>1, <2>2, <2>3, OrderedKept
  <2>5. \A i, j \in 1 .. Len(waiting[h]) :
           i < j => arrival'[waiting[h][i]] < arrival'[waiting[h][j]]
    BY Zenon, <1>0, <2>1, <2>2, <2>3, OrderedKept
  <2> QED BY <2>4, <2>5
<1>3. FailClosed'
  BY Zenon DEF Consistent, Arrive, Requests, TypeOK, FailClosed
<1>4. Numbered'
  BY DEF Consistent, Arrive, Requests, TypeOK, Numbered
<1>5. QueuesSound'
  BY DEF Consistent, Arrive, Requests, TypeOK, QueuesSound
<1>6. CandidatesSound'
  BY DEF Consistent, Arrive, Requests, TypeOK, CandidatesSound
<1>7. HeldSound'
  BY DEF Consistent, Arrive, Requests, TypeOK, HeldSound, Held
<1>8. QueueExclusion' /\ IdleIsClosed' /\ ReferencesSound'
  BY DEF Consistent, Arrive, Requests, QueueExclusion, IdleIsClosed, InProgress, ReferencesSound
<1> QED BY <1>1, <1>2, <1>3, <1>4, <1>5, <1>6, <1>7, <1>8 DEF Consistent

\* A candidate that cannot be identified was handed nothing.
LEMMA CandidateHashFailsConsistent ==
    ASSUME NEW c \in Candidates, Consistent, CandidateHashFails(c)
    PROVE  Consistent'
<1>1. TypeOK'
  BY DEF Consistent, CandidateHashFails, Requests, TypeOK, Stages, Timers, Outcomes, Pcs,
     Kinds, Fail
<1>2. FailClosed'
  BY FailKeepsClosed DEF Consistent, CandidateHashFails, Kinds
<1>3. Numbered'
  BY DEF Consistent, CandidateHashFails, Requests, TypeOK, Numbered, Fail
<1>4. QueuesSound'
  BY DEF Consistent, CandidateHashFails, Requests, TypeOK, QueuesSound, Fail
<1>5. CandidatesSound'
  BY DEF Consistent, CandidateHashFails, Requests, TypeOK, CandidatesSound, Fail
<1>6. HeldSound'
  <2>1. \A d \in Candidates : Held(d)' = Held(d)
    BY DEF CandidateHashFails, Held
  <2> QED BY <2>1 DEF Consistent, CandidateHashFails, Requests, TypeOK, HeldSound, Fail
<1>7. QueueExclusion' /\ ArrivalOrder' /\ IdleIsClosed' /\ ReferencesSound'
  BY DEF Consistent, CandidateHashFails, Requests, QueueExclusion, ArrivalOrder, Ordered,
     IdleIsClosed, InProgress, ReferencesSound, Fail
<1> QED BY <1>1, <1>2, <1>3, <1>4, <1>5, <1>6, <1>7 DEF Consistent

\* claim takes the first unused reference, which nobody else holds.
LEMMA ClaimUnusedConsistent ==
    ASSUME NEW c \in Candidates, NEW h \in Hashes, Consistent, ClaimUnused(c, h)
    PROVE  Consistent'
<1> DEFINE r == Head(unused[h])
<1>q. /\ unused[h] \in Seq(References) /\ unused[h] # <<>> /\ Ordered(unused[h])
      /\ arrival \in [Requests -> Nat] /\ References \subseteq Requests
  BY DEF Consistent, TypeOK, ArrivalOrder, ClaimUnused, Requests
<1>a. /\ r \in References /\ r \in Range(unused[h])
      /\ Tail(unused[h]) \in Seq(References)
      /\ Range(Tail(unused[h])) = Range(unused[h]) \ {r} /\ Ordered(Tail(unused[h]))
  BY <1>q, TailQueue
<1>c. /\ pending' = [pending EXCEPT ![c] = r]
      /\ timer' = [timer EXCEPT ![r] = IF @ = "armed" THEN "off" ELSE @]
  BY Zenon DEF ClaimUnused
<1> HIDE DEF r
<1>b. /\ hash[r] = h /\ stage[r] \in {"hashed", "finished"}
      /\ timer[r] \in {"armed", "fired"} /\ r \notin abandoned \cup released
      /\ \A d \in Candidates : r \notin Held(d)
  BY <1>a DEF Consistent, QueuesSound, HeldSound
<1>d. \A g \in Hashes : unused'[g] = IF g = h THEN Tail(unused[h]) ELSE unused[g]
  BY DEF Consistent, TypeOK, ClaimUnused
<1>e. \A g \in Hashes : Range(unused'[g]) = Range(unused[g]) \ {r}
  <2>1. \A g \in Hashes \ {h} : r \notin Range(unused[g])
    BY <1>b DEF Consistent, QueuesSound
  <2>2. Range(unused'[h]) = Range(unused[h]) \ {r}
    BY <1>a, <1>d
  <2> QED BY <1>d, <2>1, <2>2
<1>1. TypeOK'
  BY <1>a, <1>c DEF Consistent, ClaimUnused, Requests, TypeOK, Timers, Pcs
<1>2. QueueExclusion'
  BY DEF Consistent, ClaimUnused, Requests, TypeOK, QueueExclusion
<1>3. ArrivalOrder'
  <2>1. \A g \in Hashes : Ordered(unused'[g])
    BY <1>a, <1>d DEF Consistent, ArrivalOrder
  <2> QED BY <2>1 DEF Consistent, ClaimUnused, Requests, ArrivalOrder, Ordered
<1>4. FailClosed'
  BY Zenon DEF Consistent, ClaimUnused, Requests, TypeOK, FailClosed
<1>5. Numbered'
  BY DEF Consistent, ClaimUnused, Requests, TypeOK, Numbered
<1>6. QueuesSound'
  <2>1. \A g \in Hashes : Range(unused[g]) \subseteq References
    BY RangeProperties DEF Consistent, TypeOK
  <2> QED BY <1>c, <1>e, <2>1 DEF Consistent, ClaimUnused, Requests, TypeOK, QueuesSound,
     CandidatesSound
<1>7. ReferencesSound'
  BY <1>a, <1>b, <1>c, <1>e DEF Consistent, ClaimUnused, Requests, TypeOK, ReferencesSound
<1>8. CandidatesSound'
  BY <1>a, <1>c DEF Consistent, ClaimUnused, Requests, TypeOK, CandidatesSound
<1>9. HeldSound'
  <2>1. Held(c)' = {r}
    BY <1>a, <1>c DEF Held, Consistent, CandidatesSound, TypeOK, ClaimUnused
  <2>2. \A d \in Candidates \ {c} : Held(d)' = Held(d)
    BY <1>c DEF Held, Consistent, TypeOK, ClaimUnused
  <2>3. \A d \in Candidates : Held(d) \subseteq References
    BY DEF Held, Consistent, TypeOK
  <2>4. /\ \A x \in References : hash'[x] = hash[x]
        /\ \A d \in Candidates \ {c} : hash'[d] = hash[d] /\ pc'[d] = pc[d]
        /\ hash'[c] = h
    BY DEF Consistent, TypeOK, ClaimUnused, Requests
  <2>5. /\ \A x \in References \ {r} : timer'[x] = timer[x]
        /\ timer'[r] \in {"off", "fired"}
    BY <1>a, <1>b, <1>c DEF Consistent, TypeOK
  <2>6. UNCHANGED <<stage, abandoned, released>>
    BY DEF ClaimUnused
  <2>7. HeldSound
    BY DEF Consistent
  <2> SUFFICES ASSUME NEW d \in Candidates, NEW x \in Held(d)'
               PROVE  /\ hash'[x] = hash'[d] /\ stage'[x] \in {"hashed", "finished"}
                      /\ timer'[x] \in {"off", "fired"}
                      /\ \A e \in Candidates \ {d} : x \notin Held(e)'
                      /\ \A g \in Hashes : x \notin Range(unused'[g])
                      /\ pc'[d] \notin {"failed", "replayed"} => x \notin abandoned' \cup released'
    BY DEF HeldSound
  <2>8. CASE d = c
    BY <1>a, <1>b, <1>e, <2>1, <2>2, <2>4, <2>5, <2>6, <2>8
  <2>9. CASE d # c
    <3>1. x \in Held(d) /\ x \in References /\ x # r
      BY <1>b, <2>2, <2>3, <2>9
    <3>2. /\ hash[x] = hash[d] /\ stage[x] \in {"hashed", "finished"}
          /\ timer[x] \in {"off", "fired"}
          /\ \A e \in Candidates \ {d} : x \notin Held(e)
          /\ \A g \in Hashes : x \notin Range(unused[g])
          /\ pc[d] \notin {"failed", "replayed"} => x \notin abandoned \cup released
      BY <2>7, <3>1 DEF HeldSound
    <3>3. \A e \in Candidates \ {d} : x \notin Held(e)'
      BY <2>1, <2>2, <3>1, <3>2
    <3>4. \A g \in Hashes : x \notin Range(unused'[g])
      BY <1>e, <3>2
    <3> QED BY <2>4, <2>5, <2>6, <2>9, <3>1, <3>2, <3>3, <3>4
  <2> QED BY <2>8, <2>9
<1>10. IdleIsClosed'
  BY DEF Consistent, ClaimUnused, Requests, IdleIsClosed, InProgress
<1> QED BY <1>1, <1>2, <1>3, <1>4, <1>5, <1>6, <1>7, <1>8, <1>9, <1>10 DEF Consistent

\* claim inserts the waiter in arrival order; no reference of its hash is unused.
LEMMA ClaimWaitsConsistent ==
    ASSUME NEW c \in Candidates, NEW h \in Hashes, Consistent, ClaimWaits(c, h)
    PROVE  Consistent'
<1>a. /\ hash[c] = None /\ ready[c] = None /\ pending[c] = None
      /\ \A g \in Hashes : c \notin Range(waiting[g])
  BY DEF Consistent, ClaimWaits, CandidatesSound, QueuesSound
<1> DEFINE w == InsertByArrival(waiting[h], c)
<1>b. /\ w \in Seq(Candidates) /\ Range(w) = Range(waiting[h]) \cup {c} /\ Ordered(w)
  <2>1. /\ waiting[h] \in Seq(Candidates) /\ arrival \in [Requests -> Nat]
        /\ Candidates \subseteq Requests /\ Ordered(waiting[h])
    BY DEF Consistent, TypeOK, ArrivalOrder, Requests
  <2>2. \A y \in Range(waiting[h]) : arrival[y] # arrival[c]
    <3>1. Range(waiting[h]) \subseteq Candidates
      BY <2>1, RangeProperties
    <3>2. arrival[c] # 0
      BY <2>1 DEF Consistent, Numbered, ClaimWaits
    <3>3. \A y \in Requests \ {c} : arrival[y] # arrival[c]
      BY <2>1, <3>2 DEF Consistent, Numbered
    <3> QED BY <1>a, <2>1, <3>1, <3>3
  <2> QED BY <2>1, <2>2, InsertByArrivalProperties
<1>c. waiting' = [waiting EXCEPT ![h] = w]
  BY DEF ClaimWaits
<1> HIDE DEF w
<1>d. \A g \in Hashes : waiting'[g] = IF g = h THEN w ELSE waiting[g]
  BY <1>c DEF Consistent, TypeOK
<1>e. /\ Range(waiting'[h]) = Range(waiting[h]) \cup {c}
      /\ \A g \in Hashes \ {h} : Range(waiting'[g]) = Range(waiting[g])
  <2>1. Range(waiting'[h]) = Range(w)
    BY <1>d
  <2>2. \A g \in Hashes \ {h} : waiting'[g] = waiting[g]
    BY <1>d
  <2> QED BY <1>b, <2>1, <2>2
<1>1. TypeOK'
  BY <1>b, <1>c DEF Consistent, ClaimWaits, Requests, TypeOK, Pcs
<1>2. QueueExclusion'
  BY <1>d DEF Consistent, ClaimWaits, Requests, QueueExclusion
<1>3. ArrivalOrder'
  <2>1. \A g \in Hashes : Ordered(waiting'[g])
    BY <1>b, <1>d DEF Consistent, ArrivalOrder
  <2> QED BY <2>1 DEF Consistent, ClaimWaits, Requests, ArrivalOrder, Ordered
<1>4. FailClosed'
  BY Zenon DEF Consistent, ClaimWaits, Requests, TypeOK, FailClosed
<1>5. Numbered'
  BY DEF Consistent, ClaimWaits, Requests, TypeOK, Numbered
<1>6. QueuesSound'
  <2>1. \A g \in Hashes : Range(unused[g]) \subseteq References
    BY RangeProperties DEF Consistent, TypeOK
  <2>2. \A x \in Requests \ {c} : hash'[x] = hash[x]
    BY DEF Consistent, TypeOK, ClaimWaits
  <2> QED BY <1>a, <1>e, <2>1, <2>2 DEF Consistent, ClaimWaits, Requests, TypeOK, QueuesSound
<1>7. ReferencesSound'
  BY DEF Consistent, ClaimWaits, Requests, TypeOK, ReferencesSound
<1>8. CandidatesSound'
  BY DEF Consistent, ClaimWaits, Requests, TypeOK, CandidatesSound
<1>9. HeldSound'
  BY DEF Consistent, ClaimWaits, Requests, TypeOK, CandidatesSound, HeldSound, Held
<1>10. IdleIsClosed'
  BY DEF Consistent, ClaimWaits, Requests, IdleIsClosed, InProgress
<1> QED BY <1>1, <1>2, <1>3, <1>4, <1>5, <1>6, <1>7, <1>8, <1>9, <1>10 DEF Consistent

=============================================================================

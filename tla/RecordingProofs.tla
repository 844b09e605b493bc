---------------------------- MODULE RecordingProofs ----------------------------
(***************************************************************************)
(* Budgets.  Sums over finite sets (SumFunctionOnSet): a sum is a natural  *)
(* number that bounds its parts, and changing one part changes the sum by  *)
(* as much.  Both follow from the recursion that the sum computes, whose   *)
(* solution is shown to exist, and from least counterexamples: a set of    *)
(* naturals that is not empty has a least element.                         *)
(*                                                                         *)
(* Points: what a point records of a response is charged to its budget     *)
(* until it is released, and what it reports is what it recorded, for any  *)
(* number of exchanges and any limits.  RecordingsLinked is inductive:     *)
(* each budget is the sum of what its own exchanges reserve, and an        *)
(* exchange reserves what it has delivered until it overflows or is        *)
(* released.                                                               *)
(***************************************************************************)
EXTENDS Points, FiniteSetTheorems, TLAPS

USE SMTT(60) DEF recordingVars

\* The element that a sum over s takes first.
First(s) == CHOOSE x \in s : TRUE

\* g has the sums of f over every set in T.
Sums(f, T, g) == g = [s \in T |-> IF s = {} THEN 0 ELSE f[First(s)] + g[s \ {First(s)}]]

\* A set that is not empty has a first element.
LEMMA FirstIsIn == ASSUME NEW s, s # {} PROVE First(s) \in s
BY DEF First

\* Induction on a number: there would be a least natural that P lacks.
LEMMA EveryNatural ==
    ASSUME NEW P, 0 \in P, \A n \in Nat : n \in P => n + 1 \in P
    PROVE  \A n \in Nat : n \in P
<1> DEFINE R == OpToRel(<, Nat)
           T == {n \in Nat : n \notin P}
<1>1. \A m, n \in Nat : m < n => <<m, n>> \in R
  BY DEF OpToRel
<1>2. IsWellFoundedOn(R, Nat)
  BY Zenon, NatLessThanWellFounded
<1> HIDE DEF R
<1> SUFFICES ASSUME T # {} PROVE FALSE
  OBVIOUS
<1>3. PICK x \in T : \A y \in T : ~(<<y, x>> \in R)
  BY Zenon, <1>2, WFMin
<1>4. x \in Nat \ {0} /\ x - 1 \in Nat /\ x - 1 < x
  BY <1>3
<1>5. x - 1 \in P
  BY Zenon, <1>1, <1>3, <1>4
<1>6. (x - 1) + 1 \in P
  BY <1>4, <1>5
<1> QED BY <1>3, <1>4, <1>6

\* Induction on a finite set, one first element at a time.
LEMMA EverySubset ==
    ASSUME NEW S, IsFiniteSet(S), NEW P, {} \in P,
           \A T \in SUBSET S : T # {} /\ T \ {First(T)} \in P => T \in P
    PROVE  \A T \in SUBSET S : T \in P
<1> DEFINE N == {n \in Nat : \A T \in SUBSET S : Cardinality(T) = n => T \in P}
<1>1. \A T \in SUBSET S : IsFiniteSet(T) /\ Cardinality(T) \in Nat
  BY FS_Subset, FS_CardinalityType
<1>2. 0 \in N
  BY <1>1, FS_EmptySet
<1>3. ASSUME NEW n \in Nat, n \in N PROVE n + 1 \in N
  <2> SUFFICES ASSUME NEW T \in SUBSET S, Cardinality(T) = n + 1 PROVE T \in P
    BY <1>3
  <2>1. T # {}
    <3>1. Cardinality({}) = 0
      BY FS_EmptySet
    <3>2. n + 1 # 0
      OBVIOUS
    <3> QED BY <3>1, <3>2
  <2>2. First(T) \in T /\ T \ {First(T)} \in SUBSET S
    BY <2>1, FirstIsIn
  <2>3. Cardinality(T \ {First(T)}) = n
    BY <1>1, <2>2, FS_RemoveElement
  <2> QED BY <1>3, <2>1, <2>2, <2>3
<1> HIDE DEF N
<1>4. \A n \in Nat : n \in N
  BY <1>2, <1>3, EveryNatural
<1> QED BY <1>1, <1>4 DEF N

\* The sum is the one that the recursion of the library defines.
LEMMA SumExpands ==
    ASSUME NEW S, NEW f
    PROVE  SumFunctionOnSet(f, S) = (CHOOSE g : Sums(f, SUBSET S, g))[S]
BY Zenon DEF SumFunctionOnSet, FoldFunctionOnSet, MapThenFoldSet, Sums, First

\* The recursion has a solution over the subsets of a finite set.
LEMMA SumsExist ==
    ASSUME NEW S, IsFiniteSet(S), NEW f
    PROVE  \E g : Sums(f, SUBSET S, g)
<1> DEFINE Small(n) == {T \in SUBSET S : Cardinality(T) <= n}
           N == {n \in Nat : \E g : Sums(f, Small(n), g)}
<1>1. \A T \in SUBSET S :
         IsFiniteSet(T) /\ Cardinality(T) \in Nat /\ Cardinality(T) <= Cardinality(S)
  BY FS_Subset, FS_CardinalityType
<1>2. 0 \in N
  <2>1. \A T \in Small(0) : T = {}
    BY <1>1, FS_EmptySet
  <2> DEFINE g == [T \in Small(0) |-> 0]
  <2>2. Sums(f, Small(0), g)
    BY <2>1 DEF Sums
  <2> QED BY Zenon, <2>2
<1>3. ASSUME NEW n \in Nat, n \in N PROVE n + 1 \in N
  <2>1. PICK g : Sums(f, Small(n), g)
    BY <1>3
  <2> DEFINE h == [T \in Small(n + 1) |-> IF T = {} THEN 0 ELSE f[First(T)] + g[T \ {First(T)}]]
  <2>2. ASSUME NEW T \in Small(n + 1), T # {}
        PROVE  T \ {First(T)} \in Small(n) /\ T \ {First(T)} \in Small(n + 1)
    <3>1. First(T) \in T /\ T \ {First(T)} \in SUBSET S
      BY <2>2, FirstIsIn
    <3>2. Cardinality(T \ {First(T)}) = Cardinality(T) - 1
      BY <1>1, <3>1, FS_RemoveElement
    <3> QED BY <1>1, <3>1, <3>2
  <2>3. ASSUME NEW T \in Small(n) PROVE T \in Small(n + 1) /\ h[T] = g[T]
    <3>1. T \in Small(n + 1)
      BY <1>1
    <3>2. g[T] = IF T = {} THEN 0 ELSE f[First(T)] + g[T \ {First(T)}]
      BY Zenon, <2>1 DEF Sums
    <3> QED BY <3>1, <3>2
  <2>4. h = [T \in Small(n + 1) |-> IF T = {} THEN 0 ELSE f[First(T)] + h[T \ {First(T)}]]
    <3>1. ASSUME NEW T \in Small(n + 1), T # {} PROVE g[T \ {First(T)}] = h[T \ {First(T)}]
      <4> HIDE DEF h, Small
      <4> QED BY <2>2, <2>3, <3>1
    <3> HIDE DEF Small
    <3> QED BY Zenon, <3>1
  <2>5. Sums(f, Small(n + 1), h)
    BY Zenon, <2>4 DEF Sums
  <2>6. \E j : Sums(f, Small(n + 1), j)
    BY Zenon, <2>5
  <2> HIDE DEF Small
  <2> QED BY <2>6
<1>4. Cardinality(S) \in Nat
  BY FS_CardinalityType
<1>5. Cardinality(S) \in N
  <2> HIDE DEF N
  <2> QED BY <1>2, <1>3, <1>4, EveryNatural
<1>6. Small(Cardinality(S)) = SUBSET S
  BY <1>1
<1> QED BY Zenon, <1>5, <1>6

\* The sums of f over the subsets of S.
SumsOf(f, S) == CHOOSE g : Sums(f, SUBSET S, g)

\* g has the sum over S, and takes the first element off every subset.
Steps(f, S, g) ==
    /\ SumFunctionOnSet(f, S) = g[S]
    /\ g[{}] = 0
    /\ \A T \in SUBSET S : T # {} => First(T) \in T /\ g[T] = f[First(T)] + g[T \ {First(T)}]

\* The sums of f, as SumFunctionOnSet computes them, satisfy the recursion.
LEMMA SumSteps ==
    ASSUME NEW S, IsFiniteSet(S), NEW f
    PROVE  Steps(f, S, SumsOf(f, S))
<1>1. Sums(f, SUBSET S, SumsOf(f, S))
  BY Zenon, SumsExist DEF SumsOf
<1> QED BY Zenon, <1>1, SumExpands, FirstIsIn DEF Sums, SumsOf, Steps

\* A sum of naturals is a natural, at least each of its parts, and zero if they all are.
LEMMA SumBounds ==
    ASSUME NEW S, IsFiniteSet(S), NEW f, \A x \in S : f[x] \in Nat
    PROVE  /\ SumFunctionOnSet(f, S) \in Nat
           /\ \A x \in S : f[x] <= SumFunctionOnSet(f, S)
           /\ (\A x \in S : f[x] = 0) => SumFunctionOnSet(f, S) = 0
<1> DEFINE g == SumsOf(f, S)
           P == {T \in SUBSET S : /\ g[T] \in Nat /\ \A x \in T : f[x] <= g[T]
                                  /\ (\A x \in S : f[x] = 0) => g[T] = 0}
<1>1. Steps(f, S, g)
  BY SumSteps
<1> HIDE DEF g
<1>2. {} \in P
  BY <1>1 DEF Steps
<1>3. ASSUME NEW T \in SUBSET S, T # {}, T \ {First(T)} \in P PROVE T \in P
  <2>1. First(T) \in T /\ g[T] = f[First(T)] + g[T \ {First(T)}] /\ f[First(T)] \in Nat
    BY <1>1, <1>3 DEF Steps
  <2>2. g[T \ {First(T)}] \in Nat /\ \A x \in T \ {First(T)} : f[x] <= g[T \ {First(T)}]
    BY <1>3
  <2>3. g[T] \in Nat
    BY <2>1, <2>2
  <2>4. ASSUME NEW x \in T PROVE f[x] <= g[T]
    <3>1. f[x] \in Nat
      OBVIOUS
    <3>2. CASE x = First(T)
      BY <2>1, <2>2, <3>2
    <3>3. CASE x # First(T)
      <4>1. f[x] <= g[T \ {First(T)}]
        BY <2>2, <3>3
      <4> QED BY <2>1, <2>2, <3>1, <4>1
    <3> QED BY <3>2, <3>3
  <2>5. (\A x \in S : f[x] = 0) => g[T] = 0
    BY <1>3, <2>1
  <2> QED BY <2>3, <2>4, <2>5
<1>4. S \in P
  <2> HIDE DEF P
  <2> QED BY <1>2, <1>3, EverySubset
<1> QED BY <1>1, <1>4 DEF Steps

\* On S, f and h have integers that may differ at x alone.
DifferAt(x, f, h, S) == \A y \in S : f[y] \in Int /\ h[y] \in Int /\ (y # x => h[y] = f[y])

\* A change of one part changes the sum by as much.
LEMMA SumChanges ==
    ASSUME NEW S, IsFiniteSet(S), NEW f, NEW h, NEW x, DifferAt(x, f, h, S)
    PROVE  /\ x \in S => SumFunctionOnSet(h, S) = SumFunctionOnSet(f, S) - f[x] + h[x]
           /\ x \notin S => SumFunctionOnSet(h, S) = SumFunctionOnSet(f, S)
<1> DEFINE g == SumsOf(f, S)
           k == SumsOf(h, S)
           P == {T \in SUBSET S : /\ g[T] \in Int /\ k[T] \in Int
                                  /\ x \in T => k[T] = g[T] - f[x] + h[x]
                                  /\ x \notin T => k[T] = g[T]}
<1>1. Steps(f, S, g)
  BY SumSteps
<1>2. Steps(h, S, k)
  BY SumSteps
<1> HIDE DEF g, k
<1>3. {} \in P
  <2>1. g[{}] \in Int /\ k[{}] \in Int /\ k[{}] = g[{}]
    BY <1>1, <1>2 DEF Steps
  <2> QED BY <2>1
<1>4. ASSUME NEW T \in SUBSET S, T # {}, T \ {First(T)} \in P PROVE T \in P
  <2> DEFINE e == First(T)
             U == T \ {e}
  <2>1. e \in T /\ g[T] = f[e] + g[U] /\ k[T] = h[e] + k[U] /\ f[e] \in Int /\ h[e] \in Int
    BY Zenon, <1>1, <1>2, <1>4 DEF Steps, DifferAt
  <2>2. /\ g[U] \in Int /\ k[U] \in Int
        /\ x \in U => k[U] = g[U] - f[x] + h[x]
        /\ x \notin U => k[U] = g[U]
    BY <1>4
  <2>3. CASE x = e
    <3>1. x \notin U /\ x \in T
      BY <2>1, <2>3
    <3> HIDE DEF e, U
    <3> QED BY <2>1, <2>2, <2>3, <3>1
  <2>4. CASE x # e
    <3>1. h[e] = f[e] /\ (x \in U <=> x \in T) /\ (x \in T => f[x] \in Int /\ h[x] \in Int)
      BY <2>1, <2>4 DEF DifferAt
    <3> HIDE DEF e, U
    <3> QED BY <2>1, <2>2, <2>4, <3>1
  <2> QED BY <2>3, <2>4
<1>5. S \in P
  <2> HIDE DEF P
  <2> QED BY <1>3, <1>4, EverySubset
<1> QED BY <1>1, <1>2, <1>5 DEF Steps

-----------------------------------------------------------------------------
(* What the points record of responses and report of them.                 *)


\* The recording of an exchange, before and after its report.
Recorded(x) ==
    /\ x \in whole <=> result[x] = "complete"
    /\ x \in overBudget \cup released => reserved[x] = 0
    /\ x \notin overBudget \cup released => reserved[x] = delivered[x]
    /\ handler[x] \in {"new", "sending"} => result[x] = "open"
    /\ handler[x] = "copying" => result[x] \in {"open", "complete"}
    /\ handler[x] = "returned" => result[x] # "cut"
    /\ replay[x] = "response" => x \in whole

\* The report r of an exchange that is done.
Justified(x, r) ==
    /\ r[1] = "response" =>
          /\ x \notin overBudget
          /\ result[x] = "complete" \/ replaysFailures(x)
    /\ point[x] = "ingressReference" /\ result[x] = "cut" => r = <<"unable", "cancelled">>

Reports == {"response", "unable"} \X {"asRequest", "cancelled"}

\* An exchange is reported once, as it is done; only then can it be released.
Reported(x) ==
    /\ handler[x] # "done" => reports[x] = <<>> /\ x \notin released
    /\ handler[x] = "done" => \E r \in Reports : reports[x] = <<r>> /\ Justified(x, r)

\* The exchanges that a budget pays for.
Payers(b) == {x \in Exchanges : budget(x) = b}

\* Every budget is charged for what is recorded.
Charged == \A b \in Exchanges \cup {Shared} : used[b] = SumFunctionOnSet(reserved, Payers(b))

\* The inductive invariant.
RecordingsLinked ==
    /\ TypeOK
    /\ Charged
    /\ \A x \in Exchanges : Recorded(x) /\ Reported(x)

\* Nothing of exchange y changes.
Untouched(y) ==
    /\ point'[y] = point[y] /\ handler'[y] = handler[y] /\ result'[y] = result[y]
    /\ reserved'[y] = reserved[y] /\ delivered'[y] = delivered[y]
    /\ reports'[y] = reports[y] /\ replay'[y] = replay[y]
    /\ y \in overBudget' <=> y \in overBudget
    /\ y \in released' <=> y \in released
    /\ y \in whole' <=> y \in whole

\* A step of one exchange leaves the others as they were.
LEMMA OneStep ==
    ASSUME RecordingsLinked, NEW x \in Exchanges, TypeOK', Charged', Recorded(x)', Reported(x)',
           \A y \in Exchanges : y # x => Untouched(y)
    PROVE  RecordingsLinked'
<1> SUFFICES ASSUME NEW y \in Exchanges, y # x PROVE Recorded(y)' /\ Reported(y)'
  BY DEF RecordingsLinked
<1>1. Recorded(y) /\ Reported(y) /\ Untouched(y)
  BY DEF RecordingsLinked
<1>2. Recorded(y)'
  BY <1>1 DEF Recorded, Untouched
<1>3. \A r : Justified(y, r) => Justified(y, r)'
  BY <1>1 DEF Justified, Untouched, replaysFailures
<1>4. Reported(y)'
  BY <1>1, <1>3 DEF Reported, Untouched
<1> QED BY <1>2, <1>4

\* A step that leaves the budgets and the recorded bytes alone keeps them charged.
LEMMA StillCharged ==
    ASSUME RecordingsLinked, UNCHANGED <<point, reserved, used>>
    PROVE  Charged'
BY DEF RecordingsLinked, Charged, Payers, budget

\* Every exchange pays into one budget, and a budget has finitely many payers.
LEMMA PayerTypes ==
    ASSUME TypeOK, NEW x \in Exchanges
    PROVE  /\ budget(x) \in Exchanges \cup {Shared} /\ x \in Payers(budget(x))
           /\ \A b : IsFiniteSet(Payers(b)) /\ Payers(b) \subseteq Exchanges
<1>1. \A b : Payers(b) \in SUBSET Exchanges
  BY DEF Payers
<1>2. \A b : IsFiniteSet(Payers(b))
  BY <1>1, FS_Subset, PointsAssumption
<1> QED BY <1>1, <1>2 DEF budget, Payers

\* A body never takes more than its budget is charged.
LEMMA PaidFor ==
    ASSUME RecordingsLinked, NEW x \in Exchanges
    PROVE  /\ reserved[x] \in Nat /\ used[budget(x)] \in 0 .. Limit
           /\ reserved[x] <= used[budget(x)]
<1>1. /\ budget(x) \in Exchanges \cup {Shared} /\ x \in Payers(budget(x))
      /\ IsFiniteSet(Payers(budget(x))) /\ Payers(budget(x)) \subseteq Exchanges
  BY PayerTypes DEF RecordingsLinked
<1>2. \A y \in Payers(budget(x)) : reserved[y] \in Nat
  BY <1>1, PointsAssumption DEF RecordingsLinked, TypeOK
<1>3. reserved[x] <= SumFunctionOnSet(reserved, Payers(budget(x)))
  BY <1>1, <1>2, SumBounds
<1> QED BY <1>1, <1>2, <1>3 DEF RecordingsLinked, Charged, TypeOK

\* A body that changes, and its budget by as much, keeps every budget charged.
LEMMA Recharged ==
    ASSUME RecordingsLinked, NEW x \in Exchanges, NEW v \in Nat, NEW w \in Int, UNCHANGED point,
           reserved' = [reserved EXCEPT ![x] = v],
           used' = [used EXCEPT ![budget(x)] = w],
           w = used[budget(x)] - reserved[x] + v, w <= Limit
    PROVE  /\ Charged'
           /\ reserved' \in [Exchanges -> 0 .. Limit]
           /\ used' \in [Exchanges \cup {Shared} -> 0 .. Limit]
<1>1. /\ budget(x) \in Exchanges \cup {Shared} /\ x \in Payers(budget(x))
      /\ \A b : IsFiniteSet(Payers(b)) /\ Payers(b) \subseteq Exchanges
  BY PayerTypes DEF RecordingsLinked
<1>2. reserved[x] \in Nat /\ used[budget(x)] \in 0 .. Limit /\ reserved[x] <= used[budget(x)]
  BY PaidFor
<1>3. v \in 0 .. Limit /\ w \in 0 .. Limit
  BY <1>2, PointsAssumption
<1>4. reserved' \in [Exchanges -> 0 .. Limit]
  BY <1>3 DEF RecordingsLinked, TypeOK
<1>5. used' \in [Exchanges \cup {Shared} -> 0 .. Limit]
  BY <1>1, <1>3 DEF RecordingsLinked, TypeOK
<1>6. \A b : Payers(b)' = Payers(b)
  BY DEF Payers, budget
<1>7. ASSUME NEW b \in Exchanges \cup {Shared}
      PROVE  used'[b] = SumFunctionOnSet(reserved', Payers(b))
  <2>1. DifferAt(x, reserved, reserved', Payers(b))
    BY <1>1, <1>4, PointsAssumption DEF RecordingsLinked, TypeOK, DifferAt
  <2>2. reserved'[x] = v
    BY DEF RecordingsLinked, TypeOK
  <2>3. /\ x \in Payers(b) => SumFunctionOnSet(reserved', Payers(b))
                               = SumFunctionOnSet(reserved, Payers(b)) - reserved[x] + reserved'[x]
        /\ x \notin Payers(b) =>
              SumFunctionOnSet(reserved', Payers(b)) = SumFunctionOnSet(reserved, Payers(b))
    <3> DEFINE S == Payers(b)
    <3>1. IsFiniteSet(S) /\ DifferAt(x, reserved, reserved', S)
      BY <1>1, <2>1
    <3> HIDE DEF S
    <3>2. \A h : DifferAt(x, reserved, h, S) =>
             /\ x \in S => SumFunctionOnSet(h, S) =
                             SumFunctionOnSet(reserved, S) - reserved[x] + h[x]
             /\ x \notin S => SumFunctionOnSet(h, S) = SumFunctionOnSet(reserved, S)
      BY <3>1, SumChanges
    <3> QED BY <3>1, <3>2, Zenon DEF S
  <2>4. used[b] = SumFunctionOnSet(reserved, Payers(b))
    BY DEF RecordingsLinked, Charged
  <2>5. CASE b = budget(x)
    BY <1>1, <2>2, <2>3, <2>4, <2>5 DEF RecordingsLinked, TypeOK
  <2>6. CASE b # budget(x)
    BY <1>1, <2>3, <2>4, <2>6 DEF RecordingsLinked, TypeOK, Payers
  <2> QED BY <2>5, <2>6
<1>8. Charged'
  BY Zenon, <1>6, <1>7 DEF Charged
<1> QED BY <1>4, <1>5, <1>8

\* finish sets the result of an open recording and no other.
LEMMA Finished ==
    ASSUME TypeOK, NEW x \in Exchanges, NEW outcome \in {"complete", "failed", "cut"},
           finish(x, outcome)
    PROVE  /\ result' \in [Exchanges -> {"open", "complete", "failed", "cut"}]
           /\ result'[x] = IF result[x] = "open" THEN outcome ELSE result[x]
           /\ \A y \in Exchanges : y # x => result'[y] = result[y]
BY DEF TypeOK, finish

\* The handler moves before its report, and at most finishes the recording.
LEMMA HandlerMoves ==
    ASSUME RecordingsLinked, NEW x \in Exchanges, handler[x] # "done",
           NEW h \in {"sending", "copying", "returned", "panicking"},
           handler' = [handler EXCEPT ![x] = h],
           UNCHANGED <<point, overBudget, reserved, released, used, delivered, whole, reports,
                       replay>>,
           \/ UNCHANGED result
           \/ \E outcome \in {"failed", "cut"} : finish(x, outcome),
           h = "sending" => result'[x] = "open",
           h = "copying" => result'[x] \in {"open", "complete"},
           h = "returned" => result'[x] # "cut"
    PROVE  RecordingsLinked'
<1>0. TypeOK /\ Recorded(x) /\ Reported(x)
  BY DEF RecordingsLinked
<1>1. /\ result' \in [Exchanges -> {"open", "complete", "failed", "cut"}]
      /\ \A y \in Exchanges : y # x => result'[y] = result[y]
      /\ result'[x] = "complete" <=> result[x] = "complete"
  <2>1. CASE UNCHANGED result
    BY <1>0, <2>1 DEF TypeOK
  <2>2. ASSUME NEW outcome \in {"failed", "cut"}, finish(x, outcome)
        PROVE  /\ result' \in [Exchanges -> {"open", "complete", "failed", "cut"}]
               /\ \A y \in Exchanges : y # x => result'[y] = result[y]
               /\ result'[x] = "complete" <=> result[x] = "complete"
    BY <1>0, <2>2, Finished DEF TypeOK
  <2> QED BY <2>1, <2>2
<1>2. TypeOK'
  BY <1>0, <1>1 DEF TypeOK
<1>3. Charged'
  BY StillCharged
<1>4. handler'[x] = h /\ \A y \in Exchanges : y # x => Untouched(y)
  BY <1>0, <1>1 DEF TypeOK, Untouched
<1>5. Recorded(x)'
  BY <1>0, <1>1, <1>4 DEF Recorded
<1>6. Reported(x)'
  BY <1>0, <1>4 DEF Reported
<1> QED BY <1>2, <1>3, <1>4, <1>5, <1>6, OneStep

\* The tee reads bytes into the recording, or past it.
LEMMA CopyKeeps ==
    ASSUME RecordingsLinked, NEW x \in Exchanges, NEW n \in Sizes, CopyBytes(x, n)
    PROVE  RecordingsLinked'
<1> USE PointsAssumption DEF Sizes
<1>0. /\ TypeOK /\ Recorded(x) /\ Reported(x)
      /\ handler[x] = "copying" /\ n \in Nat \ {0} /\ delivered[x] \in Nat /\ reserved[x] \in Nat
      /\ delivered' = [delivered EXCEPT ![x] = @ + n] /\ delivered[x] + n <= MaxBytes
      /\ UNCHANGED <<point, handler, result, released, whole, reports, replay>>
  BY DEF RecordingsLinked, TypeOK, CopyBytes
<1>1. delivered' \in [Exchanges -> 0 .. MaxBytes] /\ delivered'[x] = delivered[x] + n
  BY <1>0 DEF TypeOK
<1>2. /\ used[budget(x)] \in 0 .. Limit /\ reserved[x] <= used[budget(x)]
      /\ budget(x) \in Exchanges \cup {Shared}
  BY <1>0, PaidFor, PayerTypes
<1>r. Reported(x)'
  BY <1>0 DEF Reported
<1>3. CASE (x \in released \/ x \in overBudget) /\ UNCHANGED <<overBudget, reserved, used>>
  <2>1. TypeOK' /\ Charged'
    BY <1>0, <1>1, <1>3, StillCharged DEF TypeOK
  <2>2. Recorded(x)' /\ \A y \in Exchanges : y # x => Untouched(y)
    BY <1>0, <1>1, <1>3 DEF TypeOK, Recorded, Untouched
  <2> QED BY <1>r, <2>1, <2>2, OneStep
<1>4. CASE /\ x \notin released /\ x \notin overBudget
           /\ overBudget' = overBudget \cup {x}
           /\ dropBody(x)
  <2> DEFINE w == used[budget(x)] - reserved[x]
  <2>1. /\ reserved' = [reserved EXCEPT ![x] = 0]
        /\ used' = [used EXCEPT ![budget(x)] = w]
        /\ w \in Int /\ w = used[budget(x)] - reserved[x] + 0 /\ w <= Limit
    BY <1>0, <1>2, <1>4 DEF dropBody, TypeOK
  <2>2. /\ Charged' /\ reserved' \in [Exchanges -> 0 .. Limit]
        /\ used' \in [Exchanges \cup {Shared} -> 0 .. Limit]
    <3> HIDE DEF w
    <3> QED BY Zenon, <1>0, <2>1, Recharged
  <2>3. TypeOK' /\ Recorded(x)' /\ \A y \in Exchanges : y # x => Untouched(y)
    BY <1>0, <1>1, <1>4, <2>1, <2>2 DEF TypeOK, Recorded, Untouched
  <2> QED BY <1>r, <2>2, <2>3, OneStep
<1>5. CASE /\ x \notin released /\ x \notin overBudget
           /\ used[budget(x)] + n <= Limit
           /\ reserved' = [reserved EXCEPT ![x] = @ + n]
           /\ used' = [used EXCEPT ![budget(x)] = @ + n]
           /\ UNCHANGED overBudget
  <2> DEFINE v == reserved[x] + n
             w == used[budget(x)] + n
  <2>0. v \in Nat /\ w \in Int /\ w = used[budget(x)] - reserved[x] + v /\ w <= Limit
    BY <1>0, <1>2, <1>5
  <2>1. reserved' = [reserved EXCEPT ![x] = v] /\ used' = [used EXCEPT ![budget(x)] = w]
    BY <1>5
  <2>2. /\ Charged' /\ reserved' \in [Exchanges -> 0 .. Limit]
        /\ used' \in [Exchanges \cup {Shared} -> 0 .. Limit]
    <3> HIDE DEF v, w
    <3> QED BY Zenon, <1>0, <2>0, <2>1, Recharged
  <2>3. TypeOK' /\ Recorded(x)' /\ \A y \in Exchanges : y # x => Untouched(y)
    BY <1>0, <1>1, <1>5, <2>1, <2>2 DEF TypeOK, Recorded, Untouched
  <2> QED BY <1>r, <2>2, <2>3, OneStep
<1> QED BY <1>3, <1>4, <1>5 DEF CopyBytes, write

\* Whoever releases it, what a recording held is returned to its budget.
LEMMA Freed ==
    ASSUME RecordingsLinked, NEW x \in Exchanges, Release(x), UNCHANGED point
    PROVE  /\ Charged' /\ reserved' \in [Exchanges -> 0 .. Limit]
           /\ used' \in [Exchanges \cup {Shared} -> 0 .. Limit]
           /\ released' \in SUBSET Exchanges /\ x \in released' /\ reserved'[x] = 0
           /\ \A y \in Exchanges : y # x =>
                 reserved'[y] = reserved[y] /\ (y \in released' <=> y \in released)
<1>1. /\ TypeOK /\ used[budget(x)] \in 0 .. Limit
      /\ reserved[x] \in Nat /\ reserved[x] <= used[budget(x)]
  BY PaidFor DEF RecordingsLinked
<1> DEFINE w == used[budget(x)] - reserved[x]
<1>2. w \in Int /\ w = used[budget(x)] - reserved[x] + 0 /\ w <= Limit
  BY <1>1, PointsAssumption
<1>d. reserved' = [reserved EXCEPT ![x] = 0] /\ used' = [used EXCEPT ![budget(x)] = w]
  BY DEF Release, dropBody
<1>3. /\ Charged' /\ reserved' \in [Exchanges -> 0 .. Limit]
      /\ used' \in [Exchanges \cup {Shared} -> 0 .. Limit]
  <2> HIDE DEF w
  <2> QED BY Zenon, <1>2, <1>d, Recharged
<1> QED BY <1>1, <1>d, <1>3 DEF Release, TypeOK

\* The first report of an exchange is its only one.
LEMMA FirstReport ==
    ASSUME RecordingsLinked, NEW x \in Exchanges, handler[x] # "done", NEW r \in Reports,
           reports' = [reports EXCEPT ![x] = Append(@, r)]
    PROVE  /\ reports'[x] = <<r>> /\ \A y \in Exchanges : y # x => reports'[y] = reports[y]
           /\ reports' \in [Exchanges -> Seq(Reports)]
<1>1. reports \in [Exchanges -> Seq(Reports)] /\ reports[x] = <<>>
  BY DEF RecordingsLinked, TypeOK, Reported, Reports
<1>2. Append(<<>>, r) = <<r>> /\ <<r>> \in Seq(Reports)
  OBVIOUS
<1> QED BY <1>1, <1>2

\* An egress request without a destination is reported before anything is recorded.
LEMMA NoDestinationKeeps ==
    ASSUME RecordingsLinked, NEW x \in Exchanges, NoDestination(x)
    PROVE  RecordingsLinked'
<1> DEFINE r == <<"unable", "asRequest">>
<1>0. /\ TypeOK /\ Recorded(x) /\ Reported(x) /\ handler[x] = "new" /\ point[x] = "egressReference"
      /\ handler' = [handler EXCEPT ![x] = "done"]
      /\ UNCHANGED <<point, recordingVars, delivered, whole, replay>>
  BY DEF RecordingsLinked, NoDestination
<1>1. r \in Reports /\ r[1] # "response"
  BY DEF Reports
<1>2. /\ reports'[x] = <<r>> /\ \A y \in Exchanges : y # x => reports'[y] = reports[y]
      /\ reports' \in [Exchanges -> Seq(Reports)]
  <2>1. reports' = [reports EXCEPT ![x] = Append(@, r)]
    BY DEF NoDestination
  <2> HIDE DEF r
  <2> QED BY Zenon, <1>0, <1>1, <2>1, FirstReport
<1> HIDE DEF r
<1>3. handler' \in [Exchanges -> {"new", "sending", "copying", "returned", "panicking", "done"}]
      /\ handler'[x] = "done" /\ \A y \in Exchanges : y # x => handler'[y] = handler[y]
  BY <1>0 DEF TypeOK
<1>4. TypeOK'
  BY <1>0, <1>2, <1>3 DEF TypeOK, Reports
<1>5. Charged'
  BY <1>0, StillCharged
<1>6. Recorded(x)'
  BY <1>0, <1>3 DEF Recorded
<1>7. Justified(x, r)'
  BY <1>0, <1>1 DEF Justified
<1>8. Reported(x)'
  BY <1>1, <1>2, <1>3, <1>7 DEF Reported
<1>9. \A y \in Exchanges : y # x => Untouched(y)
  BY <1>0, <1>2, <1>3 DEF Untouched
<1> QED BY <1>4, <1>5, <1>6, <1>8, <1>9, OneStep

\* report passes the recording on or releases it, and the exchange is done.
LEMMA ReportKeeps ==
    ASSUME RecordingsLinked, NEW x \in Exchanges, handler[x] \in {"returned", "panicking"},
           NEW outcome \in {"failed", "cut"}, finish(x, outcome),
           NEW context \in {"asRequest", "cancelled"}, report(x, context),
           handler' = [handler EXCEPT ![x] = "done"],
           UNCHANGED <<point, overBudget, delivered, whole, replay>>,
           point[x] = "ingressReference" /\ result'[x] = "cut" => context = "cancelled"
    PROVE  RecordingsLinked'
<1>0. TypeOK /\ Recorded(x) /\ Reported(x) /\ handler[x] # "done"
  BY DEF RecordingsLinked
<1>1. /\ result' \in [Exchanges -> {"open", "complete", "failed", "cut"}]
      /\ \A y \in Exchanges : y # x => result'[y] = result[y]
      /\ result'[x] = IF result[x] = "open" THEN outcome ELSE result[x]
  BY <1>0, Finished
<1>3. handler' \in [Exchanges -> {"new", "sending", "copying", "returned", "panicking", "done"}]
      /\ handler'[x] = "done" /\ \A y \in Exchanges : y # x => handler'[y] = handler[y]
  BY <1>0 DEF TypeOK
<1>4. PICK kind \in {"response", "unable"} :
         /\ reports' = [reports EXCEPT ![x] = Append(@, <<kind, context>>)]
         /\ kind = "unable" => Release(x)
         /\ kind = "response" => ~Incomplete(x) /\ UNCHANGED <<released, used, reserved>>
         /\ Incomplete(x) => kind = "unable"
  BY DEF report
<1> DEFINE r == <<kind, context>>
<1>5. r \in Reports /\ r[1] = kind
  BY DEF Reports
<1>6. /\ reports'[x] = <<r>> /\ \A y \in Exchanges : y # x => reports'[y] = reports[y]
      /\ reports' \in [Exchanges -> Seq(Reports)]
  <2>1. reports' = [reports EXCEPT ![x] = Append(@, r)]
    BY <1>4
  <2> HIDE DEF r
  <2> QED BY Zenon, <1>0, <1>5, <2>1, FirstReport
<1>7. Justified(x, r)'
  <2>1. kind = "response" =>
           x \notin overBudget' /\ (result'[x] = "complete" \/ replaysFailures(x)')
    BY <1>4 DEF Incomplete, replaysFailures
  <2>2. point'[x] = "ingressReference" /\ result'[x] = "cut" =>
           kind = "unable" /\ context = "cancelled"
    BY <1>4 DEF Incomplete, replaysFailures
  <2> QED BY <1>5, <2>1, <2>2 DEF Justified
<1> HIDE DEF r
<1>8. Reported(x)'
  BY <1>3, <1>5, <1>6, <1>7 DEF Reported
<1>9. CASE kind = "unable"
  <2>1. /\ Charged' /\ reserved' \in [Exchanges -> 0 .. Limit]
        /\ used' \in [Exchanges \cup {Shared} -> 0 .. Limit]
        /\ released' \in SUBSET Exchanges /\ x \in released' /\ reserved'[x] = 0
        /\ \A y \in Exchanges : y # x =>
              reserved'[y] = reserved[y] /\ (y \in released' <=> y \in released)
    BY Zenon, <1>4, <1>9, Freed
  <2>2. TypeOK'
    BY <1>0, <1>1, <1>3, <1>6, <2>1 DEF TypeOK, Reports
  <2>3. Recorded(x)'
    BY <1>0, <1>1, <1>3, <2>1 DEF Recorded
  <2>4. \A y \in Exchanges : y # x => Untouched(y)
    BY <1>1, <1>3, <1>6, <2>1 DEF Untouched
  <2> QED BY <1>8, <2>1, <2>2, <2>3, <2>4, OneStep
<1>10. CASE kind = "response"
  <2>1. UNCHANGED <<released, used, reserved>> /\ Charged'
    BY <1>4, <1>10, StillCharged
  <2>2. TypeOK'
    BY <1>0, <1>1, <1>3, <1>6, <2>1 DEF TypeOK, Reports
  <2>3. Recorded(x)'
    BY <1>0, <1>1, <1>3, <2>1 DEF Recorded
  <2>4. \A y \in Exchanges : y # x => Untouched(y)
    BY <1>1, <1>3, <1>6, <2>1 DEF Untouched
  <2> QED BY <1>8, <2>1, <2>2, <2>3, <2>4, OneStep
<1> QED BY <1>9, <1>10

\* The end of the body completes the recording.
LEMMA BodyEndsKeeps ==
    ASSUME RecordingsLinked, NEW x \in Exchanges, BodyEnds(x)
    PROVE  RecordingsLinked'
<1>0. /\ TypeOK /\ Recorded(x) /\ Reported(x) /\ handler[x] = "copying" /\ x \notin whole
      /\ whole' = whole \cup {x} /\ finish(x, "complete")
      /\ UNCHANGED <<point, handler, overBudget, reserved, released, used, delivered, reports,
                     replay>>
  BY DEF RecordingsLinked, BodyEnds
<1>1. /\ result' \in [Exchanges -> {"open", "complete", "failed", "cut"}]
      /\ \A y \in Exchanges : y # x => result'[y] = result[y]
      /\ result'[x] = IF result[x] = "open" THEN "complete" ELSE result[x]
  BY <1>0, Finished
<1>2. TypeOK' /\ Charged'
  BY <1>0, <1>1, StillCharged DEF TypeOK
<1>3. Recorded(x)'
  BY <1>0, <1>1 DEF Recorded
<1>4. Reported(x)' /\ \A y \in Exchanges : y # x => Untouched(y)
  BY <1>0, <1>1 DEF Reported, Untouched
<1> QED BY <1>2, <1>3, <1>4, OneStep

\* The engine replays and releases what it holds.
LEMMA EngineKeeps ==
    ASSUME RecordingsLinked, NEW x \in Exchanges, RoundTrip(x) \/ EngineReleases(x)
    PROVE  RecordingsLinked'
<1>0. /\ TypeOK /\ Recorded(x) /\ Reported(x) /\ reports[x] # <<>>
      /\ UNCHANGED <<point, handler, result, overBudget, delivered, whole, reports>>
  BY DEF RecordingsLinked, RoundTrip, EngineReleases, Held
<1>1. handler[x] = "done"
  BY <1>0 DEF Reported
<1>2. PICK r \in Reports : reports[x] = <<r>> /\ Justified(x, r)
  BY <1>0, <1>1 DEF Reported
<1>3. Justified(x, r)'
  BY <1>0, <1>2 DEF Justified, replaysFailures
<1>4. Reported(x)'
  BY <1>0, <1>1, <1>2, <1>3 DEF Reported
<1>5. CASE RoundTrip(x)
  <2>1. /\ replay' = [replay EXCEPT ![x] = IF result[x] = "complete" THEN "response" ELSE "failure"]
        /\ UNCHANGED <<reserved, released, used>>
    BY <1>5 DEF RoundTrip
  <2>2. TypeOK' /\ Charged'
    BY <1>0, <2>1, StillCharged DEF TypeOK
  <2>3. Recorded(x)' /\ \A y \in Exchanges : y # x => Untouched(y)
    BY <1>0, <2>1 DEF TypeOK, Recorded, Untouched
  <2> QED BY <1>4, <2>2, <2>3, OneStep
<1>6. CASE EngineReleases(x)
  <2>1. /\ Charged' /\ reserved' \in [Exchanges -> 0 .. Limit]
        /\ used' \in [Exchanges \cup {Shared} -> 0 .. Limit]
        /\ released' \in SUBSET Exchanges /\ x \in released' /\ reserved'[x] = 0
        /\ \A y \in Exchanges : y # x =>
              reserved'[y] = reserved[y] /\ (y \in released' <=> y \in released)
    BY Zenon, <1>0, <1>6, Freed DEF EngineReleases
  <2>2. UNCHANGED replay
    BY <1>6 DEF EngineReleases
  <2>3. TypeOK'
    BY <1>0, <2>1, <2>2 DEF TypeOK
  <2>4. Recorded(x)' /\ \A y \in Exchanges : y # x => Untouched(y)
    BY <1>0, <1>1, <2>1, <2>2 DEF Recorded, Untouched
  <2> QED BY <1>4, <2>1, <2>3, <2>4, OneStep
<1> QED BY <1>5, <1>6

\* Nothing is recorded or charged at first.
LEMMA InitRecorded == Init => RecordingsLinked
<1> SUFFICES ASSUME Init PROVE RecordingsLinked
  OBVIOUS
<1>1. TypeOK
  <2>1. reports \in [Exchanges -> Seq({"response", "unable"} \X {"asRequest", "cancelled"})]
    BY DEF Init
  <2> QED BY <2>1, PointsAssumption DEF Init, TypeOK
<1>2. Charged
  <2> SUFFICES ASSUME NEW b \in Exchanges \cup {Shared}
               PROVE  used[b] = SumFunctionOnSet(reserved, Payers(b))
    BY DEF Charged
  <2>1. IsFiniteSet(Payers(b)) /\ \A x \in Payers(b) : reserved[x] = 0 /\ reserved[x] \in Nat
    <3>1. Payers(b) \in SUBSET Exchanges
      BY DEF Payers
    <3> QED BY <3>1, FS_Subset, PointsAssumption DEF Init
  <2>2. SumFunctionOnSet(reserved, Payers(b)) = 0
    BY <2>1, SumBounds
  <2> QED BY <2>2 DEF Init
<1>3. ASSUME NEW x \in Exchanges PROVE Recorded(x) /\ Reported(x)
  BY DEF Init, Recorded, Reported
<1> QED BY <1>1, <1>2, <1>3 DEF RecordingsLinked

\* Every step keeps the invariant.
LEMMA NextRecorded == RecordingsLinked /\ [Next]_vars => RecordingsLinked'
<1> SUFFICES ASSUME RecordingsLinked, [Next]_vars PROVE RecordingsLinked'
  OBVIOUS
<1>1. ASSUME NEW x \in Exchanges, Handle(x) PROVE RecordingsLinked'
  <2>0. Recorded(x) /\ TypeOK
    BY DEF RecordingsLinked
  <2>1. CASE Send(x)
    BY Zenon, <2>0, <2>1, HandlerMoves DEF Send, Recorded
  <2>2. CASE RoundTripFails(x)
    <3>1. result'[x] # "cut"
      BY <2>0, <2>2, Finished DEF RoundTripFails, Recorded
    <3> QED BY Zenon, <2>2, <3>1, HandlerMoves DEF RoundTripFails
  <2>3. CASE TransportNeverRuns(x)
    BY Zenon, <2>0, <2>3, HandlerMoves DEF TransportNeverRuns, Recorded
  <2>4. CASE StartResponse(x)
    BY Zenon, <2>0, <2>4, HandlerMoves DEF StartResponse, Recorded
  <2>5. CASE BodyBreaks(x) \/ ClientLeaves(x)
    BY <2>5, HandlerMoves DEF BodyBreaks, ClientLeaves
  <2>6. CASE CopyEnds(x)
    BY Zenon, <2>0, <2>6, HandlerMoves DEF CopyEnds, Recorded
  <2>7. CASE ReportReturned(x)
    <3>1. result'[x] # "cut"
      BY <2>0, <2>7, Finished DEF ReportReturned, Recorded
    <3> QED BY Zenon, <2>7, <3>1, ReportKeeps DEF ReportReturned
  <2>8. CASE ReportPanicking(x)
    BY Zenon, <2>8, ReportKeeps DEF ReportPanicking, abortCancels
  <2> QED BY <1>1, <2>1, <2>2, <2>3, <2>4, <2>5, <2>6, <2>7, <2>8, NoDestinationKeeps, CopyKeeps,
             BodyEndsKeeps DEF Handle
<1>2. CASE UNCHANGED vars
  <2>1. TypeOK' /\ Charged'
    BY <1>2, StillCharged DEF vars, RecordingsLinked, TypeOK
  <2>2. ASSUME NEW x \in Exchanges PROVE Recorded(x)' /\ Reported(x)'
    <3>1. \A r : Justified(x, r) => Justified(x, r)'
      BY <1>2 DEF vars, Justified, replaysFailures
    <3> QED BY <1>2, <3>1 DEF vars, RecordingsLinked, Recorded, Reported
  <2> QED BY <2>1, <2>2 DEF RecordingsLinked
<1> QED BY <1>1, <1>2, EngineKeeps DEF Next, Quiescent

\* Whatever recordings overflow, are cut, replayed and released, in any order and twice,
\* each budget is charged for what is recorded; the engine gets whole responses, or
\* failures that it replays, and no client that leaves is blamed on the candidate.
THEOREM RecordingsAreSound == Spec => []RecordingsSound
<1>1. ASSUME RecordingsLinked PROVE RecordingsSound
  <2>1. RecordingConserved
    BY <1>1 DEF RecordingsLinked, RecordingConserved, Charged, Payers
  <2>2. ASSUME NEW x \in Exchanges, Held(x)
        PROVE  /\ x \notin overBudget
               /\ result[x] = "complete" => x \in whole /\ reserved[x] = delivered[x]
               /\ result[x] # "complete" => replaysFailures(x)
               /\ replay[x] = "response" => x \in whole
    <3>1. Recorded(x) /\ Reported(x)
      BY <1>1 DEF RecordingsLinked
    <3>2. PICK r \in Reports : reports[x] = <<r>> /\ Justified(x, r)
      BY <2>2, <3>1 DEF Reported, Held
    <3>3. r[1] = "response" /\ x \notin released
      BY <2>2, <3>2 DEF Held
    <3> QED BY <3>1, <3>2, <3>3 DEF Recorded, Justified
  <2>3. ClientNotBlamed
    <3> SUFFICES ASSUME NEW x \in Exchanges, point[x] = "ingressReference", handler[x] = "done",
                        result[x] = "cut"
                 PROVE  reports[x] = <<<<"unable", "cancelled">>>>
      BY DEF ClientNotBlamed
    <3>1. PICK r \in Reports : reports[x] = <<r>> /\ Justified(x, r)
      BY <1>1 DEF RecordingsLinked, Reported
    <3> QED BY <3>1 DEF Justified
  <2> QED BY <2>1, <2>2, <2>3 DEF RecordingsSound, OnlyWholeResponses
<1> QED BY <1>1, InitRecorded, NextRecorded, PTL DEF Spec

=============================================================================

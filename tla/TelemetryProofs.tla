-------------------------- MODULE TelemetryProofs --------------------------
(***************************************************************************)
(* Theorems about FlowMeter, for every number of bins, interval and        *)
(* longest iteration that satisfy FlowAssumption, and for any number of    *)
(* changes: the incremental sum is the sum of the window, and the estimate *)
(* follows the flow.  Then the types of FlowMeter and TelemetryScheduler   *)
(* together, for any intervals and timeouts, and how long a packet of      *)
(* TelemetryScheduler gives way to others at most, for any intervals that  *)
(* leave enough iterations, as the intervals of the sketch do.             *)
(***************************************************************************)
EXTENDS MCTelemetry, FiniteSetTheorems, TLAPS

Chosen(V) == CHOOSE x \in V : TRUE

\* How many bins were completed after bin b, and how long that took.
Place(b) == IF b < flowWindowIndex THEN flowWindowIndex - 1 - b
            ELSE flowWindowIndex - 1 - b + FLOW_ESTIMATE_BIN_COUNT
Lag(b)   == Place(b) * FLOW_CALC_INTERVAL_MS

\* What is counted fits into what was counted in all.
CountsFit == flowRollingChangeCount + flowChangeCount <= flowTotalChangeCount

\* A count is not older than its place says.
CountsAreYoung ==
    /\ flowChangeCount > 0 => changeAge <= calcAge
    /\ \A b \in Bin : flowWindowChanges[b] > 0 =>
         changeAge <= calcAge + Lag(b) + FLOW_CALC_INTERVAL_MS

\* How far behind the calculation is, stage by stage.
Behind ==
    IF flowWindowBinsFilled = 0
    THEN /\ stage \in {"poll", "calculate"}
         /\ calcAge >= WINDOW + loopAge
         /\ flowChangeCount > 0 => early
    ELSE /\ stage = "poll" =>
              calcAge <= FLOW_CALC_INTERVAL_MS + MaxIteration + loopAge
         /\ stage = "rest" => calcAge < FLOW_CALC_INTERVAL_MS + loopAge
         /\ stage = "calculate" /\ flowChangeCount > 0 =>
              calcAge <= FLOW_CALC_INTERVAL_MS + 2 * MaxIteration

\* The last change is still counted, no further back than it should be, or
\* has been in the window for as long as it should.
LastChangeCounts ==
    changeAge < AgeMax /\ ~early =>
        \/ flowChangeCount > 0
        \/ \E b \in Bin : /\ flowWindowChanges[b] > 0
                          /\ calcAge + Lag(b) <= changeAge + 2 * MaxIteration
        \/ changeAge + 2 * MaxIteration >= WINDOW

IInv ==
    /\ TypeOK
    /\ RollingIsWindowSum
    /\ CountsFit
    /\ CountsAreYoung
    /\ Behind
    /\ LastChangeCounts

\* g is the running sum of f over the sets of D, taken an element at a time.
Sums(g, f, D) ==
    g = [V \in D |-> IF V = {} THEN 0
                     ELSE f[Chosen(V)] + g[V \ {Chosen(V)}]]

\* What the fold of MapThenSumSet computes for each set of bins.
Partial(f, S) == CHOOSE g : Sums(g, f, SUBSET S)

-----------------------------------------------------------------------------
(* Sums over a finite set. *)

\* A family of subsets of a finite set has a minimal member: what these proofs
\* use in the place of induction.
LEMMA MinimalSubset ==
    ASSUME NEW S, IsFiniteSet(S), NEW F \in SUBSET SUBSET S, F # {}
    PROVE  \E T \in F : \A U \in F : U \subseteq T => U = T
<1>1. IsWellFoundedOn(StrictSubsetOrdering(S), FiniteSubsetsOf(S))
  BY FS_StrictSubsetOrderingWellFounded
<1>2. F \subseteq FiniteSubsetsOf(S)
  BY FS_Subset DEF FiniteSubsetsOf
<1>3. PICK T \in F : \A U \in F : <<U, T>> \notin StrictSubsetOrdering(S)
  BY <1>1, <1>2, WFMin
<1>4. ASSUME NEW U \in F, U \subseteq T PROVE U = T
  BY <1>3, <1>4 DEF StrictSubsetOrdering
<1>5. QED
  BY <1>4

\* A nonempty set of numbers has a least element.
LEMMA LeastNumber ==
    ASSUME NEW T \in SUBSET Nat, T # {}
    PROVE  \E m \in T : \A k \in T : m <= k
<1>1. PICK n \in T : TRUE
  OBVIOUS
<1> DEFINE S == 0 .. n
           F == {0 .. k : k \in {j \in T : j <= n}}
<1>2. IsFiniteSet(S)
  <2>1. 0 \in Int /\ n \in Int
    OBVIOUS
  <2>2. QED
    BY <2>1, FS_Interval
<1>3. F \in SUBSET SUBSET S /\ F # {}
  <2>1. \A k \in Nat : k <= n => 0 .. k \subseteq 0 .. n
    OBVIOUS
  <2>2. QED
    BY <2>1
<1>4. PICK s \in F : \A u \in F : u \subseteq s => u = s
  <2> HIDE DEF F, S
  <2>1. QED
    BY <1>2, <1>3, MinimalSubset
<1>5. PICK m \in T : m <= n /\ s = 0 .. m
  BY <1>4
<1>6. ASSUME NEW k \in T PROVE m <= k
  <2>1. SUFFICES ASSUME k < m PROVE FALSE
    OBVIOUS
  <2>2. 0 .. k \in F /\ 0 .. k \subseteq 0 .. m /\ m \in 0 .. m /\ m \notin 0 .. k
    BY <1>5, <2>1
  <2>3. QED
    BY <1>4, <1>5, <2>2
<1>7. QED
  BY <1>6

\* The recursion behind a fold has a solution: by the size of the sets.
LEMMA PartialExists ==
    ASSUME NEW S, IsFiniteSet(S), NEW f
    PROVE  \E g : Sums(g, f, SUBSET S)
<1> DEFINE Small(n) == {V \in SUBSET S : Cardinality(V) <= n}
           Bad == {n \in Nat : ~\E g : Sums(g, f, Small(n))}
<1>1. \A V \in SUBSET S : IsFiniteSet(V) /\ Cardinality(V) \in Nat
                          /\ Cardinality(V) <= Cardinality(S)
  BY FS_Subset, FS_CardinalityType
<1>2. \A V \in SUBSET S : V # {} =>
         /\ Chosen(V) \in V /\ V \ {Chosen(V)} \in SUBSET S
         /\ Cardinality(V \ {Chosen(V)}) = Cardinality(V) - 1
  BY <1>1, FS_RemoveElement DEF Chosen
<1>3. Bad = {}
  <2>1. SUFFICES ASSUME Bad # {} PROVE FALSE
    OBVIOUS
  <2>2. PICK m \in Bad : \A k \in Bad : m <= k
    <3> HIDE DEF Small
    <3>1. Bad \in SUBSET Nat
      OBVIOUS
    <3> HIDE DEF Bad
    <3>2. QED
      BY <2>1, <3>1, LeastNumber
  <2>3. m # 0
    <3>1. Small(0) = {{}}
      BY <1>1, FS_EmptySet
    <3>2. Sums([V \in Small(0) |-> 0], f, Small(0))
      BY <3>1 DEF Sums
    <3>3. QED
      BY <3>2
  <2>4. m \in Nat /\ m - 1 \in Nat
    BY <2>3
  <2>5. m - 1 \notin Bad
    <3> HIDE DEF Bad
    <3>1. QED
      BY <2>2, <2>4
  <2>6. PICK g : Sums(g, f, Small(m - 1))
    <3> HIDE DEF Small
    <3>1. QED
      BY <2>4, <2>5
  <2> DEFINE h == [V \in Small(m) |->
                     IF V = {} THEN 0 ELSE f[Chosen(V)] + g[V \ {Chosen(V)}]]
  <2>7. \A V \in Small(m - 1) : V \in Small(m)
    BY <1>1, <2>4
  <2>8. \A V \in Small(m) : V # {} => V \ {Chosen(V)} \in Small(m - 1)
    BY <1>1, <1>2, <2>4
  <2> HIDE DEF Small
  <2>9. \A V \in Small(m - 1) : h[V] = g[V]
    BY <2>6, <2>7 DEF Sums
  <2>10. \A V \in Small(m) : V # {} => h[V \ {Chosen(V)}] = g[V \ {Chosen(V)}]
    BY <2>8, <2>9
  <2>11. Sums(h, f, Small(m))
    <3> DEFINE r == [V \in Small(m) |->
                       IF V = {} THEN 0 ELSE f[Chosen(V)] + h[V \ {Chosen(V)}]]
    <3>1. \A V \in Small(m) : h[V] = r[V]
      BY <2>10
    <3>2. h = r
      BY <3>1
    <3> HIDE DEF h
    <3>3. QED
      BY <3>2 DEF Sums
  <2>12. QED
    BY <2>2, <2>11
<1>4. Cardinality(S) \in Nat
  BY <1>1
<1>5. Small(Cardinality(S)) = SUBSET S
  BY <1>1
<1> HIDE DEF Small
<1>6. \E g : Sums(g, f, Small(Cardinality(S)))
  BY <1>3, <1>4
<1>7. QED
  BY <1>5, <1>6

\* A sum over V is the chosen member's count and the sum over the others.
LEMMA PartialRecursion ==
    ASSUME NEW S, IsFiniteSet(S), NEW f, NEW V \in SUBSET S
    PROVE  Partial(f, S)[V] =
             IF V = {} THEN 0
             ELSE f[Chosen(V)] + Partial(f, S)[V \ {Chosen(V)}]
<1>1. Sums(Partial(f, S), f, SUBSET S)
  BY PartialExists DEF Partial
<1> DEFINE g == Partial(f, S)
<1>2. g = [U \in SUBSET S |-> IF U = {} THEN 0
                              ELSE f[Chosen(U)] + g[U \ {Chosen(U)}]]
  BY <1>1 DEF Sums
<1> HIDE DEF g
<1>3. QED
  BY <1>2 DEF g

\* To prove something of all partial sums: it holds of the empty set, and of a
\* set when it holds of the set without its chosen element.
LEMMA EverySubset ==
    ASSUME NEW S, IsFiniteSet(S), NEW G \in SUBSET SUBSET S, {} \in G,
           \A V \in SUBSET S : V # {} /\ V \ {Chosen(V)} \in G => V \in G
    PROVE  G = SUBSET S
<1> DEFINE Bad == (SUBSET S) \ G
<1>1. SUFFICES ASSUME Bad # {} PROVE FALSE
  OBVIOUS
<1>2. PICK T \in Bad : \A U \in Bad : U \subseteq T => U = T
  <2>1. Bad \in SUBSET SUBSET S
    OBVIOUS
  <2> HIDE DEF Bad
  <2>2. QED
    BY <1>1, <2>1, MinimalSubset
<1>3. T # {} /\ Chosen(T) \in T
  BY DEF Chosen
<1>4. T \ {Chosen(T)} \in SUBSET S /\ T \ {Chosen(T)} \subseteq T
      /\ T \ {Chosen(T)} # T
  BY <1>3
<1>5. T \ {Chosen(T)} \in G
  BY <1>2, <1>4
<1>6. QED
  BY <1>3, <1>5

\* A sum of counts is a number.
LEMMA PartialType ==
    ASSUME NEW S, IsFiniteSet(S), NEW f \in [S -> Nat]
    PROVE  \A V \in SUBSET S : Partial(f, S)[V] \in Nat
<1> DEFINE G == {V \in SUBSET S : Partial(f, S)[V] \in Nat}
<1>1. {} \in G
  <2>1. {} \in SUBSET S
    OBVIOUS
  <2>2. Partial(f, S)[{}] = 0
    BY <2>1, PartialRecursion
  <2>3. QED
    BY <2>1, <2>2
<1>2. ASSUME NEW V \in SUBSET S, V # {}, V \ {Chosen(V)} \in G PROVE V \in G
  <2>1. Chosen(V) \in V
    BY <1>2 DEF Chosen
  <2>2. Partial(f, S)[V] = f[Chosen(V)] + Partial(f, S)[V \ {Chosen(V)}]
    BY <1>2, PartialRecursion
  <2>3. QED
    BY <1>2, <2>1, <2>2
<1>3. G = SUBSET S
  <2>1. G \in SUBSET SUBSET S
    OBVIOUS
  <2> HIDE DEF G
  <2>2. QED
    BY <1>1, <1>2, <2>1, EverySubset
<1>4. QED
  BY <1>3

\* Replacing the value of one element changes the sums it is part of by the
\* difference.
LEMMA PartialUpdate ==
    ASSUME NEW S, IsFiniteSet(S), NEW f \in [S -> Nat], NEW k \in S, NEW v \in Nat,
           NEW h \in [S -> Nat], \A x \in S : h[x] = IF x = k THEN v ELSE f[x]
    PROVE  \A V \in SUBSET S :
             Partial(h, S)[V] =
               IF k \in V THEN Partial(f, S)[V] - f[k] + v ELSE Partial(f, S)[V]
<1> DEFINE G == {V \in SUBSET S : Partial(h, S)[V] =
                   IF k \in V THEN Partial(f, S)[V] - f[k] + v
                   ELSE Partial(f, S)[V]}
<1>1. \A x \in S : h[x] = IF x = k THEN v ELSE f[x]
  OBVIOUS
<1>2. {} \in G
  <2>1. Partial(f, S)[{}] = 0 /\ Partial(h, S)[{}] = 0
    BY PartialRecursion
  <2>2. QED
    BY <2>1
<1>3. ASSUME NEW V \in SUBSET S, V # {}, V \ {Chosen(V)} \in G PROVE V \in G
  <2> DEFINE c == Chosen(V)
             W == V \ {c}
  <2>1. c \in V /\ W \in SUBSET S
    BY <1>3 DEF Chosen
  <2>2. /\ Partial(f, S)[V] = f[c] + Partial(f, S)[W]
        /\ Partial(h, S)[V] = h[c] + Partial(h, S)[W]
    <3>1. V # {}
      BY <1>3
    <3>2. ASSUME NEW g PROVE Partial(g, S)[V] = g[c] + Partial(g, S)[W]
      <4> HIDE DEF G
      <4>1. Partial(g, S)[V] = IF V = {} THEN 0
                               ELSE g[Chosen(V)] + Partial(g, S)[V \ {Chosen(V)}]
        BY PartialRecursion
      <4>2. QED
        BY <3>1, <4>1
    <3> HIDE DEF c, W, G
    <3>3. QED
      BY <3>2
  <2>3. h[c] \in Nat /\ f[c] \in Nat
    BY <2>1
  <2>4. Partial(f, S)[W] \in Nat
    BY <2>1, PartialType
  <2>5. Partial(h, S)[W] =
          IF k \in W THEN Partial(f, S)[W] - f[k] + v ELSE Partial(f, S)[W]
    BY <1>3
  <2>6. CASE c = k
    BY <1>1, <2>1, <2>2, <2>3, <2>4, <2>5, <2>6
  <2>7. CASE c # k
    BY <1>1, <2>1, <2>2, <2>3, <2>4, <2>5, <2>7
  <2>8. QED
    BY <2>6, <2>7
<1>4. G = SUBSET S
  <2>1. G \in SUBSET SUBSET S
    OBVIOUS
  <2> HIDE DEF G
  <2>2. QED
    BY <1>2, <1>3, <2>1, EverySubset
<1>5. QED
  BY <1>4

\* A sum is zero when all its terms are.
LEMMA PartialZero ==
    ASSUME NEW S, IsFiniteSet(S), NEW f \in [S -> Nat]
    PROVE  \A V \in SUBSET S :
             Partial(f, S)[V] = 0 <=> \A x \in V : f[x] = 0
<1> DEFINE G == {V \in SUBSET S : Partial(f, S)[V] = 0 <=> \A x \in V : f[x] = 0}
<1>1. {} \in G
  <2>1. {} \in SUBSET S
    OBVIOUS
  <2>2. Partial(f, S)[{}] = 0
    BY <2>1, PartialRecursion
  <2>3. QED
    BY <2>1, <2>2
<1>2. ASSUME NEW V \in SUBSET S, V # {}, V \ {Chosen(V)} \in G PROVE V \in G
  <2> DEFINE c == Chosen(V)
             W == V \ {c}
  <2>1. c \in V /\ W \in SUBSET S
    BY <1>2 DEF Chosen
  <2>2. Partial(f, S)[V] = f[c] + Partial(f, S)[W]
    BY <1>2, PartialRecursion
  <2>3. Partial(f, S)[W] \in Nat /\ f[c] \in Nat
    BY <2>1, PartialType
  <2>4. Partial(f, S)[V] = 0 <=> f[c] = 0 /\ Partial(f, S)[W] = 0
    BY <2>2, <2>3
  <2>5. QED
    BY <1>2, <2>1, <2>4
<1>3. G = SUBSET S
  <2>1. G \in SUBSET SUBSET S
    OBVIOUS
  <2> HIDE DEF G
  <2>2. QED
    BY <1>1, <1>2, <2>1, EverySubset
<1>4. QED
  BY <1>3

\* The sum of the window, now and after a step.
LEMMA RollingIsPartial ==
    /\ RollingIsWindowSum <=>
         flowRollingChangeCount = Partial(flowWindowChanges, Bin)[Bin]
    /\ RollingIsWindowSum' <=>
         flowRollingChangeCount' = Partial(flowWindowChanges', Bin)[Bin]
BY DEF RollingIsWindowSum, MapThenSumSet, MapThenFoldSet, Partial, Sums, Chosen

\* The window's bins are finitely many, and a set of bins.
LEMMA BinFinite ==
    ASSUME FlowAssumption
    PROVE  IsFiniteSet(Bin) /\ Bin \in SUBSET Bin
<1>1. 0 \in Int /\ FLOW_ESTIMATE_BIN_COUNT - 1 \in Int
  BY DEF FlowAssumption
<1>2. QED
  BY <1>1, FS_Interval DEF Bin

-----------------------------------------------------------------------------
(* The window as a circle. *)

\* What is needed of products: a bin's interval lies within the window's.
LEMMA Products ==
    ASSUME NEW n \in Nat, NEW i \in Nat, NEW p \in Nat, p < n
    PROVE  /\ p * i \in Nat /\ n * i \in Nat
           /\ (p + 1) * i = p * i + i
           /\ p * i + i <= n * i
           /\ (n - 1) * i = n * i - i
<1>1. n - 1 - p \in Nat
  OBVIOUS
<1>2. PICK d \in Nat : n = p + 1 + d
  BY <1>1
<1>3. d * i \in Nat /\ p * i \in Nat /\ n * i \in Nat
  OBVIOUS
<1>4. n * i = p * i + i + d * i
  BY <1>2
<1>5. QED
  BY <1>3, <1>4

\* The window is at least one bin long, and ages reach well beyond it.
LEMMA WindowFacts ==
    ASSUME FlowAssumption
    PROVE  /\ FLOW_CALC_INTERVAL_MS \in Nat \ {0} /\ MaxIteration \in Nat
           /\ MaxChanges \in Nat /\ AgeMax \in Nat /\ WINDOW \in Nat
           /\ FLOW_ESTIMATE_BIN_COUNT \in Nat \ {0}
           /\ WINDOW >= FLOW_CALC_INTERVAL_MS
           /\ AgeMax > WINDOW + 2 * FLOW_CALC_INTERVAL_MS + 2 * MaxIteration
<1> DEFINE i == FLOW_CALC_INTERVAL_MS
           n == FLOW_ESTIMATE_BIN_COUNT
<1>1. i \in Nat \ {0} /\ n \in Nat \ {0} /\ MaxIteration \in Nat
      /\ MaxChanges \in Nat /\ AgeMax \in Nat
      /\ AgeMax > (n + 2) * i + 2 * MaxIteration
  BY DEF FlowAssumption
<1> HIDE DEF i, n
<1>2. 0 * i + i <= n * i /\ n * i \in Nat
  <2>1. 0 < n /\ 0 \in Nat /\ n \in Nat /\ i \in Nat
    BY <1>1
  <2>2. QED
    BY <2>1, Products
<1>3. (n + 2) * i = n * i + 2 * i
  BY <1>1
<1>4. QED
  BY <1>1, <1>2, <1>3 DEF i, n, WINDOW

\* A bin's lag is less than a window; the bin to be replaced next is the
\* oldest.
LEMMA LagBounds ==
    ASSUME FlowAssumption, flowWindowIndex \in Bin
    PROVE  /\ \A b \in Bin : Lag(b) \in Nat /\ Lag(b) + FLOW_CALC_INTERVAL_MS <= WINDOW
           /\ Lag(flowWindowIndex) = WINDOW - FLOW_CALC_INTERVAL_MS
<1> DEFINE i == FLOW_CALC_INTERVAL_MS
           n == FLOW_ESTIMATE_BIN_COUNT
<1>1. i \in Nat /\ n \in Nat
  BY WindowFacts
<1>2. ASSUME NEW b \in Bin PROVE Place(b) \in Nat /\ Place(b) < n
  BY WindowFacts DEF Bin, Place
<1>3. Place(flowWindowIndex) = n - 1
  BY WindowFacts DEF Bin, Place
<1> HIDE DEF i, n
<1>4. ASSUME NEW b \in Bin PROVE Place(b) * i \in Nat /\ Place(b) * i + i <= n * i
  BY <1>1, <1>2, Products
<1>5. (n - 1) * i = n * i - i
  <2>1. n # 0
    BY WindowFacts DEF n
  <2>2. 0 \in Nat /\ 0 < n
    BY <1>1, <2>1
  <2>3. QED
    BY <1>1, <2>2, Products
<1>6. QED
  BY <1>3, <1>4, <1>5 DEF Lag, WINDOW, i, n

\* Completing a bin makes every other one an interval older.
LEMMA LagMoves ==
    ASSUME FlowAssumption, flowWindowIndex \in Bin,
           flowWindowIndex' = NextBin(flowWindowIndex)
    PROVE  /\ flowWindowIndex' \in Bin
           /\ \A b \in Bin :
                Lag(b)' = IF b = flowWindowIndex THEN 0
                          ELSE Lag(b) + FLOW_CALC_INTERVAL_MS
<1> DEFINE i == FLOW_CALC_INTERVAL_MS
           n == FLOW_ESTIMATE_BIN_COUNT
<1>1. i \in Nat /\ n \in Nat \ {0}
  BY WindowFacts
<1>2. /\ flowWindowIndex \in 0 .. n - 1
      /\ flowWindowIndex' = (flowWindowIndex + 1) % n
  BY DEF Bin, NextBin
<1> HIDE DEF i, n
<1>3. flowWindowIndex' = IF flowWindowIndex + 1 = n THEN 0 ELSE flowWindowIndex + 1
  <2>1. CASE flowWindowIndex + 1 = n
    BY <1>1, <1>2, <2>1
  <2>2. CASE flowWindowIndex + 1 < n
    BY <1>1, <1>2, <2>2
  <2>3. QED
    BY <1>1, <1>2, <2>1, <2>2
<1>4. flowWindowIndex' \in Bin
  BY <1>1, <1>2, <1>3 DEF Bin, n
<1>5. ASSUME NEW b \in Bin
      PROVE  Place(b)' = IF b = flowWindowIndex THEN 0 ELSE Place(b) + 1
  <2>1. b \in 0 .. n - 1
    BY DEF Bin, n
  <2>2. QED
    BY <1>1, <1>2, <1>3, <2>1 DEF Place, n
<1>6. ASSUME NEW b \in Bin
      PROVE  Lag(b)' = IF b = flowWindowIndex THEN 0 ELSE Lag(b) + i
  <2>1. CASE b = flowWindowIndex
    <3>1. 0 * i = 0
      BY <1>1
    <3>2. QED
      BY <1>5, <2>1, <3>1 DEF Lag, i
  <2>2. CASE b # flowWindowIndex
    <3>1. Place(b) \in Nat /\ Place(b) < n
      BY <1>1, <1>2 DEF Bin, Place, n
    <3>2. (Place(b) + 1) * i = Place(b) * i + i
      BY <1>1, <3>1, Products
    <3>3. QED
      BY <1>5, <2>2, <3>2 DEF Lag, i
  <2>3. QED
    BY <2>1, <2>2
<1>7. QED
  BY <1>4, <1>6 DEF i

-----------------------------------------------------------------------------
(* The inductive invariant. *)

\* The invariant holds when begin() has run.
LEMMA IInvInit ==
    ASSUME FlowAssumption, Init
    PROVE  IInv
<1>1. /\ stage = "poll" /\ loopAge = 0 /\ glitch = FALSE /\ flowChangeCount = 0
      /\ calcAge \in WINDOW .. WINDOW + FLOW_CALC_INTERVAL_MS
      /\ flowRollingChangeCount = 0 /\ flowTotalChangeCount = 0
      /\ flowWindowChanges = [b \in Bin |-> 0] /\ flowWindowIndex = 0
      /\ flowWindowBinsFilled = 0 /\ changeAge = AgeMax /\ early = FALSE
  BY DEF Init
<1>2. TypeOK
  <2>1. flowWindowIndex \in Bin
    BY <1>1, WindowFacts DEF Bin
  <2>2. flowWindowChanges \in [Bin -> 0 .. MaxChanges]
    BY <1>1, WindowFacts
  <2>3. calcAge \in Nat /\ loopAge \in 0 .. MaxIteration
        /\ flowWindowBinsFilled \in 0 .. FLOW_ESTIMATE_BIN_COUNT
        /\ changeAge \in 0 .. AgeMax
        /\ {flowChangeCount, flowRollingChangeCount, flowTotalChangeCount}
             \subseteq 0 .. MaxChanges
    BY <1>1, WindowFacts
  <2>4. QED
    BY <1>1, <2>1, <2>2, <2>3 DEF TypeOK
<1>3. RollingIsWindowSum
  <2>1. /\ flowWindowChanges \in [Bin -> Nat]
        /\ \A b \in Bin : flowWindowChanges[b] = 0
    BY <1>1
  <2>2. Partial(flowWindowChanges, Bin)[Bin] = 0
    BY <2>1, BinFinite, PartialZero
  <2>3. QED
    BY <1>1, <2>2, RollingIsPartial
<1>4. CountsFit /\ CountsAreYoung
  BY <1>1 DEF CountsFit, CountsAreYoung
<1>5. Behind
  BY <1>1, WindowFacts DEF Behind
<1>6. LastChangeCounts
  BY <1>1, WindowFacts DEF LastChangeCounts
<1>7. QED
  BY <1>2, <1>3, <1>4, <1>5, <1>6 DEF IInv

\* A step that leaves the window alone keeps its sum and its lags.
LEMMA WindowKept ==
    ASSUME RollingIsWindowSum, UNCHANGED window
    PROVE  RollingIsWindowSum' /\ \A b \in Bin : Lag(b)' = Lag(b)
BY RollingIsPartial DEF window, Lag, Place

\* A millisecond ages every mark alike.
LEMMA ElapseKeeps ==
    ASSUME FlowAssumption, IInv, Elapse
    PROVE  IInv'
<1>1. /\ stage # "calculate" /\ loopAge < MaxIteration
      /\ loopAge' = loopAge + 1 /\ calcAge' = calcAge + 1 /\ glitch' = FALSE
      /\ changeAge' = IF changeAge < AgeMax THEN changeAge + 1 ELSE AgeMax
      /\ UNCHANGED <<stage, flowChangeCount, flowTotalChangeCount, window, early>>
      /\ UNCHANGED <<flowRollingChangeCount, flowWindowChanges, flowWindowIndex,
                     flowWindowBinsFilled>>
  BY DEF Elapse, window
<1>2. TypeOK'
  <2>1. /\ loopAge' \in 0 .. MaxIteration /\ calcAge' \in Nat
        /\ changeAge' \in 0 .. AgeMax
    BY <1>1, WindowFacts DEF IInv, TypeOK
  <2>2. QED
    BY <1>1, <2>1 DEF IInv, TypeOK
<1>3. RollingIsWindowSum' /\ \A b \in Bin : Lag(b)' = Lag(b)
  BY <1>1, WindowKept DEF IInv
<1>4. \A b \in Bin : Lag(b) \in Nat
  BY LagBounds DEF IInv, TypeOK
<1>5. CountsFit'
  BY <1>1 DEF IInv, CountsFit
<1>6. /\ calcAge \in Nat /\ changeAge \in Nat /\ AgeMax \in Nat
      /\ loopAge \in Nat /\ MaxIteration \in Nat /\ WINDOW \in Nat
      /\ FLOW_CALC_INTERVAL_MS \in Nat
      /\ changeAge <= AgeMax
  BY WindowFacts DEF IInv, TypeOK
<1>7. CountsAreYoung'
  BY <1>1, <1>3, <1>4, <1>6 DEF IInv, CountsAreYoung
<1>8. Behind'
  BY <1>1, <1>6 DEF IInv, Behind
<1>9. LastChangeCounts'
  <2>1. SUFFICES ASSUME changeAge' < AgeMax, ~early, ~(flowChangeCount > 0),
                        ~(changeAge' + 2 * MaxIteration >= WINDOW)
                 PROVE  \E b \in Bin :
                          /\ flowWindowChanges[b] > 0
                          /\ calcAge' + Lag(b)' <= changeAge' + 2 * MaxIteration
    BY <1>1 DEF LastChangeCounts
  <2>2. changeAge' = changeAge + 1 /\ changeAge < AgeMax
    BY <1>1, <1>6, <2>1
  <2>3. PICK b \in Bin : /\ flowWindowChanges[b] > 0
                         /\ calcAge + Lag(b) <= changeAge + 2 * MaxIteration
    BY <1>6, <2>1, <2>2 DEF IInv, LastChangeCounts
  <2>4. QED
    BY <1>1, <1>3, <1>4, <1>6, <2>2, <2>3
<1>10. QED
  BY <1>2, <1>3, <1>5, <1>7, <1>8, <1>9 DEF IInv

\* A change is counted in the bin in hand, in the total and by its age.
LEMMA PollKeeps ==
    ASSUME FlowAssumption, IInv, PollFlowSensor
    PROVE  IInv'
<1>1. /\ stage # "calculate" /\ flowTotalChangeCount < MaxChanges
      /\ flowChangeCount' = flowChangeCount + 1
      /\ flowTotalChangeCount' = flowTotalChangeCount + 1
      /\ glitch' = TRUE /\ changeAge' = 0
      /\ early' = (flowWindowBinsFilled = 0)
      /\ UNCHANGED <<stage, loopAge, calcAge, window>>
      /\ UNCHANGED <<flowRollingChangeCount, flowWindowChanges, flowWindowIndex,
                     flowWindowBinsFilled>>
  BY DEF PollFlowSensor, window
<1>2. /\ calcAge \in Nat /\ flowChangeCount \in Nat /\ flowRollingChangeCount \in Nat
      /\ flowTotalChangeCount \in Nat /\ MaxChanges \in Nat /\ AgeMax \in Nat
      /\ FLOW_CALC_INTERVAL_MS \in Nat
      /\ flowRollingChangeCount + flowChangeCount <= flowTotalChangeCount
  BY WindowFacts DEF IInv, TypeOK, CountsFit
<1>3. TypeOK'
  <2>1. /\ flowChangeCount' \in 0 .. MaxChanges /\ flowTotalChangeCount' \in 0 .. MaxChanges
        /\ changeAge' \in 0 .. AgeMax /\ early' \in BOOLEAN /\ glitch' \in BOOLEAN
    BY <1>1, <1>2
  <2>2. QED
    BY <1>1, <2>1 DEF IInv, TypeOK
<1>4. RollingIsWindowSum' /\ \A b \in Bin : Lag(b)' = Lag(b)
  BY <1>1, WindowKept DEF IInv
<1>5. \A b \in Bin : Lag(b) \in Nat
  BY LagBounds DEF IInv, TypeOK
<1>6. CountsFit'
  BY <1>1, <1>2 DEF CountsFit
<1>7. CountsAreYoung'
  BY <1>1, <1>2, <1>4, <1>5 DEF CountsAreYoung
<1>8. Behind'
  BY <1>1 DEF IInv, Behind
<1>9. LastChangeCounts'
  BY <1>1, <1>2 DEF LastChangeCounts
<1>10. QED
  BY <1>3, <1>4, <1>6, <1>7, <1>8, <1>9 DEF IInv

\* The steps between the stages of an iteration leave the counts alone.
LEMMA StageKeeps ==
    ASSUME FlowAssumption, IInv,
           BeginCalculation \/ EndCalculation \/ StartIteration \/ UNCHANGED vars
    PROVE  IInv'
<1>1. UNCHANGED <<calcAge, glitch, flowChangeCount, flowTotalChangeCount, window,
                  changeAge, early>>
  BY DEF BeginCalculation, EndCalculation, StartIteration, vars, seen, window
<1>2. UNCHANGED <<flowRollingChangeCount, flowWindowChanges, flowWindowIndex,
                  flowWindowBinsFilled>>
  BY <1>1 DEF window
<1>3. /\ calcAge \in Nat /\ loopAge \in 0 .. MaxIteration
      /\ MaxIteration \in Nat /\ FLOW_CALC_INTERVAL_MS \in Nat /\ WINDOW \in Nat
      /\ WINDOW >= FLOW_CALC_INTERVAL_MS
  BY WindowFacts DEF IInv, TypeOK
<1>4. stage' \in {"poll", "calculate", "rest"} /\ loopAge' \in 0 .. MaxIteration
  BY <1>3 DEF BeginCalculation, EndCalculation, StartIteration, vars, IInv, TypeOK
<1>5. TypeOK'
  BY <1>1, <1>2, <1>4 DEF IInv, TypeOK
<1>6. RollingIsWindowSum' /\ \A b \in Bin : Lag(b)' = Lag(b)
  BY <1>1, WindowKept DEF IInv
<1>7. CountsFit' /\ CountsAreYoung' /\ LastChangeCounts'
  BY <1>1, <1>2, <1>6 DEF IInv, CountsFit, CountsAreYoung, LastChangeCounts
<1>8. Behind'
  <2>1. CASE BeginCalculation
    BY <1>1, <1>2, <1>3, <2>1 DEF BeginCalculation, IInv, Behind
  <2>2. CASE EndCalculation
    BY <1>1, <1>2, <1>3, <2>2 DEF EndCalculation, IInv, Behind
  <2>3. CASE StartIteration
    BY <1>1, <1>2, <1>3, <2>3 DEF StartIteration, IInv, Behind
  <2>4. CASE UNCHANGED vars
    BY <2>4 DEF vars, IInv, Behind
  <2>5. QED
    BY <2>1, <2>2, <2>3, <2>4
<1>9. QED
  BY <1>5, <1>6, <1>7, <1>8 DEF IInv

\* Completing a bin moves the count into the window.
LEMMA CompleteBinKeeps ==
    ASSUME FlowAssumption, IInv, CompleteBin
    PROVE  IInv'
<1> DEFINE i   == FLOW_CALC_INTERVAL_MS
           idx == flowWindowIndex
           cnt == flowChangeCount
<1>1. /\ stage = "calculate" /\ calcAge - loopAge >= i
      /\ flowChangeCount' = 0
      /\ flowRollingChangeCount' =
           flowRollingChangeCount - flowWindowChanges[idx] + cnt
      /\ flowWindowChanges' = [flowWindowChanges EXCEPT ![idx] = cnt]
      /\ flowWindowIndex' = NextBin(idx)
      /\ flowWindowBinsFilled' = Min({flowWindowBinsFilled + 1, FLOW_ESTIMATE_BIN_COUNT})
      /\ calcAge' = calcAge - i
      /\ UNCHANGED <<stage, loopAge, glitch, flowTotalChangeCount, changeAge, early>>
  BY DEF CompleteBin, WithBin, seen
<1>2. /\ calcAge \in Nat /\ loopAge \in Nat /\ changeAge \in Nat
      /\ i \in Nat \ {0} /\ WINDOW \in Nat /\ MaxIteration \in Nat /\ MaxChanges \in Nat
      /\ cnt \in Nat /\ flowRollingChangeCount \in Nat /\ idx \in Bin
      /\ flowTotalChangeCount \in 0 .. MaxChanges
      /\ flowWindowBinsFilled \in 0 .. FLOW_ESTIMATE_BIN_COUNT
      /\ FLOW_ESTIMATE_BIN_COUNT \in Nat \ {0}
      /\ flowWindowChanges \in [Bin -> Nat]
  BY WindowFacts DEF IInv, TypeOK
<1>3. /\ flowWindowIndex' \in Bin
      /\ \A b \in Bin : Lag(b)' = IF b = idx THEN 0 ELSE Lag(b) + i
  BY <1>1, <1>2, LagMoves
<1>4. /\ \A b \in Bin : Lag(b) \in Nat
      /\ Lag(idx) = WINDOW - i
  BY <1>2, LagBounds
<1>5. flowWindowBinsFilled' \in 1 .. FLOW_ESTIMATE_BIN_COUNT
  <2>1. \A a, b \in Nat : Min({a, b}) = IF a <= b THEN a ELSE b
    BY DEF Min
  <2>2. QED
    BY <1>1, <1>2, <2>1
<1>6. \A b \in Bin : flowWindowChanges'[b] = IF b = idx THEN cnt ELSE flowWindowChanges[b]
  BY <1>1, <1>2
<1>7. flowWindowChanges' \in [Bin -> Nat]
  BY <1>1, <1>2
<1>8. /\ flowRollingChangeCount' = Partial(flowWindowChanges', Bin)[Bin]
      /\ flowRollingChangeCount' \in Nat
  <2>1. flowRollingChangeCount = Partial(flowWindowChanges, Bin)[Bin]
    BY RollingIsPartial DEF IInv
  <2>2. Partial(flowWindowChanges', Bin)[Bin] =
          Partial(flowWindowChanges, Bin)[Bin] - flowWindowChanges[idx] + cnt
    BY <1>2, <1>6, <1>7, BinFinite, PartialUpdate
  <2>3. Partial(flowWindowChanges', Bin)[Bin] \in Nat
    BY <1>7, BinFinite, PartialType
  <2>4. QED
    BY <1>1, <2>1, <2>2, <2>3
<1>9. RollingIsWindowSum'
  BY <1>8, RollingIsPartial
<1>10. CountsFit'
  <2>1. flowRollingChangeCount + cnt <= flowTotalChangeCount
    BY DEF IInv, CountsFit
  <2>2. flowWindowChanges[idx] \in Nat
    BY <1>2
  <2>3. QED
    BY <1>1, <1>2, <2>1, <2>2 DEF CountsFit
<1>11. TypeOK'
  <2>1. flowRollingChangeCount' \in 0 .. MaxChanges /\ calcAge' \in Nat
        /\ flowChangeCount' \in 0 .. MaxChanges
    BY <1>1, <1>2, <1>8, <1>10 DEF CountsFit
  <2>2. flowWindowChanges' \in [Bin -> 0 .. MaxChanges]
    BY <1>1 DEF IInv, TypeOK
  <2>3. flowWindowBinsFilled' \in 0 .. FLOW_ESTIMATE_BIN_COUNT
    BY <1>5
  <2>4. QED
    BY <1>1, <1>3, <2>1, <2>2, <2>3 DEF IInv, TypeOK
<1>12. CountsAreYoung'
  <2>1. ASSUME NEW b \in Bin, flowWindowChanges'[b] > 0
        PROVE  changeAge' <= calcAge' + Lag(b)' + i
    <3>1. CASE b = idx
      BY <1>1, <1>2, <1>3, <1>6, <2>1, <3>1 DEF IInv, CountsAreYoung
    <3>2. CASE b # idx
      <4>1. changeAge <= calcAge + Lag(b) + i
        BY <1>6, <2>1, <3>2 DEF IInv, CountsAreYoung
      <4>2. QED
        BY <1>1, <1>2, <1>3, <1>4, <3>2, <4>1
    <3>3. QED
      BY <3>1, <3>2
  <2>2. ~(flowChangeCount' > 0)
    BY <1>1
  <2>3. QED
    BY <2>1, <2>2 DEF CountsAreYoung
<1>13. Behind'
  BY <1>1, <1>5 DEF Behind
<1>14. LastChangeCounts'
  <2>1. SUFFICES ASSUME changeAge < AgeMax, ~early,
                        ~(changeAge + 2 * MaxIteration >= WINDOW)
                 PROVE  \E b \in Bin :
                          /\ flowWindowChanges'[b] > 0
                          /\ calcAge' + Lag(b)' <= changeAge + 2 * MaxIteration
    BY <1>1 DEF LastChangeCounts
  <2>2. CASE cnt > 0
    <3>1. calcAge <= i + 2 * MaxIteration
      BY <1>1, <2>1, <2>2 DEF IInv, Behind
    <3>2. PICK b \in Bin : b = idx
      BY <1>2
    <3>3. flowWindowChanges'[b] > 0 /\ Lag(b)' = 0
      BY <1>3, <1>6, <2>2, <3>2
    <3>4. calcAge' + Lag(b)' <= changeAge + 2 * MaxIteration
      BY <1>1, <1>2, <3>1, <3>3
    <3>5. QED
      BY <3>3, <3>4
  <2>3. CASE ~(cnt > 0)
    <3>1. PICK b \in Bin : /\ flowWindowChanges[b] > 0
                           /\ calcAge + Lag(b) <= changeAge + 2 * MaxIteration
      BY <2>1, <2>3 DEF IInv, LastChangeCounts
    <3>2. b # idx
      <4>1. SUFFICES ASSUME b = idx PROVE FALSE
        OBVIOUS
      <4>2. calcAge + WINDOW - i <= changeAge + 2 * MaxIteration
        BY <1>2, <1>4, <3>1, <4>1
      <4>3. QED
        BY <1>1, <1>2, <2>1, <4>2
    <3>3. flowWindowChanges'[b] > 0
      BY <1>6, <3>1, <3>2
    <3>4. calcAge' + Lag(b)' <= changeAge + 2 * MaxIteration
      BY <1>1, <1>2, <1>3, <1>4, <3>1, <3>2
    <3>5. QED
      BY <3>3, <3>4
  <2>4. QED
    BY <2>2, <2>3
<1>15. QED
  BY <1>9, <1>10, <1>11, <1>12, <1>13, <1>14 DEF IInv

\* Every step keeps the invariant.
LEMMA IInvStep ==
    ASSUME FlowAssumption, IInv, [Next]_vars
    PROVE  IInv'
BY ElapseKeeps, PollKeeps, StageKeeps, CompleteBinKeeps DEF Next

-----------------------------------------------------------------------------
(* The theorems. *)

\* The inductive invariant of the flow meter: types, the sum of the window,
\* how old what it counts can be, and how far behind the calculation is.
THEOREM InductiveInvariant ==
    ASSUME FlowAssumption
    PROVE  Spec => []IInv
<1>1. Init => IInv
  BY IInvInit
<1>2. IInv /\ [Next]_vars => IInv'
  BY IInvStep
<1>3. QED
  BY <1>1, <1>2, PTL DEF Spec

\* Every variable of the flow meter keeps its type: no count goes below zero,
\* where the code's unsigned integers would wrap around.
THEOREM TypeCorrect ==
    ASSUME FlowAssumption
    PROVE  Spec => []TypeOK
<1>1. IInv => TypeOK
  BY DEF IInv
<1>2. QED
  BY <1>1, InductiveInvariant, PTL

\* flowRollingChangeCount, which calculateFlowData maintains by one subtraction
\* and one addition for each bin, is always the sum of the window.
THEOREM RollingIsWindowSumAlways ==
    ASSUME FlowAssumption
    PROVE  Spec => []RollingIsWindowSum
<1>1. IInv => RollingIsWindowSum
  BY DEF IInv
<1>2. QED
  BY <1>1, InductiveInvariant, PTL

\* Once calculated, the estimate is zero when the last change is a window, an
\* interval and an iteration old, and it is not zero while the last change is
\* younger than a window, less two iterations.
THEOREM EstimateFollowsFlowAlways ==
    ASSUME FlowAssumption
    PROVE  Spec => []EstimateFollowsFlow
<1>1. ASSUME IInv PROVE EstimateFollowsFlow
  <2> DEFINE i == FLOW_CALC_INTERVAL_MS
  <2>1. /\ calcAge \in Nat /\ loopAge \in 0 .. MaxIteration /\ changeAge \in Nat
        /\ i \in Nat /\ WINDOW \in Nat /\ MaxIteration \in Nat /\ AgeMax \in Nat
        /\ flowChangeCount \in Nat /\ flowRollingChangeCount \in Nat
        /\ flowWindowChanges \in [Bin -> Nat]
        /\ AgeMax > WINDOW + 2 * i + 2 * MaxIteration
    BY <1>1, WindowFacts DEF IInv, TypeOK
  <2>2. flowRollingChangeCount = 0 <=> \A b \in Bin : flowWindowChanges[b] = 0
    <3>1. flowRollingChangeCount = Partial(flowWindowChanges, Bin)[Bin]
      BY <1>1, RollingIsPartial DEF IInv
    <3>2. Partial(flowWindowChanges, Bin)[Bin] = 0
            <=> \A b \in Bin : flowWindowChanges[b] = 0
      BY <2>1, BinFinite, PartialZero
    <3>3. QED
      BY <3>1, <3>2
  <2>3. \A b \in Bin : Lag(b) \in Nat /\ Lag(b) + i <= WINDOW
    BY <1>1, LagBounds DEF IInv, TypeOK
  <2>4. ASSUME Calculated, changeAge >= WINDOW + i + MaxIteration
        PROVE  flowRollingChangeCount = 0 /\ flowChangeCount = 0
    <3>1. calcAge < i + MaxIteration
      BY <2>1, <2>4 DEF Calculated
    <3>2. ~(flowChangeCount > 0)
      BY <1>1, <2>1, <2>4, <3>1 DEF IInv, CountsAreYoung
    <3>3. ASSUME NEW b \in Bin, flowWindowChanges[b] > 0 PROVE FALSE
      <4>1. changeAge <= calcAge + Lag(b) + i
        BY <1>1, <3>3 DEF IInv, CountsAreYoung
      <4>2. QED
        BY <2>1, <2>3, <2>4, <3>1, <4>1
    <3>4. \A b \in Bin : flowWindowChanges[b] = 0
      <4>1. \A b \in Bin : flowWindowChanges[b] \in Nat
        BY <2>1
      <4>2. QED
        BY <3>3, <4>1
    <3>5. QED
      BY <2>1, <2>2, <3>2, <3>4
  <2>5. ASSUME ~early, changeAge + 2 * MaxIteration < WINDOW
        PROVE  flowRollingChangeCount + flowChangeCount > 0
    <3>1. changeAge < AgeMax
      BY <2>1, <2>5
    <3>2. \/ flowChangeCount > 0
          \/ \E b \in Bin : flowWindowChanges[b] > 0
      BY <1>1, <2>1, <2>5, <3>1 DEF IInv, LastChangeCounts
    <3>3. QED
      BY <2>1, <2>2, <3>2
  <2>6. QED
    BY <2>4, <2>5 DEF EstimateFollowsFlow
<1>2. QED
  BY <1>1, InductiveInvariant, PTL

-----------------------------------------------------------------------------
(* The scheduler. *)

\* An iteration that starts keeps the scheduler's types.
LEMMA StartKeepsTypes ==
    ASSUME Sched!SchedulerAssumption, Sched!TypeOK,
           NEW d \in 1 .. MaxSendIteration, NEW heard \in 0 .. 1,
           Sched!StartIteration(d, heard)
    PROVE  Sched!TypeOK'
<1>1. /\ d \in Nat /\ heard \in 0 .. 1 /\ Sched!OLD \in Nat \ {0}
      /\ \A t \in Sched!Task : Sched!Interval[t] \in Nat
  BY DEF Sched!SchedulerAssumption, Sched!OLD
<1>2. /\ age' \in [Sched!Task -> Nat]
      /\ \A t \in Sched!Task : age'[t] <= Sched!Interval[t]
  BY <1>1 DEF Sched!StartIteration, Sched!CapAge, Sched!TypeOK
<1>3. pingAge' \in -1 .. Sched!OLD
  BY <1>1 DEF Sched!StartIteration, Sched!TypeOK
<1>4. late' \in [Sched!Task -> Nat]
  BY <1>1 DEF Sched!StartIteration, Sched!TypeOK, Sched!Waited
<1>5. /\ pc' = "send" /\ udpServersStarted' \in BOOLEAN
      /\ UNCHANGED <<nextUdpSendTask, nextMonitorPacketType>>
  BY DEF Sched!StartIteration
<1>6. QED
  BY <1>2, <1>3, <1>4, <1>5 DEF Sched!TypeOK

\* Without flow data to send, the task chosen is the first that can be sent
\* from nextUdpSendTask on.
LEMMA ChosenIsFirst ==
    ASSUME nextUdpSendTask \in Sched!Task, NEW u \in Sched!Task, Sched!Sendable(u)
    PROVE  /\ Sched!Chosen \in Sched!Task /\ Sched!Sendable(Sched!Chosen)
           /\ Sched!Sendable(Sched!FLOW) => Sched!Chosen = Sched!FLOW
           /\ ~Sched!Sendable(Sched!FLOW) =>
                \E m \in 0 .. 4 :
                  /\ Sched!Chosen = (nextUdpSendTask + m) % 5
                  /\ \A o \in 0 .. 4 :
                       Sched!Sendable((nextUdpSendTask + o) % 5) => m <= o
<1> DEFINE At(o) == (nextUdpSendTask + o) % 5
           S == {o \in 0 .. 4 : Sched!Sendable(At(o))}
<1>1. Sched!FLOW \in Sched!Task
  BY DEF Sched!FLOW, Sched!Task
<1>2. Sched!Chosen = IF Sched!Sendable(Sched!FLOW) THEN Sched!FLOW ELSE At(Sched!Min(S))
  BY DEF Sched!Chosen
<1>3. \E o \in 0 .. 4 : At(o) = u
  <2>1. u \in 0 .. 4 /\ nextUdpSendTask \in 0 .. 4
    BY DEF Sched!Task
  <2>2. CASE u >= nextUdpSendTask
    <3>1. u - nextUdpSendTask \in 0 .. 4 /\ At(u - nextUdpSendTask) = u
      BY <2>1, <2>2
    <3>2. QED
      BY <3>1
  <2>3. CASE u < nextUdpSendTask
    <3>1. u + 5 - nextUdpSendTask \in 0 .. 4 /\ At(u + 5 - nextUdpSendTask) = u
      BY <2>1, <2>3
    <3>2. QED
      BY <3>1
  <2>4. QED
    BY <2>1, <2>2, <2>3
<1>4. S \in SUBSET Nat /\ S # {}
  BY <1>3
<1>5. PICK m \in S : \A k \in S : m <= k
  BY <1>4, LeastNumber
<1>6. Sched!Min(S) \in S /\ \A k \in S : Sched!Min(S) <= k
  BY <1>5 DEF Sched!Min
<1>7. At(Sched!Min(S)) \in Sched!Task
  <2>1. Sched!Min(S) \in 0 .. 4 /\ nextUdpSendTask \in 0 .. 4
    BY <1>6 DEF Sched!Task
  <2> HIDE DEF S
  <2>2. QED
    BY <2>1 DEF Sched!Task
<1>8. QED
  BY <1>1, <1>2, <1>6, <1>7

\* A turn of serviceOneUdpSendTask keeps the scheduler's types.
LEMMA ServiceKeepsTypes ==
    ASSUME Sched!SchedulerAssumption, Sched!TypeOK, Sched!ServiceOneUdpSendTask
    PROVE  Sched!TypeOK'
<1> USE DEF Sched!TypeOK
<1>1. pc' = "start" /\ UNCHANGED pingAge
  BY DEF Sched!ServiceOneUdpSendTask
<1>2. ASSUME NEW u \in Sched!Task, Sched!Sendable(u), Sched!Sent(Sched!Chosen)
      PROVE  /\ age' \in [Sched!Task -> Nat]
             /\ \A t \in Sched!Task : age'[t] <= Sched!Interval[t]
             /\ nextUdpSendTask' \in Sched!Task
             /\ nextMonitorPacketType' \in 0 .. Sched!MONITOR_PACKET_COUNT - 1
             /\ udpServersStarted' \in BOOLEAN
             /\ late' \in [Sched!Task -> Nat]
  <2>1. PICK t \in Sched!Task : t = Sched!Chosen
    BY <1>2, ChosenIsFirst
  <2>2. Sched!Sent(t)
    BY <1>2, <2>1
  <2>3. nextUdpSendTask' \in Sched!Task
    <3>1. t \in 0 .. 4 /\ nextUdpSendTask' = (t + 1) % 5
      BY <2>2 DEF Sched!Sent, Sched!Rotate, Sched!Task
    <3>2. QED
      BY <3>1 DEF Sched!Task
  <2>4. nextMonitorPacketType' \in 0 .. Sched!MONITOR_PACKET_COUNT - 1
    BY <2>2 DEF Sched!Sent, Sched!MONITOR_PACKET_COUNT
  <2>5. /\ age' = [age EXCEPT ![t] = 0] /\ late' = [late EXCEPT ![t] = 0]
        /\ UNCHANGED udpServersStarted
    BY <2>2 DEF Sched!Sent
  <2>6. \A x \in Sched!Task : Sched!Interval[x] \in Nat
    BY DEF Sched!SchedulerAssumption
  <2>7. /\ age' \in [Sched!Task -> Nat] /\ late' \in [Sched!Task -> Nat]
        /\ \A x \in Sched!Task : age'[x] <= Sched!Interval[x]
    BY <2>5, <2>6
  <2>8. QED
    BY <2>3, <2>4, <2>5, <2>7
<1>3. CASE Sched!SendFails
  BY <1>1, <1>3 DEF Sched!SendFails
<1>4. CASE UNCHANGED <<age, late, nextUdpSendTask, nextMonitorPacketType, udpServersStarted>>
  BY <1>1, <1>4
<1>5. CASE Sched!Sent(Sched!Chosen) /\ \E u \in Sched!Task : Sched!Sendable(u)
  BY <1>1, <1>2, <1>5
<1>6. QED
  BY <1>3, <1>4, <1>5 DEF Sched!ServiceOneUdpSendTask

\* The scheduler's types at the start.
LEMMA SchedTypesInit ==
    ASSUME Sched!SchedulerAssumption, Sched!Init
    PROVE  Sched!TypeOK
<1>1. \A t \in Sched!Task : Sched!Interval[t] \in Nat
  BY DEF Sched!SchedulerAssumption
<1>2. /\ age \in [Sched!Task -> Nat] /\ late \in [Sched!Task -> Nat]
      /\ \A t \in Sched!Task : age[t] <= Sched!Interval[t]
  BY <1>1 DEF Sched!Init
<1>3. pingAge \in -1 .. Sched!OLD
  BY DEF Sched!Init, Sched!SchedulerAssumption, Sched!OLD
<1>4. /\ nextUdpSendTask \in Sched!Task
      /\ nextMonitorPacketType \in 0 .. Sched!MONITOR_PACKET_COUNT - 1
  BY DEF Sched!Init, Sched!Task, Sched!HEARTBEAT, Sched!MONITOR_PACKET_COUNT
<1>5. pc \in {"start", "send"} /\ udpServersStarted \in BOOLEAN
  BY DEF Sched!Init
<1>6. QED
  BY <1>2, <1>3, <1>4, <1>5 DEF Sched!TypeOK

\* Whichever part a behavior explores, the variables of both keep their types.
THEOREM TelemetryTypesCorrect == MCSpec => []TypesOK
<1> DEFINE Inv == IInv /\ Sched!TypeOK
<1> USE TelemetryConstants
<1>1. MCInit => Inv
  BY IInvInit, SchedTypesInit DEF MCInit
<1>2. ASSUME Inv, [MCNext]_<<vars, schedVars, part>> PROVE Inv'
  <2>1. CASE Sched!Next /\ UNCHANGED vars
    <3>1. IInv'
      BY <1>2, <2>1, IInvStep
    <3>2. Sched!TypeOK'
      BY <1>2, <2>1, StartKeepsTypes, ServiceKeepsTypes DEF Sched!Next
    <3>3. QED
      BY <3>1, <3>2
  <2>2. CASE [Next]_vars /\ UNCHANGED schedVars
    <3>1. IInv'
      BY <1>2, <2>2, IInvStep
    <3>2. Sched!TypeOK'
      BY <1>2, <2>2 DEF schedVars, Sched!TypeOK
    <3>3. QED
      BY <3>1, <3>2
  <2>3. QED
    BY <1>2, <2>1, <2>2 DEF MCNext
<1>3. Inv => TypesOK
  BY DEF IInv, TypesOK
<1>4. QED
  BY <1>1, <1>2, <1>3, PTL DEF MCSpec

-----------------------------------------------------------------------------
(* How long a packet gives way.  The argument keeps an account for each    *)
(* task: a packet of another task costs `cost`, time adds `scale` for each *)
(* unit the task gives way and, for each task x, weight[x] for each unit   *)
(* of x's age.  When a packet of x goes out, the weight of its interval    *)
(* pays for it; the tasks whose turn comes once before t's are paid for in *)
(* advance.  If an iteration adds no more than the cost of a packet, the   *)
(* account never grows, and its limit is a limit on the wait.              *)

Account == [scale : Nat \ {0}, cost : Nat, weight : [Sched!Task -> Nat]]

Total(f) == f[0] + f[1] + f[2] + f[3] + f[4]

Credit(w, a) == w[0] * a[0] + w[1] * a[1] + w[2] * a[2] + w[3] * a[3] + w[4] * a[4]

\* The tasks whose packets a packet of t gives way to as often as they are
\* due; the others have their turn before t at most once.
Rivals(t) ==
    CASE t = Sched!FLOW      -> {}
      [] t = Sched!DHT       -> {Sched!FLOW, Sched!HEARTBEAT}
      [] t = Sched!MONITOR   -> {Sched!FLOW, Sched!DHT, Sched!HEARTBEAT}
      [] t = Sched!HEARTBEAT -> {Sched!FLOW, Sched!DHT, Sched!MONITOR}
      [] t = Sched!STATUS    -> Sched!Task \ {Sched!STATUS}

\* At most how many turns of tasks that are no rivals of t come before t's.
Ahead(t) ==
    CASE t = Sched!DHT /\ nextUdpSendTask = Sched!MONITOR -> 2
      [] t = Sched!DHT /\ nextUdpSendTask \in {Sched!HEARTBEAT, Sched!STATUS} -> 1
      [] t = Sched!MONITOR /\ nextUdpSendTask \in {Sched!HEARTBEAT, Sched!STATUS} -> 1
      [] t = Sched!HEARTBEAT /\ nextUdpSendTask = Sched!STATUS -> 1
      [] OTHER -> 0

MostAhead(t) ==
    CASE t = Sched!DHT -> 2
      [] t \in {Sched!MONITOR, Sched!HEARTBEAT} -> 1
      [] OTHER -> 0

Load(t, b) == b.scale * late[t] + b.cost * Ahead(t) + Credit(b.weight, age)

Limit(t, b) == b.cost * MostAhead(t) + Credit(b.weight, Sched!Interval)

\* An account that balances: the interval of a rival pays for its packet, an
\* iteration adds at most the cost of one, one that is lost adds nothing, and
\* the limit is within the slack.
Balanced(t, b) ==
    /\ \A x \in Rivals(t) : b.cost <= b.weight[x] * Sched!Interval[x]
    /\ Total(b.weight) <= b.scale
    /\ MaxSendIteration * (b.scale + Total(b.weight)) <= b.cost
    /\ Limit(t, b) <= b.scale * Slack[t]

\* Assumption of the bound: every task has an account that balances.
Schedulable == \A t \in Sched!Task : \E b \in Account : Balanced(t, b)

AccountOf(t) == CHOOSE b \in Account : Balanced(t, b)

\* The intervals of the sketch in ms, when an iteration takes at most 50 ms.
Shipped ==
    /\ HEARTBEAT_INTERVAL_MS = 1000
    /\ STATUS_SEND_INTERVAL_MS = 100
    /\ FLOW_SEND_INTERVAL_MS = 200
    /\ DHT_SEND_INTERVAL_MS = 30000
    /\ MONITOR_PACKET_INTERVAL_MS = 334
    /\ MaxSendIteration = 50
    /\ Slack = [t \in Sched!Task |->
         CASE t = Sched!HEARTBEAT -> 340
           [] t = Sched!STATUS    -> 370
           [] t = Sched!FLOW      -> 0
           [] t = Sched!DHT       -> 290
           [] t = Sched!MONITOR   -> 290]

\* After an iteration that could have sent t and did not, the account has room
\* for the next one.
InBalance(t, b) ==
    /\ late[t] > 0 => Sched!Due(t)
    /\ Load(t, b) <= Limit(t, b)
    /\ pc = "start" /\ udpServersStarted /\ Sched!Sendable(t) =>
         Load(t, b) + b.cost <= Limit(t, b)

WaitInv == Sched!TypeOK /\ \A t \in Sched!Task : InBalance(t, AccountOf(t))

\* A product grows with its factor.
LEMMA Multiply ==
    ASSUME NEW c \in Nat, NEW m \in Nat, NEW n \in Nat, m <= n
    PROVE  c * m \in Nat /\ c * m <= c * n
<1>1. PICK k \in Nat : n = m + k
  <2>1. n - m \in Nat /\ n = m + (n - m)
    OBVIOUS
  <2>2. QED
    BY <2>1
<1>2. c * k \in Nat /\ c * m \in Nat /\ c * n = c * m + c * k
  BY <1>1
<1>3. QED
  BY <1>2

\* What time adds to the ages adds its weight to the credit.
LEMMA CreditGrows ==
    ASSUME NEW w \in [Sched!Task -> Nat], NEW a \in [Sched!Task -> Nat],
           NEW z \in [Sched!Task -> Nat], NEW d \in Nat, \A x \in Sched!Task : z[x] <= a[x] + d
    PROVE  /\ Credit(w, a) \in Nat /\ Total(w) \in Nat
           /\ Credit(w, z) <= Credit(w, a) + d * Total(w)
<1>1. Sched!Task = {0, 1, 2, 3, 4}
  BY DEF Sched!Task
<1>2. ASSUME NEW x \in Sched!Task
      PROVE  /\ w[x] \in Nat /\ w[x] * a[x] \in Nat /\ w[x] * z[x] \in Nat /\ d * w[x] \in Nat
             /\ w[x] * z[x] <= w[x] * a[x] + d * w[x]
  <2>1. /\ w[x] \in Nat /\ a[x] \in Nat /\ z[x] \in Nat /\ z[x] <= a[x] + d
        /\ w[x] * a[x] \in Nat /\ w[x] * z[x] \in Nat /\ d * w[x] \in Nat
    OBVIOUS
  <2>2. w[x] * z[x] <= w[x] * (a[x] + d)
    BY <2>1, Multiply
  <2>3. w[x] * (a[x] + d) = w[x] * a[x] + d * w[x]
    BY <2>1
  <2>4. QED
    BY <2>1, <2>2, <2>3
<1>3. d * Total(w) = d * w[0] + d * w[1] + d * w[2] + d * w[3] + d * w[4]
  BY <1>1, <1>2 DEF Total
<1>4. Total(w) \in Nat
  BY <1>1, <1>2 DEF Total
<1>5. QED
  BY <1>1, <1>2, <1>3, <1>4 DEF Credit

\* A packet that goes out takes the weight of its age with it.
LEMMA CreditSpent ==
    ASSUME NEW w \in [Sched!Task -> Nat], NEW a \in [Sched!Task -> Nat], NEW x \in Sched!Task
    PROVE  /\ w[x] * a[x] \in Nat /\ Credit(w, a) \in Nat
           /\ Credit(w, [a EXCEPT ![x] = 0]) + w[x] * a[x] = Credit(w, a)
<1>1. Sched!Task = {0, 1, 2, 3, 4}
  BY DEF Sched!Task
<1>2. \A y \in Sched!Task : w[y] * a[y] \in Nat /\ w[y] * 0 = 0
  OBVIOUS
<1>3. QED
  BY <1>1, <1>2 DEF Credit

-----------------------------------------------------------------------------
\* What the assumptions and the types say of the quantities of an account.
LEMMA SchedFacts ==
    ASSUME Sched!SchedulerAssumption, Sched!TypeOK
    PROVE  /\ Sched!Interval \in [Sched!Task -> Nat] /\ \A x \in Sched!Task : Sched!Interval[x] > 0
           /\ age \in [Sched!Task -> Nat] /\ \A x \in Sched!Task : age[x] <= Sched!Interval[x]
           /\ late \in [Sched!Task -> Nat] /\ nextUdpSendTask \in Sched!Task
           /\ MaxSendIteration \in Nat /\ Slack \in [Sched!Task -> Nat]
<1>1. \A x \in Sched!Task : Sched!Interval[x] \in Nat \ {0}
  BY DEF Sched!SchedulerAssumption
<1>2. Sched!Interval \in [Sched!Task -> Nat]
  BY <1>1 DEF Sched!Interval
<1>3. QED
  BY <1>1, <1>2 DEF Sched!SchedulerAssumption, Sched!TypeOK

\* A task that has not given way yet is within the limit of its account.
LEMMA LimitCovers ==
    ASSUME Sched!SchedulerAssumption, Sched!TypeOK,
           NEW t \in Sched!Task, NEW b \in Account, NEW a \in [Sched!Task -> Nat],
           \A x \in Sched!Task : a[x] <= Sched!Interval[x],
           NEW k \in 0 .. MostAhead(t)
    PROVE  /\ b.cost * k \in Nat /\ Credit(b.weight, a) \in Nat /\ Limit(t, b) \in Nat
           /\ b.cost * k + Credit(b.weight, a) <= Limit(t, b)
<1>1. /\ b.cost \in Nat /\ b.weight \in [Sched!Task -> Nat] /\ MostAhead(t) \in Nat
      /\ Sched!Interval \in [Sched!Task -> Nat]
  BY SchedFacts DEF Account, MostAhead
<1>2. k \in Nat /\ k <= MostAhead(t)
  BY <1>1
<1>3. /\ b.cost * k \in Nat /\ b.cost * MostAhead(t) \in Nat
      /\ b.cost * k <= b.cost * MostAhead(t)
  BY <1>1, <1>2, Multiply
<1>4. \A x \in Sched!Task : a[x] <= Sched!Interval[x] + 0
  BY <1>1
<1>5. /\ Credit(b.weight, Sched!Interval) \in Nat /\ Total(b.weight) \in Nat
      /\ Credit(b.weight, a) <= Credit(b.weight, Sched!Interval) + 0 * Total(b.weight)
  BY <1>1, <1>4, CreditGrows
<1>6. Credit(b.weight, a) \in Nat
  <2>1. \A x \in Sched!Task : a[x] <= a[x] + 0
    OBVIOUS
  <2>2. QED
    BY <1>1, <2>1, CreditGrows
<1>7. QED
  BY <1>3, <1>5, <1>6 DEF Limit

\* The turns before t's are bounded, before a step and after it.
LEMMA AheadBounds ==
    ASSUME NEW t \in Sched!Task
    PROVE  Ahead(t) \in 0 .. MostAhead(t) /\ Ahead(t)' \in 0 .. MostAhead(t)
BY DEF Ahead, MostAhead, Sched!DHT, Sched!MONITOR, Sched!HEARTBEAT, Sched!STATUS

\* When x goes out although t could, either x is a rival of t, or a turn before
\* t's is over.  When t could not, only a heartbeat goes out.
LEMMA TurnsPass ==
    ASSUME Sched!TypeOK, NEW t \in Sched!Task, NEW x \in Sched!Task, x # t, Sched!Due(t),
           x = Sched!Chosen, Sched!Sendable(x), nextUdpSendTask' = (x + 1) % 5
    PROVE  /\ Sched!Sendable(t) =>
                \/ x \in Rivals(t) /\ Ahead(t)' <= Ahead(t)
                \/ Ahead(t)' + 1 <= Ahead(t)
           /\ ~Sched!Sendable(t) =>
                \/ x \in Rivals(t) /\ Ahead(t)' <= Ahead(t) + 1
                \/ Ahead(t)' <= Ahead(t)
<1> USE DEF Sched!FLOW, Sched!DHT, Sched!MONITOR, Sched!HEARTBEAT, Sched!STATUS
<1>1. Sched!Task = {0, 1, 2, 3, 4} /\ nextUdpSendTask \in {0, 1, 2, 3, 4}
  BY DEF Sched!Task, Sched!TypeOK
<1>2. /\ Sched!Sendable(2) => x = 2
      /\ ~Sched!Sendable(2) =>
           \E m \in 0 .. 4 :
             /\ x = (nextUdpSendTask + m) % 5
             /\ \A o \in 0 .. 4 : Sched!Sendable((nextUdpSendTask + o) % 5) => m <= o
  BY ChosenIsFirst DEF Sched!TypeOK
<1>3. nextUdpSendTask' = IF x = 4 THEN 0 ELSE x + 1
  BY <1>1
<1>4. ASSUME Sched!Sendable(t)
      PROVE  \/ x \in Rivals(t) /\ Ahead(t)' <= Ahead(t)
             \/ Ahead(t)' + 1 <= Ahead(t)
  <2>1. CASE x = 2
    <3>1. t # 2 /\ 2 \in Rivals(t)
      BY <1>1, <2>1 DEF Rivals
    <3>2. Ahead(t)' = 0 /\ Ahead(t) >= 0
      BY <1>1, <1>3, <2>1 DEF Ahead
    <3>3. QED
      BY <2>1, <3>1, <3>2
  <2>2. CASE x # 2
    <3>1. ~Sched!Sendable(2) /\ t # 2
      BY <1>2, <1>4, <2>2
    <3>2. PICK m \in 0 .. 4 :
            /\ x = (nextUdpSendTask + m) % 5
            /\ \A o \in 0 .. 4 : Sched!Sendable((nextUdpSendTask + o) % 5) => m <= o
      BY <1>2, <3>1
    <3>3. \A o \in 0 .. 4 : (nextUdpSendTask + o) % 5 = t => m <= o
      BY <1>4, <3>2
    <3> HIDE DEF Sched!Sendable
    <3>4. CASE t = 0
      BY <1>1, <1>3, <2>2, <3>2, <3>3, <3>4 DEF Ahead, Rivals
    <3>5. CASE t = 1
      BY <1>1, <1>3, <2>2, <3>2, <3>3, <3>5 DEF Ahead, Rivals
    <3>6. CASE t = 3
      BY <1>1, <1>3, <2>2, <3>2, <3>3, <3>6 DEF Ahead, Rivals
    <3>7. CASE t = 4
      BY <1>1, <1>3, <2>2, <3>2, <3>3, <3>7 DEF Ahead, Rivals
    <3>8. QED
      BY <1>1, <3>1, <3>4, <3>5, <3>6, <3>7
  <2>3. QED
    BY <2>1, <2>2
<1>5. ASSUME ~Sched!Sendable(t)
      PROVE  \/ x \in Rivals(t) /\ Ahead(t)' <= Ahead(t) + 1
             \/ Ahead(t)' <= Ahead(t)
  <2>1. t # 0 /\ x = 0
    BY <1>5 DEF Sched!Sendable
  <2>2. QED
    BY <1>1, <1>3, <2>1 DEF Ahead, Rivals
<1>6. QED
  BY <1>4, <1>5

\* A turn of serviceOneUdpSendTask keeps every account in balance.
LEMMA ServiceKeepsBalance ==
    ASSUME Sched!SchedulerAssumption, Sched!TypeOK, NEW t \in Sched!Task, NEW b \in Account,
           Balanced(t, b), InBalance(t, b), Sched!ServiceOneUdpSendTask
    PROVE  InBalance(t, b)'
<1>1. pc' = "start" /\ UNCHANGED pingAge
  BY DEF Sched!ServiceOneUdpSendTask
<1>2. /\ b.scale \in Nat \ {0} /\ b.cost \in Nat /\ b.weight \in [Sched!Task -> Nat]
      /\ Limit(t, b)' = Limit(t, b)
  BY DEF Account, Limit
<1>3. CASE ~udpServersStarted' /\ UNCHANGED <<age, late, nextUdpSendTask>>
  BY <1>1, <1>3 DEF InBalance, Load, Ahead, Sched!Due, Limit
<1>4. CASE /\ UNCHANGED <<age, late, nextUdpSendTask, udpServersStarted>>
           /\ ~(udpServersStarted /\ Sched!Sendable(t))
  <2>1. (Sched!Sendable(t)' <=> Sched!Sendable(t)) /\ (Sched!Due(t)' <=> Sched!Due(t))
    BY <1>1, <1>4 DEF Sched!Sendable, Sched!Due, Sched!IsJetsonOnline
  <2>2. Load(t, b)' = Load(t, b)
    BY <1>4 DEF Load, Ahead
  <2>3. QED
    BY <1>2, <1>4, <2>1, <2>2 DEF InBalance
<1>5. ASSUME NEW u \in Sched!Task, Sched!Sendable(u), Sched!Sent(Sched!Chosen)
      PROVE  InBalance(t, b)'
  <2>1. PICK x \in Sched!Task : x = Sched!Chosen /\ Sched!Sendable(x)
    BY <1>5, ChosenIsFirst DEF Sched!TypeOK
  <2>2. /\ age' = [age EXCEPT ![x] = 0] /\ late' = [late EXCEPT ![x] = 0]
        /\ nextUdpSendTask' = (x + 1) % 5 /\ UNCHANGED udpServersStarted
    BY <1>5, <2>1 DEF Sched!Sent, Sched!Rotate
  <2>3. /\ age \in [Sched!Task -> Nat] /\ late \in [Sched!Task -> Nat]
        /\ \A y \in Sched!Task : age[y] <= Sched!Interval[y] /\ Sched!Interval[y] \in Nat \ {0}
    BY SchedFacts
  <2>4. Ahead(t) \in 0 .. MostAhead(t) /\ Ahead(t)' \in 0 .. MostAhead(t) /\ MostAhead(t) \in Nat
    BY AheadBounds DEF MostAhead
  <2>5. /\ age' \in [Sched!Task -> Nat] /\ \A y \in Sched!Task : age'[y] <= Sched!Interval[y]
    BY <2>2, <2>3
  <2>6. late'[t] = 0 => Load(t, b)' <= Limit(t, b)
    <3>1. /\ b.cost * Ahead(t)' \in Nat /\ Credit(b.weight, age') \in Nat
          /\ b.cost * Ahead(t)' + Credit(b.weight, age') <= Limit(t, b)
      BY <2>4, <2>5, LimitCovers
    <3>2. Load(t, b)' = b.scale * late'[t] + b.cost * Ahead(t)' + Credit(b.weight, age')
      BY DEF Load, Credit
    <3>3. QED
      BY <1>2, <3>1, <3>2
  <2>7. CASE x = t
    <3>1. late'[t] = 0 /\ ~Sched!Due(t)'
      BY <2>2, <2>3, <2>7 DEF Sched!Due
    <3>2. QED
      BY <1>2, <2>6, <3>1 DEF InBalance, Sched!Sendable
  <2>8. CASE x # t /\ ~Sched!Due(t)
    <3>1. late[t] = 0 /\ late'[t] = 0 /\ age'[t] = age[t]
      BY <2>2, <2>3, <2>8 DEF InBalance
    <3>2. ~Sched!Due(t)'
      BY <2>8, <3>1 DEF Sched!Due
    <3>3. QED
      BY <1>2, <2>6, <3>1, <3>2 DEF InBalance, Sched!Sendable
  <2>9. CASE x # t /\ Sched!Due(t)
    <3>1. /\ late'[t] = late[t] /\ age'[t] = age[t] /\ Sched!Due(t)'
          /\ (Sched!Sendable(t)' <=> Sched!Sendable(t))
      BY <1>1, <2>2, <2>3, <2>9 DEF Sched!Due, Sched!Sendable, Sched!IsJetsonOnline
    <3>2. DEFINE paid == b.weight[x] * age[x]
    <3>3. /\ paid \in Nat /\ Credit(b.weight, age) \in Nat
          /\ Credit(b.weight, age') + paid = Credit(b.weight, age)
      BY <1>2, <2>2, <2>3, CreditSpent
    <3>4. x \in Rivals(t) => b.cost <= paid
      <4>1. age[x] = Sched!Interval[x]
        BY <2>1, <2>3 DEF Sched!Sendable, Sched!Due
      <4>2. QED
        BY <4>1 DEF Balanced
    <3> DEFINE waited == b.scale * late[t]
               turns == b.cost * Ahead(t)
               left == b.cost * Ahead(t)'
               credit == Credit(b.weight, age)
               spent == Credit(b.weight, age')
    <3>5. /\ Load(t, b) = waited + turns + credit
          /\ Load(t, b)' = waited + left + spent
      BY <3>1 DEF Load, Credit
    <3>6. \A m, n \in Nat : /\ m <= n => b.cost * m <= b.cost * n
                            /\ b.cost * (n + 1) = b.cost * n + b.cost
      BY <1>2, Multiply
    <3>7. /\ Ahead(t) \in Nat /\ Ahead(t)' \in Nat /\ b.scale * late[t] \in Nat
          /\ b.cost * Ahead(t) \in Nat /\ b.cost * Ahead(t)' \in Nat
      BY <1>2, <2>3, <2>4
    <3>8. /\ waited \in Nat /\ turns \in Nat /\ left \in Nat /\ credit \in Nat
           /\ spent \in Nat /\ paid \in Nat /\ spent + paid = credit
      <4>1. Credit(b.weight, age') \in Nat
        BY <2>4, <2>5, LimitCovers
      <4>2. QED
        BY <3>3, <3>7, <4>1
    <3>9. /\ Sched!Sendable(t) =>
                \/ x \in Rivals(t) /\ Ahead(t)' <= Ahead(t)
                \/ Ahead(t)' + 1 <= Ahead(t)
          /\ ~Sched!Sendable(t) =>
                \/ x \in Rivals(t) /\ Ahead(t)' <= Ahead(t) + 1
                \/ Ahead(t)' <= Ahead(t)
      BY <2>1, <2>2, <2>9, TurnsPass
    <3> HIDE DEF paid, waited, turns, left, credit, spent
    <3>10. ASSUME Sched!Sendable(t) PROVE Load(t, b)' + b.cost <= Load(t, b)
      <4>1. CASE x \in Rivals(t) /\ Ahead(t)' <= Ahead(t)
        <5>1. left <= turns /\ b.cost <= paid
          BY <3>4, <3>6, <3>7, <4>1 DEF left, turns
        <5>2. QED
          BY <1>2, <3>5, <3>8, <5>1
      <4>2. CASE Ahead(t)' + 1 <= Ahead(t)
        <5>1. left + b.cost <= turns
          BY <3>6, <3>7, <4>2 DEF left, turns
        <5>2. QED
          BY <1>2, <3>5, <3>8, <5>1
      <4>3. QED
        BY <3>9, <3>10, <4>1, <4>2
    <3>11. ASSUME ~Sched!Sendable(t) PROVE Load(t, b)' <= Load(t, b)
      <4>1. CASE x \in Rivals(t) /\ Ahead(t)' <= Ahead(t) + 1
        <5>1. left <= turns + b.cost /\ b.cost <= paid
          BY <3>4, <3>6, <3>7, <4>1 DEF left, turns
        <5>2. QED
          BY <1>2, <3>5, <3>8, <5>1
      <4>2. CASE Ahead(t)' <= Ahead(t)
        <5>1. left <= turns
          BY <3>6, <3>7, <4>2 DEF left, turns
        <5>2. QED
          BY <1>2, <3>5, <3>8, <5>1
      <4>3. QED
        BY <3>9, <3>11, <4>1, <4>2
    <3>12. Load(t, b) \in Nat /\ Load(t, b)' \in Int /\ Limit(t, b) \in Nat
      <4>1. Limit(t, b) \in Nat
        BY <2>4, <2>5, LimitCovers
      <4>2. QED
        BY <3>5, <3>8, <4>1
    <3>13. QED
      BY <1>1, <1>2, <3>1, <3>10, <3>11, <3>12 DEF InBalance
  <2>10. QED
    BY <2>7, <2>8, <2>9
<1>6. QED
  BY <1>3, <1>4, <1>5 DEF Sched!ServiceOneUdpSendTask, Sched!SendFails

\* An iteration that starts keeps every account in balance.
LEMMA StartKeepsBalance ==
    ASSUME Sched!SchedulerAssumption, Sched!TypeOK, NEW t \in Sched!Task, NEW b \in Account,
           Balanced(t, b), InBalance(t, b),
           NEW d \in 1 .. MaxSendIteration, NEW heard \in 0 .. 1,
           Sched!StartIteration(d, heard)
    PROVE  InBalance(t, b)'
<1> DEFINE counts == Sched!Due(t) /\ udpServersStarted
                       /\ (t = Sched!HEARTBEAT \/ Sched!JetsonHeard)
<1>1. /\ pc = "start" /\ pc' = "send" /\ UNCHANGED nextUdpSendTask
      /\ age' = [x \in Sched!Task |-> Sched!CapAge(x, age[x] + d)]
      /\ late'[t] = IF counts THEN Sched!Waited(t, d) ELSE 0
  BY DEF Sched!StartIteration
<1>2. /\ b.scale \in Nat \ {0} /\ b.cost \in Nat /\ b.weight \in [Sched!Task -> Nat]
      /\ Limit(t, b)' = Limit(t, b) /\ d \in Nat /\ d <= MaxSendIteration
      /\ MaxSendIteration \in Nat
  BY SchedFacts DEF Account, Limit
<1>3. /\ age \in [Sched!Task -> Nat] /\ late \in [Sched!Task -> Nat]
      /\ \A y \in Sched!Task : age[y] <= Sched!Interval[y] /\ Sched!Interval[y] \in Nat \ {0}
  BY SchedFacts
<1>4. /\ age' \in [Sched!Task -> Nat]
      /\ \A y \in Sched!Task : age'[y] <= Sched!Interval[y] /\ age'[y] <= age[y] + d
      /\ Sched!Due(t) => Sched!Due(t)'
  BY <1>1, <1>2, <1>3 DEF Sched!CapAge, Sched!Due
<1>5. Ahead(t)' = Ahead(t) /\ Ahead(t) \in 0 .. MostAhead(t)
  BY <1>1, AheadBounds DEF Ahead
<1> DEFINE total == Total(b.weight)
           before == Credit(b.weight, age)
           after == Credit(b.weight, age')
           turns == b.cost * Ahead(t)
<1>6. /\ total \in Nat /\ before \in Nat /\ after <= before + d * total
      /\ after \in Nat /\ turns \in Nat /\ Limit(t, b) \in Nat
      /\ turns + after <= Limit(t, b)
  BY <1>2, <1>3, <1>4, <1>5, CreditGrows, LimitCovers
<1>7. /\ Load(t, b) = b.scale * late[t] + turns + before
      /\ Load(t, b)' = b.scale * late'[t] + turns + after
  BY <1>5 DEF Load, Credit
<1>8. /\ d * total <= d * b.scale
      /\ d * (b.scale + total) = d * b.scale + d * total
      /\ d * (b.scale + total) <= b.cost
  <2>1. total <= b.scale /\ MaxSendIteration * (b.scale + total) <= b.cost
    BY DEF Balanced
  <2>2. (b.scale + total) * d <= (b.scale + total) * MaxSendIteration
    BY <1>2, <1>6, Multiply
  <2>3. d * total <= d * b.scale
    BY <1>2, <1>6, <2>1, Multiply
  <2> HIDE DEF total
  <2>4. QED
    BY <1>2, <1>6, <2>1, <2>2, <2>3
<1>9. late'[t] > 0 => Sched!Due(t)'
  BY <1>1, <1>4
<1> HIDE DEF total, before, after, turns
<1>10. CASE late'[t] = 0
  BY <1>1, <1>2, <1>6, <1>7, <1>9, <1>10 DEF InBalance
<1>11. CASE counts /\ (t = Sched!HEARTBEAT \/ Sched!IsJetsonOnline)
  <2>1. late'[t] = late[t] + d
    BY <1>1, <1>11 DEF Sched!Waited
  <2>2. Load(t, b) + b.cost <= Limit(t, b)
    BY <1>1, <1>11 DEF InBalance, Sched!Sendable
  <2>3. b.scale * late'[t] = b.scale * late[t] + d * b.scale /\ b.scale * late[t] \in Nat
    BY <1>2, <1>3, <2>1
  <2>4. d * b.scale \in Nat /\ d * total \in Nat
    BY <1>2, <1>6
  <2>5. Load(t, b)' <= Limit(t, b)
    BY <1>2, <1>6, <1>7, <1>8, <2>2, <2>3, <2>4
  <2>6. QED
    BY <1>1, <1>2, <1>9, <2>5 DEF InBalance
<1>12. CASE /\ counts /\ ~(t = Sched!HEARTBEAT \/ Sched!IsJetsonOnline)
            /\ late'[t] # 0
  <2>1. late'[t] = late[t] - d /\ late[t] > d
    BY <1>1, <1>12 DEF Sched!Waited
  <2>2. b.scale * late'[t] = b.scale * late[t] - d * b.scale /\ b.scale * late[t] \in Nat
    <3>1. PICK c \in Nat, l \in Nat : c = b.scale /\ l = late[t]
      BY <1>2, <1>3
    <3>2. c * (l - d) = c * l - d * c /\ c * l \in Nat
      BY <1>2
    <3>3. late'[t] = l - d
      BY <2>1, <3>1
    <3>4. QED
      BY <3>1, <3>2, <3>3
  <2>3. d * b.scale \in Nat /\ d * total \in Nat
    BY <1>2, <1>6
  <2>4. Load(t, b)' <= Load(t, b)
    BY <1>2, <1>6, <1>7, <1>8, <2>2, <2>3
  <2>5. Load(t, b) <= Limit(t, b) /\ Load(t, b) \in Int /\ Load(t, b)' \in Int
    BY <1>2, <1>3, <1>6, <1>7, <2>2, <2>3 DEF InBalance
  <2>6. QED
    BY <1>1, <1>2, <1>6, <1>9, <2>4, <2>5 DEF InBalance
<1>13. QED
  BY <1>1, <1>10, <1>11, <1>12

\* Every account is in balance before loop() first runs.
LEMMA BalanceInit ==
    ASSUME Sched!SchedulerAssumption, Sched!Init, NEW t \in Sched!Task, NEW b \in Account
    PROVE  InBalance(t, b)
<1>1. Sched!TypeOK
  BY SchedTypesInit
<1>2. late[t] = 0 /\ ~udpServersStarted
  BY DEF Sched!Init
<1>3. /\ age \in [Sched!Task -> Nat] /\ \A x \in Sched!Task : age[x] <= Sched!Interval[x]
      /\ Ahead(t) \in 0 .. MostAhead(t)
  BY <1>1, SchedFacts, AheadBounds
<1>4. /\ b.cost * Ahead(t) \in Nat /\ Credit(b.weight, age) \in Nat
      /\ b.cost * Ahead(t) + Credit(b.weight, age) <= Limit(t, b)
  BY <1>1, <1>3, LimitCovers
<1>5. b.scale * late[t] = 0
  BY <1>2 DEF Account
<1>6. QED
  BY <1>2, <1>4, <1>5 DEF InBalance, Load

\* An account in balance limits the wait.
LEMMA BalanceLimitsWait ==
    ASSUME Sched!SchedulerAssumption, Sched!TypeOK, NEW t \in Sched!Task, NEW b \in Account,
           Balanced(t, b), InBalance(t, b)
    PROVE  late[t] <= Slack[t]
<1>1. /\ late[t] \in Nat /\ Slack[t] \in Nat /\ b.scale \in Nat \ {0}
  BY SchedFacts DEF Account
<1>2. /\ b.cost * Ahead(t) \in Nat /\ Credit(b.weight, age) \in Nat /\ Limit(t, b) \in Nat
  BY SchedFacts, AheadBounds, LimitCovers
<1>3. b.scale * late[t] <= b.scale * Slack[t]
  BY <1>1, <1>2 DEF InBalance, Load, Balanced
<1>4. CASE late[t] >= Slack[t] + 1
  <2>1. b.scale * (Slack[t] + 1) <= b.scale * late[t]
    BY <1>1, <1>4, Multiply
  <2>2. b.scale * (Slack[t] + 1) = b.scale * Slack[t] + b.scale /\ b.scale * Slack[t] \in Nat
    BY <1>1
  <2>3. QED
    BY <1>1, <1>3, <2>1, <2>2
<1>5. QED
  BY <1>1, <1>4

\* If every task has an account that balances, no due packet gives way to others
\* for longer than its slack exceeds what it lost to the unsigned subtraction:
\* for any intervals, iterations, failures of the sockets, and however often
\* the Jetson is heard.
THEOREM SentOnTimeAlways ==
    ASSUME Schedulable
    PROVE  MCSpec => []SentOnTime
<1> USE TelemetryConstants
<1>1. \A t \in Sched!Task : AccountOf(t) \in Account /\ Balanced(t, AccountOf(t))
  BY DEF Schedulable, AccountOf
<1>2. MCInit => WaitInv
  BY <1>1, SchedTypesInit, BalanceInit DEF MCInit, WaitInv
<1>3. ASSUME WaitInv, [MCNext]_<<vars, schedVars, part>> PROVE WaitInv'
  <2>1. CASE Sched!Next
    <3>1. Sched!TypeOK'
      BY <1>3, <2>1, StartKeepsTypes, ServiceKeepsTypes DEF WaitInv, Sched!Next
    <3>2. ASSUME NEW t \in Sched!Task PROVE InBalance(t, AccountOf(t))'
      <4>1. /\ AccountOf(t) \in Account /\ Balanced(t, AccountOf(t))
            /\ InBalance(t, AccountOf(t)) /\ Sched!TypeOK
        BY <1>1, <1>3 DEF WaitInv
      <4>2. PICK b \in Account : b = AccountOf(t)
        BY <4>1
      <4>3. InBalance(t, b)'
        BY <2>1, <4>1, <4>2, StartKeepsBalance, ServiceKeepsBalance DEF Sched!Next
      <4>4. AccountOf(t)' = AccountOf(t)
        BY DEF AccountOf, Balanced, Limit
      <4>5. QED
        BY <4>2, <4>3, <4>4
    <3>3. QED
      BY <3>1, <3>2 DEF WaitInv
  <2>2. CASE UNCHANGED schedVars
    BY <1>3, <2>2 DEF WaitInv, schedVars, Sched!TypeOK, InBalance, Load, Ahead, Sched!Due,
                      Sched!Sendable, Sched!IsJetsonOnline
  <2>3. QED
    BY <1>3, <2>1, <2>2 DEF MCNext
<1>4. WaitInv => SentOnTime
  BY <1>1, BalanceLimitsWait DEF WaitInv, SentOnTime, Sched!SentOnTime
<1>5. QED
  BY <1>2, <1>3, <1>4, PTL DEF MCSpec

\* The accounts of the shipped intervals.
ShippedAccount(t) ==
    CASE t = Sched!HEARTBEAT ->
           [scale |-> 10000, cost |-> 840000,
            weight |-> [x \in Sched!Task |-> CASE x = Sched!FLOW -> 4200 [] x = Sched!DHT -> 28
                                         [] x = Sched!MONITOR -> 2516 [] OTHER -> 0]]
      [] t = Sched!STATUS ->
           [scale |-> 10000, cost |-> 920000,
            weight |-> [x \in Sched!Task |-> CASE x = Sched!FLOW -> 4600 [] x = Sched!DHT -> 31
                                         [] x = Sched!MONITOR -> 2755
                                         [] x = Sched!HEARTBEAT -> 920 [] OTHER -> 0]]
      [] t = Sched!FLOW ->
           [scale |-> 1, cost |-> 50, weight |-> [x \in Sched!Task |-> 0]]
      [] t = Sched!DHT ->
           [scale |-> 10000, cost |-> 720000,
            weight |-> [x \in Sched!Task |-> CASE x = Sched!FLOW -> 3600
                                         [] x = Sched!HEARTBEAT -> 720 [] OTHER -> 0]]
      [] t = Sched!MONITOR ->
           [scale |-> 10000, cost |-> 720000,
            weight |-> [x \in Sched!Task |-> CASE x = Sched!FLOW -> 3600 [] x = Sched!DHT -> 24
                                         [] x = Sched!HEARTBEAT -> 720 [] OTHER -> 0]]

\* The shipped intervals have accounts that balance: with iterations of up to
\* 50 ms a flow packet never gives way, DHT and monitor packets at most 290 ms,
\* a heartbeat 340 ms and a status packet 370 ms, plus what they lost.
THEOREM ShippedIntervalsOnTime ==
    ASSUME Shipped
    PROVE  MCSpec => []SentOnTime
<1> USE DEF Sched!FLOW, Sched!DHT, Sched!MONITOR, Sched!HEARTBEAT, Sched!STATUS
<1>1. Sched!Task = {0, 1, 2, 3, 4}
  BY DEF Sched!Task
<1>2. /\ Sched!Interval[0] = 1000 /\ Sched!Interval[1] = 100 /\ Sched!Interval[2] = 200
      /\ Sched!Interval[3] = 30000 /\ Sched!Interval[4] = 334
  BY <1>1 DEF Shipped, Sched!Interval
<1>3. Slack[0] = 340 /\ Slack[1] = 370 /\ Slack[2] = 0 /\ Slack[3] = 290 /\ Slack[4] = 290
  BY <1>1 DEF Shipped
<1>4. MaxSendIteration = 50
  BY DEF Shipped
<1>5. ASSUME NEW t \in Sched!Task
      PROVE  ShippedAccount(t) \in Account /\ Balanced(t, ShippedAccount(t))
  <2>1. CASE t = 0
    <3> DEFINE b == ShippedAccount(t)
    <3>1. /\ b.scale = 10000 /\ b.cost = 840000 /\ b \in Account
          /\ b.weight[0] = 0 /\ b.weight[1] = 0 /\ b.weight[2] = 4200
          /\ b.weight[3] = 28 /\ b.weight[4] = 2516
      BY <1>1, <2>1 DEF ShippedAccount, Account
    <3>2. Rivals(t) = {2, 3, 4} /\ MostAhead(t) = 1
      BY <2>1 DEF Rivals, MostAhead
    <3> HIDE DEF b
    <3>3. Balanced(t, b)
      BY <1>2, <1>3, <1>4, <2>1, <3>1, <3>2 DEF Balanced, Total, Limit, Credit
    <3>4. QED
      BY <3>1, <3>3 DEF b
  <2>2. CASE t = 1
    <3> DEFINE b == ShippedAccount(t)
    <3>1. /\ b.scale = 10000 /\ b.cost = 920000 /\ b \in Account
          /\ b.weight[0] = 920 /\ b.weight[1] = 0 /\ b.weight[2] = 4600
          /\ b.weight[3] = 31 /\ b.weight[4] = 2755
      BY <1>1, <2>2 DEF ShippedAccount, Account
    <3>2. Rivals(t) = {0, 2, 3, 4} /\ MostAhead(t) = 0
      BY <1>1, <2>2 DEF Rivals, MostAhead
    <3> HIDE DEF b
    <3>3. Balanced(t, b)
      BY <1>2, <1>3, <1>4, <2>2, <3>1, <3>2 DEF Balanced, Total, Limit, Credit
    <3>4. QED
      BY <3>1, <3>3 DEF b
  <2>3. CASE t = 2
    <3> DEFINE b == ShippedAccount(t)
    <3>1. /\ b.scale = 1 /\ b.cost = 50 /\ b \in Account
          /\ b.weight[0] = 0 /\ b.weight[1] = 0 /\ b.weight[2] = 0
          /\ b.weight[3] = 0 /\ b.weight[4] = 0
      BY <1>1, <2>3 DEF ShippedAccount, Account
    <3>2. Rivals(t) = {} /\ MostAhead(t) = 0
      BY <2>3 DEF Rivals, MostAhead
    <3> HIDE DEF b
    <3>3. Balanced(t, b)
      BY <1>2, <1>3, <1>4, <2>3, <3>1, <3>2 DEF Balanced, Total, Limit, Credit
    <3>4. QED
      BY <3>1, <3>3 DEF b
  <2>4. CASE t = 3
    <3> DEFINE b == ShippedAccount(t)
    <3>1. /\ b.scale = 10000 /\ b.cost = 720000 /\ b \in Account
          /\ b.weight[0] = 720 /\ b.weight[1] = 0 /\ b.weight[2] = 3600
          /\ b.weight[3] = 0 /\ b.weight[4] = 0
      BY <1>1, <2>4 DEF ShippedAccount, Account
    <3>2. Rivals(t) = {0, 2} /\ MostAhead(t) = 2
      BY <2>4 DEF Rivals, MostAhead
    <3> HIDE DEF b
    <3>3. Balanced(t, b)
      BY <1>2, <1>3, <1>4, <2>4, <3>1, <3>2 DEF Balanced, Total, Limit, Credit
    <3>4. QED
      BY <3>1, <3>3 DEF b
  <2>5. CASE t = 4
    <3> DEFINE b == ShippedAccount(t)
    <3>1. /\ b.scale = 10000 /\ b.cost = 720000 /\ b \in Account
          /\ b.weight[0] = 720 /\ b.weight[1] = 0 /\ b.weight[2] = 3600
          /\ b.weight[3] = 24 /\ b.weight[4] = 0
      BY <1>1, <2>5 DEF ShippedAccount, Account
    <3>2. Rivals(t) = {0, 2, 3} /\ MostAhead(t) = 1
      BY <2>5 DEF Rivals, MostAhead
    <3> HIDE DEF b
    <3>3. Balanced(t, b)
      BY <1>2, <1>3, <1>4, <2>5, <3>1, <3>2 DEF Balanced, Total, Limit, Credit
    <3>4. QED
      BY <3>1, <3>3 DEF b
  <2>6. QED
    BY <1>1, <2>1, <2>2, <2>3, <2>4, <2>5
<1>6. Schedulable
  BY <1>5 DEF Schedulable
<1>7. QED
  BY <1>6, SentOnTimeAlways
=============================================================================

------------------------- MODULE EvidenceAgentsProofs ------------------------
(***************************************************************************)
(* Proofs about EvidenceAgents, for any requests, limits and answers.      *)
(***************************************************************************)
EXTENDS EvidenceAgents, TLAPS, FiniteSetTheorems, WellFoundedInduction, NaturalsInduction

-----------------------------------------------------------------------------
(* Folds.  What a fold over a sequence returns is shown by the least place *)
(* where it would go wrong.                                                *)

LEMMA LeastNumber ==
  ASSUME NEW T \in SUBSET Nat, T # {}
  PROVE  \E n \in T : \A m \in T : n <= m
<1>1. PICK n \in T : \A m \in T : ~ (<<m, n>> \in OpToRel(<, Nat))
  BY WFMin, NatLessThanWellFounded
<1>2. ASSUME NEW m \in T PROVE n <= m
  <2>1. ~ (m < n)
    BY <1>1 DEF OpToRel
  <2> QED
    BY <2>1
<1> QED
  BY <1>2

LEMMA MaxOf ==
  ASSUME NEW k \in Nat, NEW s \in SUBSET (1..k), s # {}
  PROVE  Max(s) \in s /\ \A y \in s : Max(s) >= y
<1> DEFINE T == {k - y : y \in s}
<1>1. T \subseteq Nat /\ T # {}
  <2>1. \A y \in s : y \in 1..k
    OBVIOUS
  <2>2. \A y \in 1..k : k - y \in Nat
    OBVIOUS
  <2> QED
    BY <2>1, <2>2
<1>2. PICK n \in T : \A m \in T : n <= m
  BY <1>1, LeastNumber
<1>3. PICK x \in s : n = k - x
  OBVIOUS
<1>4. \A y \in s : x >= y
  <2> TAKE y \in s
  <2>1. n <= k - y
    BY <1>2
  <2>2. x \in 1..k /\ y \in 1..k
    OBVIOUS
  <2> HIDE DEF T
  <2> QED
    BY <1>3, <2>1, <2>2
<1> QED
  BY <1>4 DEF Max

\* A fold over a sequence of length n whose step is G has a value for every set of
\* places.
Folded(A, base, G, k, iter) ==
  /\ iter \in [SUBSET (1..k) -> A]
  /\ iter = [s \in SUBSET (1..k) |-> IF s = {} THEN base ELSE G[<<iter[s \ {Max(s)}], Max(s)>>]]

LEMMA FoldExists ==
  ASSUME NEW A, NEW base \in A, NEW n \in Nat, NEW G \in [A \X (1..n) -> A]
  PROVE  \E iter : Folded(A, base, G, n, iter)
<1> DEFINE T == {k \in 0..n : ~ \E iter : Folded(A, base, G, k, iter)}
<1>1. SUFFICES ASSUME T # {} PROVE FALSE
  <2>1. n \in 0..n
    OBVIOUS
  <2> QED
    BY <2>1
<1>2. PICK k \in T : \A m \in T : k <= m
  <2>1. T \in SUBSET Nat
    OBVIOUS
  <2> HIDE DEF T
  <2> QED
    BY <1>1, <2>1, LeastNumber
<1>3. CASE k = 0
  <2>1. SUBSET (1..0) = {{}}
    OBVIOUS
  <2>2. Folded(A, base, G, 0, [s \in SUBSET (1..0) |-> base])
    BY <2>1 DEF Folded
  <2> QED
    BY <1>2, <1>3, <2>2
<1>4. CASE k # 0
  <2>1. k \in 1..n /\ k - 1 \in 0..n /\ k - 1 \notin T
    BY <1>2, <1>4
  <2>2. PICK g : Folded(A, base, G, k - 1, g)
    BY <2>1
  <2> DEFINE h == [s \in SUBSET (1..k) |->
                     IF k \in s THEN G[<<g[s \ {k}], k>>] ELSE g[s]]
  <2>3. \A s \in SUBSET (1..k) : s \ {k} \in SUBSET (1..k-1)
    BY <2>1
  <2>4. \A s \in SUBSET (1..k) : k \in s => Max(s) = k
    <3> TAKE s \in SUBSET (1..k)
    <3> HAVE k \in s
    <3>1. s # {} /\ k \in Nat /\ s \subseteq 1..k
      BY <2>1
    <3>2. Max(s) \in s /\ Max(s) >= k
      BY <3>1, MaxOf
    <3>3. Max(s) \in 1..k
      BY <3>1, <3>2
    <3> QED
      BY <2>1, <3>2, <3>3
  <2>5. \A s \in SUBSET (1..k) : k \notin s => s \in SUBSET (1..k-1)
    BY <2>1
  <2>6. g \in [SUBSET (1..k-1) -> A]
    BY <2>2 DEF Folded
  <2>7. h \in [SUBSET (1..k) -> A]
    BY <2>1, <2>3, <2>5, <2>6
  <2>8. ASSUME NEW s \in SUBSET (1..k)
        PROVE  h[s] = IF s = {} THEN base ELSE G[<<h[s \ {Max(s)}], Max(s)>>]
    <3>1. CASE k \in s
      <4>1. k \notin s \ {k} /\ s \ {k} \in SUBSET (1..k)
        OBVIOUS
      <4>2. h[s \ {k}] = g[s \ {k}]
        BY <4>1
      <4> QED
        BY <2>4, <3>1, <4>2
    <3>2. CASE k \notin s
      <4>1. s \in SUBSET (1..k-1) /\ h[s] = g[s]
        BY <2>5, <3>2
      <4>2. g[s] = IF s = {} THEN base ELSE G[<<g[s \ {Max(s)}], Max(s)>>]
        BY <2>2, <4>1 DEF Folded
      <4>3. h[s \ {Max(s)}] = g[s \ {Max(s)}]
        BY <3>2
      <4> QED
        BY <4>1, <4>2, <4>3
    <3> QED
      BY <3>1, <3>2
  <2>9. Folded(A, base, G, k, h)
    <3> HIDE DEF h
    <3>1. h = [s \in SUBSET (1..k) |-> h[s]]
      BY <2>7
    <3>2. [s \in SUBSET (1..k) |-> h[s]] =
          [s \in SUBSET (1..k) |-> IF s = {} THEN base ELSE G[<<h[s \ {Max(s)}], Max(s)>>]]
      BY <2>8
    <3> QED
      BY <2>7, <3>1, <3>2 DEF Folded
  <2> QED
    BY <1>2, <2>1, <2>9
<1> QED
  BY <1>3, <1>4

\* The values of a fold for the initial segments: its value after each element.
Traces(A, base, G, n, it, trace) ==
  /\ trace \in [0..n -> A]
  /\ trace[0] = base
  /\ \A k \in 1..n : trace[k] = G[<<trace[k - 1], k>>]
  /\ trace[n] = it[1..n]

LEMMA FoldTraces ==
  ASSUME NEW A, NEW base \in A, NEW n \in Nat, NEW G \in [A \X (1..n) -> A], NEW it,
         it[{}] = base,
         \A s \in SUBSET (1..n) : s # {} /\ it[s \ {Max(s)}] \in A =>
           it[s] = G[<<it[s \ {Max(s)}], Max(s)>>]
  PROVE  \E trace : Traces(A, base, G, n, it, trace)
<1> DEFINE T == {k \in 0..n : it[1..k] \notin A}
           trace == [k \in 0..n |-> it[1..k]]
<1>1. 1..0 = {}
  OBVIOUS
<1>2. ASSUME NEW k \in 1..n
      PROVE  /\ 1..k \in SUBSET (1..n) /\ 1..k # {} /\ Max(1..k) = k
             /\ (1..k) \ {k} = 1..k - 1
  <2>1. k \in Nat /\ k \in 1..k
    OBVIOUS
  <2>2. Max(1..k) \in 1..k /\ Max(1..k) >= k
    BY <2>1, MaxOf
  <2> QED
    BY <2>1, <2>2
<1>3. \A k \in 1..n : it[1..k - 1] \in A => it[1..k] = G[<<it[1..k - 1], k>>]
  BY <1>2
<1>4. \A k \in 1..n : k - 1 \in 0..n
  OBVIOUS
<1>5. T = {}
  <2> SUFFICES ASSUME T # {} PROVE FALSE
    OBVIOUS
  <2>1. PICK k \in T : \A m \in T : k <= m
    <3>1. T \in SUBSET Nat
      OBVIOUS
    <3> HIDE DEF T
    <3> QED
      BY <3>1, LeastNumber
  <2>2. k # 0
    BY <1>1
  <2>3. k \in 1..n /\ k - 1 \in 0..n /\ ~ (k <= k - 1)
    BY <2>2
  <2>4. it[1..k - 1] \in A
    BY <2>1, <2>3
  <2>5. it[1..k] = G[<<it[1..k - 1], k>>]
    BY <1>3, <2>3, <2>4
  <2> QED
    BY <2>3, <2>4, <2>5
<1>6. \A k \in 0..n : it[1..k] \in A
  BY <1>5
<1>7. trace \in [0..n -> A] /\ 0 \in 0..n /\ n \in 0..n
  BY <1>6
<1>8. \A k \in 1..n : trace[k] = G[<<trace[k - 1], k>>]
  BY <1>3, <1>4, <1>6
<1>9. Traces(A, base, G, n, it, trace)
  BY <1>1, <1>7, <1>8 DEF Traces
<1> QED
  BY <1>9

\* What holds of the value of a fold after each element.
LEMMA TraceStays ==
  ASSUME NEW A, NEW base, NEW n \in Nat, NEW G, NEW it, NEW trace,
         Traces(A, base, G, n, it, trace),
         NEW I, base \in I[0], \A k \in 1..n : \A a \in I[k - 1] : G[<<a, k>>] \in I[k]
  PROVE  it[1..n] \in I[n]
<1> DEFINE T == {k \in 0..n : trace[k] \notin I[k]}
<1>1. T = {}
  <2> SUFFICES ASSUME T # {} PROVE FALSE
    OBVIOUS
  <2>1. PICK k \in T : \A m \in T : k <= m
    <3>1. T \in SUBSET Nat
      OBVIOUS
    <3> HIDE DEF T
    <3> QED
      BY <3>1, LeastNumber
  <2>2. k # 0
    BY DEF Traces
  <2>3. k \in 1..n /\ k - 1 \in 0..n /\ ~ (k <= k - 1)
    BY <2>2
  <2>4. trace[k - 1] \in I[k - 1]
    BY <2>1, <2>3
  <2>5. trace[k] \in I[k]
    BY <2>3, <2>4 DEF Traces
  <2> QED
    BY <2>5
<1> QED
  BY <1>1 DEF Traces

LEMMA FirstOnes ==
  ASSUME NEW X, NEW w \in Seq(X)
  PROVE  Considered(w) \in Seq(X)
<1> DEFINE m == Min({MaxRequests, Len(w)})
<1>1. MaxRequests \in Nat /\ Len(w) \in Nat
  BY AgentAssumption
<1>2. \E x \in {MaxRequests, Len(w)} : \A y \in {MaxRequests, Len(w)} : x <= y
  BY <1>1
<1>3. m \in {MaxRequests, Len(w)} /\ m <= Len(w)
  BY <1>2 DEF Min
<1>4. m \in 0..Len(w)
  BY <1>1, <1>3
<1> HIDE DEF m
<1>5. SubSeq(w, 1, m) \in Seq(X)
  BY <1>1, <1>4
<1> QED
  BY <1>5 DEF Considered, m

LEMMA BuildsPermitted ==
  ASSUME NEW X, NEW w \in Seq(X), NEW P
  PROVE  Build(w, P) \in Seq(P)
<1> DEFINE c == Considered(w)
           n == Len(c)
           A == Seq(P)
           G == [p \in A \X (1..n) |->
                   IF c[p[2]] \in P \ (seen \cup Range(p[1])) THEN Append(p[1], c[p[2]]) ELSE p[1]]
           Eq(f) == f = [s \in SUBSET DOMAIN c |->
                      IF s = {} THEN <<>>
                      ELSE IF c[Max(s)] \in P \ (seen \cup Range(f[s \ {Max(s)}]))
                           THEN Append(f[s \ {Max(s)}], c[Max(s)])
                           ELSE f[s \ {Max(s)}]]
           it == CHOOSE f : Eq(f)
<1>0. c \in Seq(X)
  BY FirstOnes
<1>1. Build(w, P) = it[DOMAIN c]
  BY DEF Build, FoldLeft, MapThenFoldSet
<1> HIDE DEF c
<1>2. DOMAIN c = 1..n /\ n \in Nat
  BY <1>0
<1>3. G \in [A \X (1..n) -> A] /\ <<>> \in A
  BY <1>2
<1>4. \E f : Eq(f)
  <2>1. PICK f : Folded(A, <<>>, G, n, f)
    <3> HIDE DEF G, n, A
    <3> QED
      BY <1>2, <1>3, FoldExists
  <2>2. ASSUME NEW s \in SUBSET (1..n), s # {}
        PROVE  Max(s) \in 1..n /\ s \ {Max(s)} \in SUBSET (1..n) /\ f[s \ {Max(s)}] \in A
    <3>1. Max(s) \in s
      BY <1>2, <2>2, MaxOf
    <3> QED
      BY <2>1, <3>1 DEF Folded
  <2>3. \A s \in SUBSET (1..n) : s # {} =>
          G[<<f[s \ {Max(s)}], Max(s)>>] =
            IF c[Max(s)] \in P \ (seen \cup Range(f[s \ {Max(s)}]))
            THEN Append(f[s \ {Max(s)}], c[Max(s)])
            ELSE f[s \ {Max(s)}]
    BY <2>2
  <2>4. Eq(f)
    <3> HIDE DEF G
    <3> QED
      BY <1>2, <2>1, <2>3, Zenon DEF Folded
  <2> QED
    BY <2>4
<1>5. Eq(it)
  BY <1>4, Zenon
<1> HIDE DEF it
<1>6. it[{}] = <<>>
  BY <1>5
<1>7. ASSUME NEW s \in SUBSET (1..n), s # {}, it[s \ {Max(s)}] \in A
      PROVE  it[s] = G[<<it[s \ {Max(s)}], Max(s)>>]
  <2>1. Max(s) \in 1..n
    BY <1>2, <1>7, MaxOf
  <2> QED
    BY <1>2, <1>5, <1>7, <2>1
<1>8. PICK t : Traces(A, <<>>, G, n, it, t)
  <2> HIDE DEF G, n, A
  <2> QED
    BY <1>2, <1>3, <1>6, <1>7, FoldTraces
<1> QED
  BY <1>1, <1>2, <1>8 DEF Traces

-----------------------------------------------------------------------------
(* An instance of an agent's module has its own copy of the frame.         *)

LEMMA FundamentalFrame ==
  /\ \A w, P : Fundamental!Build(w, P) = Build(w, P)
  /\ Fundamental!Written = Written
  /\ \A f : Fundamental!Range(f) = Range(f)
  /\ \A b : Fundamental!TasksOf(b) = TasksOf(b)
  /\ \A t, c : Fundamental!Plans(t, c) = Plans(t, c)
  /\ \A s : Fundamental!AcquireSnapshot(s) <=> AcquireSnapshot(s)
  /\ \A a, d, b : Fundamental!AnalyzeDaily(a, d, b) <=> AnalyzeDaily(a, d, b)
  /\ \A p : Fundamental!PlanTargeted(p) <=> PlanTargeted(p)
  /\ \A a, d, b : Fundamental!ReviewRound(a, d, b) <=> ReviewRound(a, d, b)
  /\ \A p, r : Fundamental!FinalizeRun(p, r) <=> FinalizeRun(p, r)
  /\ \A t, s, u, rs, re : Fundamental!Answers(t, s, u, rs, re) = Answers(t, s, u, rs, re)
  /\ \A o, re : Fundamental!Ask(o, re) <=> Ask(o, re)
  /\ \A n : Fundamental!NextTask(n) <=> NextTask(n)
  /\ \A t : Fundamental!StartRound(t) <=> StartRound(t)
  /\ \A s : Fundamental!Cardinality(s) = Cardinality(s)
<1>1. \A w, P : Fundamental!Build(w, P) = Build(w, P)
  BY DEF Fundamental!Build, Build, Fundamental!FoldLeft, FoldLeft,
         Fundamental!MapThenFoldSet, MapThenFoldSet, Fundamental!Max, Max,
         Fundamental!Range, Range, Fundamental!Considered, Considered, Fundamental!Min,
         Min
<1>2. Fundamental!Written = Written
  BY DEF Fundamental!Written, Written, Fundamental!BoundedSeq, BoundedSeq,
         Fundamental!SeqOf, SeqOf
<1>3. \A f : Fundamental!Range(f) = Range(f)
  BY DEF Fundamental!Range, Range
<1>4. \A b : Fundamental!TasksOf(b) = TasksOf(b)
  BY <1>2 DEF Fundamental!TasksOf, TasksOf, Fundamental!Considered, Considered,
              Fundamental!Min, Min
<1>5. \A t, c : Fundamental!Plans(t, c) = Plans(t, c)
  BY DEF Fundamental!Plans, Plans, Fundamental!Range, Range
<1>6. \A s : Fundamental!AcquireSnapshot(s) <=> AcquireSnapshot(s)
  BY DEF Fundamental!AcquireSnapshot, AcquireSnapshot, Fundamental!fixed, fixed,
         Fundamental!Observation, Observation, Fundamental!SnapshotResults,
         SnapshotResults
<1>7. \A a, d, b : Fundamental!AnalyzeDaily(a, d, b) <=> AnalyzeDaily(a, d, b)
  BY <1>4 DEF Fundamental!AnalyzeDaily, AnalyzeDaily, Fundamental!fixed, fixed,
              Fundamental!ModelFails, ModelFails, Fundamental!DraftsOf, DraftsOf,
              Fundamental!Begin, Begin, Fundamental!Range, Range
<1>8. \A p : Fundamental!PlanTargeted(p) <=> PlanTargeted(p)
  BY DEF Fundamental!PlanTargeted, PlanTargeted, Fundamental!fixed, fixed,
         Fundamental!ModelFails, ModelFails, Fundamental!Begin, Begin, Fundamental!Range,
         Range
<1>9. \A a, d, b : Fundamental!ReviewRound(a, d, b) <=> ReviewRound(a, d, b)
  BY <1>4, ZenonT(30) DEF Fundamental!ReviewRound, ReviewRound, Fundamental!fixed, fixed,
              Fundamental!DraftsOf, DraftsOf, Fundamental!Range, Range
<1>10. \A p, r : Fundamental!FinalizeRun(p, r) <=> FinalizeRun(p, r)
  BY DEF Fundamental!FinalizeRun, FinalizeRun, Fundamental!fixed, fixed, Fundamental!Closed,
         Closed, Fundamental!Valid, Valid
<1>11. \A t, s, u, rs, re : Fundamental!Answers(t, s, u, rs, re) = Answers(t, s, u, rs, re)
  BY DEF Fundamental!Answers, Answers, Fundamental!Found, Found, Fundamental!Observation,
         Observation
<1>12. \A o, re : Fundamental!Ask(o, re) <=> Ask(o, re)
  BY DEF Fundamental!Ask, Ask
<1>13. \A n : Fundamental!NextTask(n) <=> NextTask(n)
  BY DEF Fundamental!NextTask, NextTask, Fundamental!Task, Task
<1>14. \A t : Fundamental!StartRound(t) <=> StartRound(t)
  BY DEF Fundamental!StartRound, StartRound, Fundamental!fixed, fixed, Fundamental!Task,
         Task
<1>15. \A s : Fundamental!Cardinality(s) = Cardinality(s)
  BY DEF Fundamental!Cardinality, Cardinality
<1> QED
  BY <1>1, <1>2, <1>3, <1>4, <1>5, <1>6, <1>7, <1>8, <1>9, <1>10, <1>11, <1>12, <1>13, <1>14, <1>15

LEMMA EventFrame ==
  /\ \A w, P : Event!Build(w, P) = Build(w, P)
  /\ Event!Written = Written
  /\ \A f : Event!Range(f) = Range(f)
  /\ \A b : Event!TasksOf(b) = TasksOf(b)
  /\ \A t, c : Event!Plans(t, c) = Plans(t, c)
  /\ \A s : Event!AcquireSnapshot(s) <=> AcquireSnapshot(s)
  /\ \A a, d, b : Event!AnalyzeDaily(a, d, b) <=> AnalyzeDaily(a, d, b)
  /\ \A p : Event!PlanTargeted(p) <=> PlanTargeted(p)
  /\ \A a, d, b : Event!ReviewRound(a, d, b) <=> ReviewRound(a, d, b)
  /\ \A p, r : Event!FinalizeRun(p, r) <=> FinalizeRun(p, r)
  /\ \A t, s, u, rs, re : Event!Answers(t, s, u, rs, re) = Answers(t, s, u, rs, re)
  /\ \A o, re : Event!Ask(o, re) <=> Ask(o, re)
  /\ \A n : Event!NextTask(n) <=> NextTask(n)
  /\ \A s : Event!Cardinality(s) = Cardinality(s)
<1>1. \A w, P : Event!Build(w, P) = Build(w, P)
  BY DEF Event!Build, Build, Event!FoldLeft, FoldLeft, Event!MapThenFoldSet, MapThenFoldSet,
         Event!Max, Max, Event!Range, Range, Event!Considered, Considered, Event!Min, Min
<1>2. Event!Written = Written
  BY DEF Event!Written, Written, Event!BoundedSeq, BoundedSeq, Event!SeqOf, SeqOf
<1>3. \A f : Event!Range(f) = Range(f)
  BY DEF Event!Range, Range
<1>4. \A b : Event!TasksOf(b) = TasksOf(b)
  BY <1>2 DEF Event!TasksOf, TasksOf, Event!Considered, Considered, Event!Min, Min
<1>5. \A t, c : Event!Plans(t, c) = Plans(t, c)
  BY DEF Event!Plans, Plans, Event!Range, Range
<1>6. \A s : Event!AcquireSnapshot(s) <=> AcquireSnapshot(s)
  BY DEF Event!AcquireSnapshot, AcquireSnapshot, Event!fixed, fixed, Event!Observation,
         Observation, Event!SnapshotResults, SnapshotResults
<1>7. \A a, d, b : Event!AnalyzeDaily(a, d, b) <=> AnalyzeDaily(a, d, b)
  BY <1>4 DEF Event!AnalyzeDaily, AnalyzeDaily, Event!fixed, fixed, Event!ModelFails,
              ModelFails, Event!DraftsOf, DraftsOf, Event!Begin, Begin, Event!Range, Range
<1>8. \A p : Event!PlanTargeted(p) <=> PlanTargeted(p)
  BY DEF Event!PlanTargeted, PlanTargeted, Event!fixed, fixed, Event!ModelFails, ModelFails,
         Event!Begin, Begin, Event!Range, Range
<1>9. \A a, d, b : Event!ReviewRound(a, d, b) <=> ReviewRound(a, d, b)
  BY <1>4 DEF Event!ReviewRound, ReviewRound, Event!fixed, fixed, Event!DraftsOf, DraftsOf,
              Event!Range, Range
<1>10. \A p, r : Event!FinalizeRun(p, r) <=> FinalizeRun(p, r)
  BY DEF Event!FinalizeRun, FinalizeRun, Event!fixed, fixed, Event!Closed,
         Closed, Event!Valid, Valid
<1>11. \A t, s, u, rs, re : Event!Answers(t, s, u, rs, re) = Answers(t, s, u, rs, re)
  BY DEF Event!Answers, Answers, Event!Found, Found, Event!Observation, Observation
<1>12. \A o, re : Event!Ask(o, re) <=> Ask(o, re)
  BY DEF Event!Ask, Ask
<1>13. \A n : Event!NextTask(n) <=> NextTask(n)
  BY DEF Event!NextTask, NextTask, Event!Task, Task
<1>14. \A s : Event!Cardinality(s) = Cardinality(s)
  BY DEF Event!Cardinality, Cardinality
<1> QED
  BY <1>1, <1>2, <1>3, <1>4, <1>5, <1>6, <1>7, <1>8, <1>9, <1>10, <1>11, <1>12, <1>13, <1>14

LEMMA SentimentFrame ==
  /\ \A w, P : Sentiment!Build(w, P) = Build(w, P)
  /\ Sentiment!Written = Written
  /\ \A f : Sentiment!Range(f) = Range(f)
  /\ \A b : Sentiment!TasksOf(b) = TasksOf(b)
  /\ \A t, c : Sentiment!Plans(t, c) = Plans(t, c)
  /\ \A s : Sentiment!AcquireSnapshot(s) <=> AcquireSnapshot(s)
  /\ \A a, d, b : Sentiment!AnalyzeDaily(a, d, b) <=> AnalyzeDaily(a, d, b)
  /\ \A p : Sentiment!PlanTargeted(p) <=> PlanTargeted(p)
  /\ \A a, d, b : Sentiment!ReviewRound(a, d, b) <=> ReviewRound(a, d, b)
  /\ \A p, r : Sentiment!FinalizeRun(p, r) <=> FinalizeRun(p, r)
  /\ \A t, s, u, rs, re : Sentiment!Answers(t, s, u, rs, re) = Answers(t, s, u, rs, re)
  /\ \A o, re : Sentiment!Ask(o, re) <=> Ask(o, re)
  /\ \A n : Sentiment!NextTask(n) <=> NextTask(n)
  /\ \A t : Sentiment!StartRound(t) <=> StartRound(t)
  /\ \A c : Sentiment!Reserve(c) = Reserve(c)
<1>1. \A w, P : Sentiment!Build(w, P) = Build(w, P)
  BY DEF Sentiment!Build, Build, Sentiment!FoldLeft, FoldLeft, Sentiment!MapThenFoldSet,
         MapThenFoldSet, Sentiment!Max, Max, Sentiment!Range, Range, Sentiment!Considered,
         Considered, Sentiment!Min, Min
<1>2. Sentiment!Written = Written
  BY DEF Sentiment!Written, Written, Sentiment!BoundedSeq, BoundedSeq, Sentiment!SeqOf,
         SeqOf
<1>3. \A f : Sentiment!Range(f) = Range(f)
  BY DEF Sentiment!Range, Range
<1>4. \A b : Sentiment!TasksOf(b) = TasksOf(b)
  BY <1>2 DEF Sentiment!TasksOf, TasksOf, Sentiment!Considered, Considered, Sentiment!Min,
              Min
<1>5. \A t, c : Sentiment!Plans(t, c) = Plans(t, c)
  BY DEF Sentiment!Plans, Plans, Sentiment!Range, Range
<1>6. \A s : Sentiment!AcquireSnapshot(s) <=> AcquireSnapshot(s)
  BY DEF Sentiment!AcquireSnapshot, AcquireSnapshot, Sentiment!fixed, fixed,
         Sentiment!Observation, Observation, Sentiment!SnapshotResults, SnapshotResults
<1>7. \A a, d, b : Sentiment!AnalyzeDaily(a, d, b) <=> AnalyzeDaily(a, d, b)
  BY <1>4 DEF Sentiment!AnalyzeDaily, AnalyzeDaily, Sentiment!fixed, fixed,
              Sentiment!ModelFails, ModelFails, Sentiment!DraftsOf, DraftsOf,
              Sentiment!Begin, Begin, Sentiment!Range, Range
<1>8. \A p : Sentiment!PlanTargeted(p) <=> PlanTargeted(p)
  BY DEF Sentiment!PlanTargeted, PlanTargeted, Sentiment!fixed, fixed, Sentiment!ModelFails,
         ModelFails, Sentiment!Begin, Begin, Sentiment!Range, Range
<1>9. \A a, d, b : Sentiment!ReviewRound(a, d, b) <=> ReviewRound(a, d, b)
  BY <1>4 DEF Sentiment!ReviewRound, ReviewRound, Sentiment!fixed, fixed,
              Sentiment!DraftsOf, DraftsOf, Sentiment!Range, Range
<1>10. \A p, r : Sentiment!FinalizeRun(p, r) <=> FinalizeRun(p, r)
  BY DEF Sentiment!FinalizeRun, FinalizeRun, Sentiment!fixed, fixed, Sentiment!Closed,
         Closed, Sentiment!Valid, Valid
<1>11. \A t, s, u, rs, re : Sentiment!Answers(t, s, u, rs, re) = Answers(t, s, u, rs, re)
  BY DEF Sentiment!Answers, Answers, Sentiment!Found, Found, Sentiment!Observation,
         Observation
<1>12. \A o, re : Sentiment!Ask(o, re) <=> Ask(o, re)
  BY DEF Sentiment!Ask, Ask
<1>13. \A n : Sentiment!NextTask(n) <=> NextTask(n)
  BY DEF Sentiment!NextTask, NextTask, Sentiment!Task, Task
<1>14. \A t : Sentiment!StartRound(t) <=> StartRound(t)
  BY DEF Sentiment!StartRound, StartRound, Sentiment!fixed, fixed, Sentiment!Task, Task
<1>15. \A c : Sentiment!Reserve(c) = Reserve(c)
  BY DEF Sentiment!Reserve, Reserve, Sentiment!FoldLeft, FoldLeft, Sentiment!MapThenFoldSet,
         MapThenFoldSet, Sentiment!Max, Max, Sentiment!Left, Left
<1> QED
  BY <1>1, <1>2, <1>3, <1>4, <1>5, <1>6, <1>7, <1>8, <1>9, <1>10, <1>11, <1>12, <1>13, <1>14, <1>15

LEMMA TechnicalFrame ==
  /\ \A w, P : Technical!Build(w, P) = Build(w, P)
  /\ Technical!Written = Written
  /\ \A f : Technical!Range(f) = Range(f)
  /\ \A b : Technical!TasksOf(b) = TasksOf(b)
  /\ \A t, c : Technical!Plans(t, c) = Plans(t, c)
  /\ \A s : Technical!AcquireSnapshot(s) <=> AcquireSnapshot(s)
  /\ \A a, d, b : Technical!AnalyzeDaily(a, d, b) <=> AnalyzeDaily(a, d, b)
  /\ \A p : Technical!PlanTargeted(p) <=> PlanTargeted(p)
  /\ \A a, d, b : Technical!ReviewRound(a, d, b) <=> ReviewRound(a, d, b)
  /\ \A p, r : Technical!FinalizeRun(p, r) <=> FinalizeRun(p, r)
  /\ \A t, s, u, rs, re : Technical!Answers(t, s, u, rs, re) = Answers(t, s, u, rs, re)
  /\ \A o, re : Technical!Ask(o, re) <=> Ask(o, re)
  /\ \A n : Technical!NextTask(n) <=> NextTask(n)
  /\ \A t : Technical!StartRound(t) <=> StartRound(t)
  /\ \A c : Technical!Reserve(c) = Reserve(c)
<1>1. \A w, P : Technical!Build(w, P) = Build(w, P)
  BY DEF Technical!Build, Build, Technical!FoldLeft, FoldLeft, Technical!MapThenFoldSet,
         MapThenFoldSet, Technical!Max, Max, Technical!Range, Range, Technical!Considered,
         Considered, Technical!Min, Min
<1>2. Technical!Written = Written
  BY DEF Technical!Written, Written, Technical!BoundedSeq, BoundedSeq, Technical!SeqOf,
         SeqOf
<1>3. \A f : Technical!Range(f) = Range(f)
  BY DEF Technical!Range, Range
<1>4. \A b : Technical!TasksOf(b) = TasksOf(b)
  BY <1>2 DEF Technical!TasksOf, TasksOf, Technical!Considered, Considered, Technical!Min,
              Min
<1>5. \A t, c : Technical!Plans(t, c) = Plans(t, c)
  BY DEF Technical!Plans, Plans, Technical!Range, Range
<1>6. \A s : Technical!AcquireSnapshot(s) <=> AcquireSnapshot(s)
  BY DEF Technical!AcquireSnapshot, AcquireSnapshot, Technical!fixed, fixed,
         Technical!Observation, Observation, Technical!SnapshotResults, SnapshotResults
<1>7. \A a, d, b : Technical!AnalyzeDaily(a, d, b) <=> AnalyzeDaily(a, d, b)
  BY <1>4 DEF Technical!AnalyzeDaily, AnalyzeDaily, Technical!fixed, fixed,
              Technical!ModelFails, ModelFails, Technical!DraftsOf, DraftsOf,
              Technical!Begin, Begin, Technical!Range, Range
<1>8. \A p : Technical!PlanTargeted(p) <=> PlanTargeted(p)
  BY DEF Technical!PlanTargeted, PlanTargeted, Technical!fixed, fixed, Technical!ModelFails,
         ModelFails, Technical!Begin, Begin, Technical!Range, Range
<1>9. \A a, d, b : Technical!ReviewRound(a, d, b) <=> ReviewRound(a, d, b)
  BY <1>4 DEF Technical!ReviewRound, ReviewRound, Technical!fixed, fixed,
              Technical!DraftsOf, DraftsOf, Technical!Range, Range
<1>10. \A p, r : Technical!FinalizeRun(p, r) <=> FinalizeRun(p, r)
  BY DEF Technical!FinalizeRun, FinalizeRun, Technical!fixed, fixed, Technical!Closed,
         Closed, Technical!Valid, Valid
<1>11. \A t, s, u, rs, re : Technical!Answers(t, s, u, rs, re) = Answers(t, s, u, rs, re)
  BY DEF Technical!Answers, Answers, Technical!Found, Found, Technical!Observation,
         Observation
<1>12. \A o, re : Technical!Ask(o, re) <=> Ask(o, re)
  BY DEF Technical!Ask, Ask
<1>13. \A n : Technical!NextTask(n) <=> NextTask(n)
  BY DEF Technical!NextTask, NextTask, Technical!Task, Task
<1>14. \A t : Technical!StartRound(t) <=> StartRound(t)
  BY DEF Technical!StartRound, StartRound, Technical!fixed, fixed, Technical!Task, Task
<1>15. \A c : Technical!Reserve(c) = Reserve(c)
  BY DEF Technical!Reserve, Reserve, Technical!FoldLeft, FoldLeft, Technical!MapThenFoldSet,
         MapThenFoldSet, Technical!Max, Max, Technical!Left, Left
<1> QED
  BY <1>1, <1>2, <1>3, <1>4, <1>5, <1>6, <1>7, <1>8, <1>9, <1>10, <1>11, <1>12, <1>13, <1>14, <1>15

-----------------------------------------------------------------------------
(* Types and stages.                                                       *)

Named == {"fundamental", "event"}  \* the agents that confirm the identity of a stock

\* What may become a task.
Good(r) ==
  /\ r.checks \in Seq(STRING) /\ r.checks # <<>> /\ IsInjective(r.checks)
  /\ Range(r.checks) \cap {"snapshot", "identity", "context"} = {}
  /\ mode = "VERIFICATION" /\ agent # "technical" => r.stock = target

GoodTasks(tasks) == tasks \in Seq(Range(tasks)) /\ \A r \in Range(tasks) : Good(r)

GoodBuilt(built) == \A w \in Written : GoodTasks(built[w])

\* What a draft may be written about.
Abouts == Stock \cup {Market} \cup
          (IF agent = "technical" THEN {SectorIndex} \cup Range(Proxies) ELSE {})

GoodDraft(d) ==
  /\ {"about", "cites"} \subseteq DOMAIN d
  /\ d.cites # {} /\ d.cites \subseteq obs /\ d.about \in Abouts
  /\ agent = "event" => \A k \in d.keys : k[1] \in d.cites /\ k \in Event!Rows(k[1])

GoodDrafts(ds) == \A d \in ds : GoodDraft(d)

\* The calls of a task.
Steps(r) ==
  IF agent \in Named THEN Len(r.checks) + 1
  ELSE IF agent = "technical" THEN Technical!Calls(r) ELSE Len(r.checks)

First == IF agent = "event" THEN 0 ELSE 1

Typed ==
  /\ agent \in Agents /\ mode \in {"DAILY", "VERIFICATION"}
  /\ pc \in {"snapshot", "analyze", "plan", "execute", "call", "review", "finalize", "done",
           "raised"}
  /\ pending \in Seq(seen) /\ \A r \in seen : Good(r)
  /\ IsFiniteSet(obs) /\ \A o \in obs : o.round \in 0..round
  /\ cursor \in [task : Nat, call : Nat, data : Seq(obs)]
  /\ round \in Nat /\ count \in Nat /\ exhausted \in BOOLEAN /\ errors \in BOOLEAN
  /\ GoodDrafts(drafts)

Staged ==
  /\ pc \in {"snapshot", "analyze"} => mode = "DAILY"
  /\ pc = "plan" => mode = "VERIFICATION" /\ exhausted = FALSE
  /\ pc \in {"snapshot", "plan"} => obs = {} /\ count = 0 /\ round = 0
  /\ pc \in {"snapshot", "analyze", "plan"} => pending = <<>> /\ seen = {} /\ skipped = {} /\ drafts = {}
  /\ pc = "execute" => pending # <<>>
  /\ pc = "call" =>
       /\ cursor.task \in 1..Len(pending)
       /\ cursor.call \in First..Steps(pending[cursor.task])
  /\ pc # "done" => evidence = {} /\ status = "none"

Base == Typed /\ Staged

-----------------------------------------------------------------------------
(* The nodes, as far as the properties need them.                          *)

SnapshotStep ==
  /\ pc = "snapshot" /\ pc' \in {"analyze", "finalize"}
  /\ IsFiniteSet(obs') /\ \A o \in obs' : /\ o.round = 0 /\ o.tool = "snapshot" /\ o.uses = {}
                                          /\ o.result \in SnapshotResults
  /\ count' \in Nat /\ count' <= MaxCalls /\ exhausted' \in BOOLEAN /\ errors' \in BOOLEAN
  /\ UNCHANGED <<agent, mode, target, pending, seen, cursor, round, skipped, drafts, evidence, status>>

PlanStep ==
  /\ pc \in {"analyze", "plan"} /\ pc' = IF pending' = <<>> THEN "finalize" ELSE "execute"
  /\ GoodTasks(pending') /\ seen' = Range(pending') /\ GoodDrafts(drafts')
  /\ errors' \in BOOLEAN /\ (pc = "plan" /\ pending' = <<>> => errors')
  /\ UNCHANGED <<agent, mode, target, obs, cursor, round, count, exhausted, skipped, evidence, status>>

StartStep(gone) ==
  /\ pc = "execute" /\ pc' = IF pending' = <<>> THEN "review" ELSE "call"
  /\ round' = round + 1 /\ cursor' = Task(1, First)
  /\ pending' \in Seq(Range(pending)) /\ gone \subseteq Range(pending)
  /\ Range(pending) \subseteq Range(pending') \cup gone
  /\ skipped' = skipped \cup gone
  /\ exhausted' = (exhausted \/ gone # {}) /\ errors' = (errors \/ gone # {})
  /\ UNCHANGED <<agent, mode, target, seen, obs, count, drafts, evidence, status>>

ReviewStep ==
  /\ pc = "review"
  /\ \/ pc' = "execute" /\ pending' # <<>> /\ ~ exhausted
     \/ pc' = "finalize" /\ (pending' # <<>> => count >= MaxCalls)
  /\ GoodTasks(pending') /\ seen' = seen \cup Range(pending') /\ GoodDrafts(drafts')
  /\ errors' \in BOOLEAN /\ (errors => errors')
  /\ UNCHANGED <<agent, mode, target, obs, cursor, round, count, exhausted, skipped, evidence, status>>

FinalStep(proved, recorded) ==
  /\ pc = "finalize" /\ pc' = "done"
  /\ \E kept \in SUBSET proved : evidence' = {recorded[d] : d \in kept}
  /\ errors' \in BOOLEAN /\ (errors => errors')
  /\ status' = Closed(exhausted, evidence' # {}, errors') /\ Valid(status', evidence')
  /\ UNCHANGED <<agent, mode, target, pending, seen, obs, cursor, round, count, exhausted,
                 skipped, drafts>>

\* Why a node raises: the request cannot be closed, or a resolved request is too long.
Raising ==
  \/ pc = "finalize" /\ mode = "VERIFICATION" /\ exhausted /\ drafts # {}
  \/ pc \in {"analyze", "plan"} /\ agent = "technical"

RaiseStep ==
  /\ Raising /\ pc' = "raised"
  /\ UNCHANGED <<agent, mode, target, pending, seen, obs, cursor, round, count, exhausted,
                 skipped, drafts, errors, evidence, status>>

LEMMA Ranged ==
  ASSUME NEW S, NEW tasks \in Seq(S)
  PROVE  /\ tasks \in Seq(Range(tasks)) /\ Range(tasks) \subseteq S
         /\ tasks = <<>> <=> Range(tasks) = {}
         /\ \A i \in 1..Len(tasks) : tasks[i] \in Range(tasks)
         /\ \A r \in Range(tasks) : \E i \in 1..Len(tasks) : r = tasks[i]
BY DEF Range

LEMMA NoTasks == GoodTasks(<<>>) /\ Range(<<>>) = {}
BY DEF GoodTasks, Range

LEMMA Snapshots ==
  ASSUME NEW spent, AcquireSnapshot(spent)
  PROVE  SnapshotStep
<1>1. PICK first \in SnapshotResults, second \in SnapshotResults :
        LET retry  == first = "too_large" /\ Retryable
            again  == retry /\ 1 < MaxCalls
            result == IF again THEN second ELSE first
        IN /\ obs' = {Observation(<<0, 1>>, "snapshot", Market, {}, first)} \cup
                     (IF again THEN {Observation(<<0, 2>>, "snapshot", Market, {}, second)} ELSE {})
           /\ count' = IF again THEN 2 ELSE 1
           /\ exhausted' = (retry /\ <<count', result>> \in spent)
           /\ errors' = (result # "answered")
           /\ pc' = IF result = "answered" THEN "analyze" ELSE "finalize"
  BY DEF AcquireSnapshot
<1>2. obs' \subseteq {Observation(<<0, 1>>, "snapshot", Market, {}, first),
                      Observation(<<0, 2>>, "snapshot", Market, {}, second)}
  BY <1>1
<1>3. IsFiniteSet(obs')
  <2> DEFINE a == Observation(<<0, 1>>, "snapshot", Market, {}, first)
             b == Observation(<<0, 2>>, "snapshot", Market, {}, second)
  <2>1. IsFiniteSet(({} \cup {a}) \cup {b})
    <3> HIDE DEF a, b
    <3> QED
      BY FS_EmptySet, FS_AddElement
  <2>2. obs' \subseteq ({} \cup {a}) \cup {b}
    BY <1>2
  <2> HIDE DEF a, b
  <2> QED
    BY <2>1, <2>2, FS_Subset
<1>4. \A o \in obs' : /\ o.round = 0 /\ o.tool = "snapshot" /\ o.uses = {}
                      /\ o.result \in SnapshotResults
  BY <1>2 DEF Observation
<1>5. count' \in Nat /\ count' <= MaxCalls
  BY <1>1, AgentAssumption
<1> QED
  BY <1>1, <1>3, <1>4, <1>5 DEF AcquireSnapshot, SnapshotStep, fixed

LEMMA Begins ==
  ASSUME NEW tasks, NEW refused, Begin(tasks, refused), GoodTasks(tasks), refused \in BOOLEAN
  PROVE  /\ pending' = tasks /\ seen' = Range(tasks) /\ errors' = refused
         /\ pc' = IF pending' = <<>> THEN "finalize" ELSE "execute"
         /\ GoodTasks(pending') /\ seen' = Range(pending') /\ errors' \in BOOLEAN
BY DEF Begin, GoodTasks, Good

LEMMA Analyzes ==
  ASSUME NEW accepted, NEW draft, NEW built, AnalyzeDaily(accepted, draft, built),
         GoodDrafts(draft), GoodBuilt(built), Base
  PROVE  PlanStep
<1>1. UNCHANGED <<agent, mode, target, obs, cursor, round, count, exhausted, skipped, evidence,
                  status>>
  BY DEF AnalyzeDaily, fixed
<1>2. CASE ModelFails
  <2>1. pending' = <<>> /\ seen' = {} /\ drafts' = {} /\ errors' = TRUE /\ pc' = "finalize"
    BY <1>2 DEF ModelFails, AnalyzeDaily, Base, Staged
  <2> QED
    BY <1>1, <2>1, NoTasks DEF PlanStep, AnalyzeDaily, GoodDrafts
<1>3. CASE \E d \in DraftsOf(accepted, draft), t \in TasksOf(built) :
             drafts' = d.kept /\ Begin(t.tasks, d.refused \/ t.refused)
  <2>1. PICK d \in DraftsOf(accepted, draft), t \in TasksOf(built) :
               drafts' = d.kept /\ Begin(t.tasks, d.refused \/ t.refused)
    BY <1>3
  <2>2. d.kept \subseteq draft
    BY DEF DraftsOf
  <2>3. GoodTasks(t.tasks)
    BY DEF TasksOf, GoodBuilt
  <2>4. (d.refused \/ t.refused) \in BOOLEAN
    OBVIOUS
  <2>5. /\ pc' = IF pending' = <<>> THEN "finalize" ELSE "execute"
        /\ GoodTasks(pending') /\ seen' = Range(pending') /\ errors' \in BOOLEAN
    BY <2>1, <2>3, <2>4, Begins
  <2> QED
    BY <1>1, <2>1, <2>2, <2>5 DEF PlanStep, AnalyzeDaily, GoodDrafts
<1> QED
  BY <1>2, <1>3 DEF AnalyzeDaily

GoodPlans(plans) ==
  \A p \in plans : GoodTasks(p.tasks) /\ p.refused \in BOOLEAN /\ (p.tasks = <<>> => p.refused)

LEMMA PlansAreGood ==
  ASSUME NEW built, NEW covering, GoodBuilt(built)
  PROVE  GoodPlans(Plans(TasksOf(built), covering))
<1> SUFFICES ASSUME NEW p \in Plans(TasksOf(built), covering)
             PROVE  GoodTasks(p.tasks) /\ p.refused \in BOOLEAN /\ (p.tasks = <<>> => p.refused)
  BY DEF GoodPlans
<1>1. PICK t \in TasksOf(built) :
        p = IF Range(t.tasks) \cap covering = {} THEN [tasks |-> <<>>, refused |-> TRUE] ELSE t
  BY DEF Plans
<1>2. PICK w \in Written : t = [tasks |-> built[w], refused |-> Len(Considered(w)) > Len(built[w])]
  BY DEF TasksOf
<1>3. GoodTasks(t.tasks) /\ t.refused \in BOOLEAN
  BY <1>2 DEF GoodBuilt
<1> QED
  BY <1>1, <1>3, NoTasks

LEMMA PlansTargeted ==
  ASSUME NEW plans, PlanTargeted(plans), GoodPlans(plans), Base
  PROVE  PlanStep
<1>1. UNCHANGED <<agent, mode, target, obs, cursor, round, count, exhausted, skipped, evidence,
                  status>>
  BY DEF PlanTargeted, fixed
<1>2. CASE ModelFails
  <2>1. pending' = <<>> /\ seen' = {} /\ drafts' = {} /\ errors' = TRUE /\ pc' = "finalize"
    BY <1>2 DEF ModelFails, PlanTargeted, Base, Staged
  <2> QED
    BY <1>1, <2>1, NoTasks DEF PlanStep, PlanTargeted, GoodDrafts
<1>3. CASE \E p \in plans : Begin(p.tasks, p.refused) /\ UNCHANGED drafts
  <2>1. PICK p \in plans : Begin(p.tasks, p.refused) /\ UNCHANGED drafts
    BY <1>3
  <2>2. GoodTasks(p.tasks) /\ p.refused \in BOOLEAN /\ (p.tasks = <<>> => p.refused)
    BY DEF GoodPlans
  <2>3. /\ pending' = p.tasks /\ errors' = p.refused
        /\ pc' = IF pending' = <<>> THEN "finalize" ELSE "execute"
        /\ GoodTasks(pending') /\ seen' = Range(pending') /\ errors' \in BOOLEAN
    BY <2>1, <2>2, Begins
  <2>4. GoodDrafts(drafts')
    BY <2>1 DEF Base, Typed
  <2> QED
    BY <1>1, <2>2, <2>3, <2>4 DEF PlanStep, PlanTargeted
<1> QED
  BY <1>2, <1>3 DEF PlanTargeted

LEMMA Reviews ==
  ASSUME NEW accepted, NEW draft, NEW built, ReviewRound(accepted, draft, built),
         GoodDrafts(draft), GoodBuilt(built), Base
  PROVE  ReviewStep
<1>1. /\ pc = "review"
      /\ UNCHANGED <<agent, mode, target, obs, cursor, round, count, exhausted, skipped, evidence,
                     status>>
  BY DEF ReviewRound, fixed
<1>2. GoodDrafts(drafts) /\ errors \in BOOLEAN
  BY DEF Base, Typed
<1>3. CASE pending' = <<>> /\ pc' = "finalize" /\ UNCHANGED <<seen, drafts>> /\ errors' \in {TRUE, errors}
  <2>1. GoodTasks(pending') /\ seen' = seen \cup Range(pending') /\ GoodDrafts(drafts')
    BY <1>2, <1>3, NoTasks
  <2> QED
    BY <1>1, <1>2, <1>3, <2>1 DEF ReviewStep
<1>4. CASE \E d \in DraftsOf(accepted, draft),
              t \in IF ~ exhausted /\ round < MaxRounds THEN TasksOf(built)
                    ELSE {[tasks |-> <<>>, refused |-> FALSE]} :
             /\ drafts' = drafts \cup d.kept
             /\ pending' = t.tasks
             /\ seen' = seen \cup Range(t.tasks)
             /\ errors' = (errors \/ d.refused \/ t.refused)
             /\ pc' = IF t.tasks # <<>> /\ count < MaxCalls THEN "execute" ELSE "finalize"
  <2>1. PICK d \in DraftsOf(accepted, draft),
             t \in IF ~ exhausted /\ round < MaxRounds THEN TasksOf(built)
                   ELSE {[tasks |-> <<>>, refused |-> FALSE]} :
             /\ drafts' = drafts \cup d.kept
             /\ pending' = t.tasks
             /\ seen' = seen \cup Range(t.tasks)
             /\ errors' = (errors \/ d.refused \/ t.refused)
             /\ pc' = IF t.tasks # <<>> /\ count < MaxCalls THEN "execute" ELSE "finalize"
    BY <1>4
  <2>2. GoodDrafts(drafts')
    BY <1>2, <2>1 DEF DraftsOf, GoodDrafts
  <2>3. GoodTasks(t.tasks) /\ (t.tasks # <<>> => ~ exhausted)
    BY NoTasks DEF TasksOf, GoodBuilt
  <2>4. GoodTasks(pending')
    BY <2>1, <2>3
  <2>5. count \in Nat /\ MaxCalls \in Nat
    BY AgentAssumption DEF Base, Typed
  <2>6. /\ \/ pc' = "execute" /\ pending' # <<>> /\ ~ exhausted
           \/ pc' = "finalize" /\ (pending' # <<>> => count >= MaxCalls)
    BY <2>1, <2>3, <2>5
  <2>7. errors' \in BOOLEAN /\ (errors => errors')
    BY <1>2, <2>1
  <2> QED
    BY <1>1, <2>1, <2>2, <2>4, <2>6, <2>7 DEF ReviewStep
<1> QED
  BY <1>3, <1>4 DEF ReviewRound

LEMMA Finalizes ==
  ASSUME NEW proved, NEW recorded, FinalizeRun(proved, recorded), Base, proved \subseteq drafts
  PROVE  FinalStep(proved, recorded) \/ RaiseStep
<1>1. PICK kept \in SUBSET proved :
        LET found  == {recorded[d] : d \in kept}
            failed == errors \/ kept # drafts
            closed == Closed(exhausted, found # {}, failed)
        IN IF Valid(closed, found)
           THEN evidence' = found /\ errors' = failed /\ status' = closed /\ pc' = "done"
           ELSE pc' = "raised" /\ UNCHANGED <<evidence, errors, status>>
  BY DEF FinalizeRun
<1> DEFINE found  == {recorded[d] : d \in kept}
           failed == errors \/ kept # drafts
           closed == Closed(exhausted, found # {}, failed)
<1>2. CASE Valid(closed, found)
  <2>1. evidence' = found /\ errors' = failed /\ status' = closed /\ pc' = "done"
    BY <1>1, <1>2
  <2>2. errors' \in BOOLEAN /\ (errors => errors')
    BY <2>1 DEF Base, Typed
  <2>3. status' = Closed(exhausted, evidence' # {}, errors') /\ Valid(status', evidence')
    BY <1>2, <2>1
  <2> QED
    BY <2>1, <2>2, <2>3 DEF FinalizeRun, FinalStep, fixed
<1>3. CASE ~ Valid(closed, found)
  <2>1. pc' = "raised" /\ UNCHANGED <<evidence, errors, status>>
    BY <1>1, <1>3
  <2>2. mode = "VERIFICATION" /\ exhausted /\ found # {}
    <3> HIDE DEF found, failed
    <3> QED
      BY <1>3 DEF Valid, Closed, Base, Typed
  <2>3. drafts # {}
    BY <2>2
  <2> QED
    BY <2>1, <2>2, <2>3 DEF FinalizeRun, RaiseStep, Raising, fixed
<1> QED
  BY <1>2, <1>3

-----------------------------------------------------------------------------
(* What models write.                                                      *)

LEMMA WrittenRequests == \A w \in Written : w \in Seq(Request[agent])
BY DEF Written, BoundedSeq, SeqOf

LEMMA Builds ==
  ASSUME NEW allowed, agent \in Agents \ {"technical"},
         mode = "VERIFICATION" => allowed \subseteq {target}
  PROVE  GoodBuilt([w \in Written |-> Build(w, {r \in Range(w) : r.stock \in allowed})])
<1> SUFFICES ASSUME NEW w \in Written
             PROVE  GoodTasks(Build(w, {r \in Range(w) : r.stock \in allowed}))
  BY DEF GoodBuilt
<1>1. w \in Seq(Request[agent])
  BY WrittenRequests
<1> DEFINE P     == {r \in Range(w) : r.stock \in allowed}
           tasks == Build(w, P)
<1>2. P \subseteq Request[agent]
  BY <1>1, Ranged
<1>3. \A r \in P : Good(r)
  BY <1>2, AgentAssumption DEF Good
<1> HIDE DEF P
<1>4. tasks \in Seq(P)
  BY <1>1, BuildsPermitted
<1> HIDE DEF tasks
<1> QED
  BY <1>3, <1>4, Ranged DEF GoodTasks, tasks, P

\* Of permitted requests, which are some of those an answer was resolved to, good tasks
\* are built.
LEMMA BuildsGood ==
  ASSUME NEW w, w \in Seq(Range(w)), NEW P, P \subseteq Range(w), \A r \in Range(w) : Good(r)
  PROVE  GoodTasks(Build(w, P))
<1> DEFINE tasks == Build(w, P)
<1>1. tasks \in Seq(P)
  BY BuildsPermitted
<1> HIDE DEF tasks
<1>2. tasks \in Seq(Range(tasks)) /\ Range(tasks) \subseteq P
  BY <1>1, Ranged
<1>3. GoodTasks(tasks)
  BY <1>2 DEF GoodTasks
<1> QED
  BY <1>3 DEF tasks

LEMMA TechnicalBuilds ==
  ASSUME NEW allowed, agent = "technical"
  PROVE  GoodBuilt(Technical!BuildTasks(allowed))
<1> SUFFICES ASSUME NEW w \in Written PROVE GoodTasks(Technical!BuildTasks(allowed)[w])
  BY DEF GoodBuilt
<1>1. w \in Seq(Request["technical"])
  <2>1. w \in Seq(Request[agent])
    BY WrittenRequests
  <2> QED
    BY <2>1
<1> DEFINE R == Technical!Resolve(w)
           P == Technical!Permitted(R, allowed)
<1>2. /\ DOMAIN R = 1..Len(w) /\ R = [i \in 1..Len(w) |-> R[i]]
      /\ \A i \in 1..Len(w) : R[i].checks = w[i].checks
  <2>1. DOMAIN w = 1..Len(w) /\ \A i \in 1..Len(w) : w[i] \in Request["technical"]
    BY <1>1
  <2>2. \A i \in 1..Len(w) : "checks" \in DOMAIN w[i]
    BY <2>1, SymbolsAssumption
  <2> QED
    BY <2>1, <2>2, Zenon DEF Technical!Resolve
<1>3. Technical!BuildTasks(allowed)[w] = Build(R, P)
  BY TechnicalFrame DEF Technical!BuildTasks
<1> HIDE DEF R
<1>4. R \in Seq(Range(R))
  <2>1. Len(w) \in Nat
    BY <1>1
  <2> QED
    BY <1>2, <2>1 DEF Range
<1>5. \A r \in Range(R) : Good(r)
  <2> TAKE r \in Range(R)
  <2>1. PICK i \in 1..Len(w) : r.checks = w[i].checks
    BY <1>2 DEF Range
  <2>2. w[i] \in Request["technical"] /\ "technical" \in Agents
    BY <1>1 DEF Agents
  <2> QED
    BY <2>1, <2>2, AgentAssumption DEF Good
<1>6. P \subseteq Range(R)
  BY TechnicalFrame DEF Technical!Permitted
<1> HIDE DEF P
<1> QED
  BY <1>3, <1>4, <1>5, <1>6, BuildsGood

LEMMA TechnicalFollowUps ==
  ASSUME NEW allowed, agent = "technical"
  PROVE  GoodBuilt(Technical!FollowUps(allowed))
<1> SUFFICES ASSUME NEW w \in Written PROVE GoodTasks(Technical!FollowUps(allowed)[w])
  BY DEF GoodBuilt
<1> DEFINE P == Technical!Permitted(w, allowed)
<1>1. w \in Seq(Range(w)) /\ Range(w) \subseteq Request[agent]
  BY WrittenRequests, Ranged
<1>2. \A r \in Range(w) : Good(r)
  BY <1>1, AgentAssumption DEF Good, Agents
<1>3. P \subseteq Range(w)
  BY TechnicalFrame DEF Technical!Permitted
<1>4. Technical!FollowUps(allowed)[w] = Build(w, P)
  BY TechnicalFrame DEF Technical!FollowUps
<1> HIDE DEF P
<1> QED
  BY <1>1, <1>2, <1>3, <1>4, BuildsGood

-----------------------------------------------------------------------------
(* The tasks of a round.                                                   *)

LEMMA Appended ==
  ASSUME NEW S, NEW t \in Seq(S), NEW r \in S
  PROVE  /\ Append(t, r) \in Seq(S) /\ Len(Append(t, r)) = Len(t) + 1
         /\ Range(Append(t, r)) = Range(t) \cup {r}
         /\ \A j \in 1..Len(t) : Append(t, r)[j] = t[j]
         /\ Append(t, r)[Len(t) + 1] = r
<1>1. /\ Append(t, r) \in Seq(S) /\ Len(Append(t, r)) = Len(t) + 1
      /\ \A j \in 1..Len(t) : Append(t, r)[j] = t[j]
      /\ Append(t, r)[Len(t) + 1] = r
  OBVIOUS
<1>2. DOMAIN t = 1..Len(t) /\ DOMAIN Append(t, r) = 1..Len(t) + 1
  BY <1>1
<1>3. ASSUME NEW x PROVE x \in Range(Append(t, r)) <=> x \in Range(t) \cup {r}
  <2>1. x \in Range(Append(t, r)) => x \in Range(t) \cup {r}
    <3> SUFFICES ASSUME NEW j \in 1..Len(t) + 1, x = Append(t, r)[j]
                 PROVE  x \in Range(t) \cup {r}
      BY <1>2 DEF Range
    <3>1. j \in 1..Len(t) \/ j = Len(t) + 1
      OBVIOUS
    <3> QED
      BY <1>1, <1>2, <3>1 DEF Range
  <2>2. x \in Range(t) => x \in Range(Append(t, r))
    <3> SUFFICES ASSUME NEW j \in 1..Len(t), x = t[j]
                 PROVE  x \in Range(Append(t, r))
      BY <1>2 DEF Range
    <3>1. j \in 1..Len(t) + 1 /\ x = Append(t, r)[j]
      BY <1>1
    <3> QED
      BY <1>2, <3>1 DEF Range
  <2>3. r \in Range(Append(t, r))
    <3>1. Len(t) + 1 \in 1..Len(t) + 1
      OBVIOUS
    <3> QED
      BY <1>1, <1>2, <3>1 DEF Range
  <2> QED
    BY <2>1, <2>2, <2>3
<1> QED
  BY <1>1, <1>3

\* What is left of a budget after each task.
Budget(tasks, cost, rest) ==
  /\ rest \in [0..Len(tasks) -> Nat]
  /\ \A j \in 1..Len(tasks) : rest[j - 1] = rest[j] + cost[tasks[j]]

Affords(tasks, cost, first, last) ==
  \E rest : Budget(tasks, cost, rest) /\ rest[0] = first /\ rest[Len(tasks)] = last

LEMMA Charged ==
  ASSUME NEW S, NEW t \in Seq(S), NEW r \in S, NEW cost, cost[r] \in Nat,
         NEW first, NEW last, NEW left \in Nat, Affords(t, cost, first, last), last = left + cost[r]
  PROVE  Affords(Append(t, r), cost, first, left)
<1>0. PICK rest : Budget(t, cost, rest) /\ rest[0] = first /\ rest[Len(t)] = last
  BY DEF Affords
<1> DEFINE u    == Append(t, r)
           more == [j \in 0..Len(u) |-> IF j = Len(u) THEN left ELSE rest[j]]
<1>1. /\ u \in Seq(S) /\ Len(t) \in Nat /\ Len(u) = Len(t) + 1
      /\ \A j \in 1..Len(t) : u[j] = t[j]
      /\ u[Len(t) + 1] = r
  BY Appended
<1> HIDE DEF u
<1>2. \A j \in 0..Len(u) : j = Len(u) \/ j \in 0..Len(t)
  BY <1>1
<1>3. more \in [0..Len(u) -> Nat]
  BY <1>0, <1>2 DEF Budget
<1>4. more[0] = rest[0] /\ more[Len(u)] = left
  BY <1>1
<1>5. ASSUME NEW j \in 1..Len(u) PROVE more[j - 1] = more[j] + cost[u[j]]
  <2>1. CASE j = Len(u)
    <3>1. j - 1 \in 0..Len(u) /\ j - 1 = Len(t) /\ j - 1 # Len(u) /\ j \in 0..Len(u)
      BY <1>1, <2>1
    <3> QED
      BY <1>0, <1>1, <2>1, <3>1, Zenon
  <2>2. CASE j # Len(u)
    <3>1. j \in 1..Len(t) /\ j - 1 \in 0..Len(u) /\ j \in 0..Len(u) /\ j - 1 # Len(u)
      BY <1>1, <2>2
    <3>2. rest[j - 1] = rest[j] + cost[t[j]]
      BY <1>0, <3>1 DEF Budget
    <3> QED
      BY <1>1, <2>2, <3>1, <3>2
  <2> QED
    <3>1. j = Len(u) \/ j # Len(u)
      OBVIOUS
    <3> QED
      BY <2>1, <2>2, <3>1
<1> HIDE DEF more
<1>6. Budget(u, cost, more)
  BY <1>3, <1>5 DEF Budget
<1> QED
  BY <1>0, <1>4, <1>6 DEF u, Affords

\* What a reservation makes of the tasks.
Reserved(tasks, skipped_, cost) ==
  /\ tasks \in Seq(Range(pending)) /\ skipped_ \subseteq Range(pending)
  /\ Range(pending) \subseteq Range(tasks) \cup skipped_
  /\ \E left \in Nat : Affords(tasks, cost, Left, left)

LEMMA Reserves ==
  ASSUME NEW X, pending \in Seq(X), count \in Nat, NEW cost \in [Range(pending) -> Nat]
  PROVE  Reserved(Reserve(cost).tasks, Reserve(cost).skipped, cost)
<1> DEFINE n == Len(pending)
           R == Range(pending)
           A == [tasks : Seq(R), skipped : SUBSET R, left : Nat]
           base == [tasks |-> <<>>, skipped |-> {}, left |-> Left]
           G == [p \in A \X (1..n) |->
                   IF cost[pending[p[2]]] > p[1].left
                   THEN [p[1] EXCEPT !.skipped = @ \cup {pending[p[2]]}]
                   ELSE [p[1] EXCEPT !.tasks = Append(@, pending[p[2]]),
                                     !.left = @ - cost[pending[p[2]]]]]
           Step(f, s) == IF cost[pending[Max(s)]] > f[s \ {Max(s)}].left
                         THEN [f[s \ {Max(s)}] EXCEPT !.skipped = @ \cup {pending[Max(s)]}]
                         ELSE [f[s \ {Max(s)}] EXCEPT !.tasks = Append(@, pending[Max(s)]),
                                                      !.left = @ - cost[pending[Max(s)]]]
           Eq(f) == f = [s \in SUBSET DOMAIN pending |-> IF s = {} THEN base ELSE Step(f, s)]
           it == CHOOSE f : Eq(f)
           I == [k \in 0..n |->
                   {a \in A : /\ \A i \in 1..k : pending[i] \in Range(a.tasks) \cup a.skipped
                              /\ Affords(a.tasks, cost, Left, a.left)}]
<1>1. Reserve(cost) = it[DOMAIN pending]
  BY DEF Reserve, FoldLeft, MapThenFoldSet
<1>2. /\ DOMAIN pending = 1..n /\ n \in Nat
      /\ \A i \in 1..n : pending[i] \in R /\ cost[pending[i]] \in Nat
      /\ \A r \in R : \E i \in 1..n : r = pending[i]
  <2>1. DOMAIN pending = 1..n /\ n \in Nat
    OBVIOUS
  <2>2. \A i \in 1..n : pending[i] \in R
    BY <2>1 DEF Range
  <2>3. \A r \in R : \E i \in 1..n : r = pending[i]
    BY <2>1 DEF Range
  <2>4. \A i \in 1..n : cost[pending[i]] \in Nat
    BY <2>2
  <2> QED
    BY <2>1, <2>2, <2>3, <2>4
<1>3. Left \in Nat
  BY AgentAssumption DEF Left
<1> HIDE DEF R
<1>4. base \in A
  BY <1>3
<1>5. G \in [A \X (1..n) -> A]
  <2> SUFFICES ASSUME NEW a \in A, NEW k \in 1..n
               PROVE  (IF cost[pending[k]] > a.left
                       THEN [a EXCEPT !.skipped = @ \cup {pending[k]}]
                       ELSE [a EXCEPT !.tasks = Append(@, pending[k]),
                                      !.left = @ - cost[pending[k]]]) \in A
    OBVIOUS
  <2>1. pending[k] \in R /\ cost[pending[k]] \in Nat
    BY <1>2
  <2>2. a.tasks \in Seq(R) /\ a.skipped \in SUBSET R /\ a.left \in Nat
    OBVIOUS
  <2> DEFINE r == pending[k]
             c == cost[pending[k]]
  <2>3. a.skipped \cup {r} \in SUBSET R /\ Append(a.tasks, r) \in Seq(R)
    BY <2>1, <2>2
  <2>4. ~ (c > a.left) => a.left - c \in Nat
    BY <2>1, <2>2
  <2> HIDE DEF r, c
  <2> QED
    BY <2>3, <2>4 DEF r, c
<1>6. \E f : Eq(f)
  <2>1. PICK f : Folded(A, base, G, n, f)
    <3> HIDE DEF G, n, A, base
    <3> QED
      BY <1>2, <1>4, <1>5, FoldExists, Zenon
  <2>2. ASSUME NEW s \in SUBSET (1..n), s # {}
        PROVE  Max(s) \in 1..n /\ s \ {Max(s)} \in SUBSET (1..n) /\ f[s \ {Max(s)}] \in A
    <3>1. Max(s) \in s
      BY <1>2, <2>2, MaxOf
    <3> QED
      BY <2>1, <3>1, Zenon DEF Folded
  <2>3. \A s \in SUBSET (1..n) : s # {} => G[<<f[s \ {Max(s)}], Max(s)>>] = Step(f, s)
    BY <2>2
  <2>4. Eq(f)
    <3> HIDE DEF G, Step
    <3> QED
      BY <1>2, <2>1, <2>3, Zenon DEF Folded
  <2> QED
    BY <2>4
<1>7. Eq(it)
  BY <1>6, Zenon
<1> HIDE DEF it
<1>8. it[{}] = base
  BY <1>7, ZenonT(30)
<1>9. ASSUME NEW s \in SUBSET (1..n), s # {}, it[s \ {Max(s)}] \in A
      PROVE  it[s] = G[<<it[s \ {Max(s)}], Max(s)>>]
  <2>1. Max(s) \in 1..n
    BY <1>2, <1>9, MaxOf
  <2> QED
    BY <1>2, <1>7, <1>9, <2>1, Zenon
<1>10. PICK t : Traces(A, base, G, n, it, t)
  <2> HIDE DEF G, n, A, base
  <2> QED
    BY <1>2, <1>4, <1>5, <1>8, <1>9, FoldTraces
<1>11. base \in I[0]
  <2> DEFINE rest == [j \in 0..0 |-> Left]
  <2>1. Affords(<<>>, cost, Left, Left)
    <3>1. Budget(<<>>, cost, rest) /\ rest[0] = Left /\ rest[Len(<<>>)] = Left
      BY <1>3 DEF Budget
    <3> HIDE DEF rest
    <3> QED
      BY <3>1 DEF Affords
  <2> QED
    BY <1>2, <1>4, <2>1
<1>12. ASSUME NEW k \in 1..n, NEW a \in I[k - 1] PROVE G[<<a, k>>] \in I[k]
  <2> DEFINE r == pending[k]
             b == IF cost[r] > a.left THEN [a EXCEPT !.skipped = @ \cup {r}]
                  ELSE [a EXCEPT !.tasks = Append(@, r), !.left = @ - cost[r]]
  <2>1. k - 1 \in 0..n /\ k \in 0..n /\ r \in R /\ cost[r] \in Nat
    <3>1. r \in R /\ cost[r] \in Nat
      BY <1>2
    <3> HIDE DEF n, I, A, G, r, b, base
    <3> QED
      BY <1>2, <3>1
  <2>2. /\ a \in A
        /\ \A i \in 1..k - 1 : pending[i] \in Range(a.tasks) \cup a.skipped
    BY <2>1
  <2>3. Affords(a.tasks, cost, Left, a.left)
    BY <2>1
  <2>4. G[<<a, k>>] = b /\ b \in A
    <3>1. G[<<a, k>>] = b
      <4> HIDE DEF A
      <4> QED
        BY <2>2
    <3> HIDE DEF b, G, A
    <3> QED
      BY <1>5, <2>2, <3>1
  <2>5. CASE cost[r] > a.left
    <3>1. b.tasks = a.tasks /\ b.left = a.left /\ b.skipped = a.skipped \cup {r}
      BY <2>2, <2>5
    <3>2. \A i \in 1..k : i = k \/ i \in 1..k - 1
      BY <1>2
    <3>3. \A i \in 1..k : pending[i] \in Range(b.tasks) \cup b.skipped
      BY <2>2, <3>1, <3>2
    <3> HIDE DEF b, G
    <3> QED
      BY <2>1, <2>3, <2>4, <3>1, <3>3
  <2>6. CASE ~ (cost[r] > a.left)
    <3>1. b.tasks = Append(a.tasks, r) /\ b.left = a.left - cost[r] /\ b.skipped = a.skipped
      BY <2>2, <2>6
    <3>2. b.left \in Nat /\ a.left \in Nat /\ a.tasks \in Seq(R)
      <4>1. a.left \in Nat /\ a.tasks \in Seq(R)
        BY <2>2
      <4> HIDE DEF b, G, r
      <4>2. b.left \in Nat
        BY <2>4
      <4> QED
        BY <4>1, <4>2
    <3> HIDE DEF b, G, r, A
    <3>3. Affords(b.tasks, cost, Left, b.left)
      <4> DEFINE l == b.left
                 m == a.left
                 ts == a.tasks
      <4>1. l \in Nat /\ m = l + cost[r] /\ ts \in Seq(R) /\ Affords(ts, cost, Left, m)
        <5> HIDE DEF l
        <5>1. a.left = l + cost[r]
          BY <2>1, <3>1, <3>2 DEF l
        <5> QED
          BY <2>3, <3>2, <5>1 DEF l
      <4> HIDE DEF l, m, ts
      <4>2. Affords(Append(ts, r), cost, Left, l)
        BY <2>1, <4>1, Charged
      <4> QED
        BY <3>1, <4>2 DEF l, ts
    <3>4. Range(b.tasks) = Range(a.tasks) \cup {r}
      BY <2>1, <3>1, <3>2, Appended
    <3>5. \A i \in 1..k : i = k \/ i \in 1..k - 1
      BY <1>2
    <3>6. \A i \in 1..k : pending[i] \in Range(b.tasks) \cup b.skipped
      BY <2>2, <3>1, <3>4, <3>5 DEF r
    <3> QED
      BY <2>1, <2>4, <3>3, <3>6
  <2> QED
    BY <2>5, <2>6
<1>13. it[1..n] \in I[n]
  <2> HIDE DEF G, n, A, base, I
  <2> QED
    BY <1>2, <1>10, <1>11, <1>12, TraceStays
<1>14. n \in 0..n
  BY <1>2
<1>15. /\ Reserve(cost) \in A
       /\ \A i \in 1..n : pending[i] \in Range(Reserve(cost).tasks) \cup Reserve(cost).skipped
       /\ \E left \in Nat : Affords(Reserve(cost).tasks, cost, Left, left)
  BY <1>1, <1>2, <1>13, <1>14
<1> QED
  BY <1>2, <1>15 DEF Reserved, R

LEMMA Starts ==
  ASSUME NEW reservation, StartRound(reservation), Base, agent # "event",
         reservation.tasks \in Seq(Range(pending)), reservation.skipped \subseteq Range(pending),
         Range(pending) \subseteq Range(reservation.tasks) \cup reservation.skipped
  PROVE  StartStep(reservation.skipped) /\ pending' = reservation.tasks
BY DEF StartRound, StartStep, First, Base, Typed, fixed

LEMMA PendingTasks ==
  ASSUME Base
  PROVE  /\ pending \in Seq(Range(pending)) /\ Range(pending) \subseteq seen
         /\ \A r \in Range(pending) : Good(r)
         /\ \A i \in 1..Len(pending) : pending[i] \in Range(pending)
         /\ \A r \in Range(pending) : \E i \in 1..Len(pending) : r = pending[i]
<1>1. pending \in Seq(seen) /\ \A r \in seen : Good(r)
  BY DEF Base, Typed
<1>2. /\ pending \in Seq(Range(pending)) /\ Range(pending) \subseteq seen
      /\ \A i \in 1..Len(pending) : pending[i] \in Range(pending)
      /\ \A r \in Range(pending) : \E i \in 1..Len(pending) : r = pending[i]
  BY <1>1, Ranged
<1> QED
  BY <1>1, <1>2

LEMMA CallsOfTask ==
  ASSUME NEW r, Good(r)
  PROVE  /\ Technical!Calls(r) \in Nat \ {0} /\ Technical!Cost(r) = Technical!Calls(r)
         /\ Len(r.checks) \in Nat \ {0}
         /\ Technical!Calls(r) = Len(Technical!Contexts(r)) + Len(r.checks)
         /\ Len(Technical!Contexts(r)) =
              IF "relative_strength" \in Range(r.checks) THEN 2 ELSE 1
<1>1. Len(r.checks) \in Nat \ {0}
  BY DEF Good
<1>2. Technical!Range(r.checks) = Range(r.checks)
  BY TechnicalFrame
<1>3. CASE "relative_strength" \in Range(r.checks)
  <2>1. Technical!Contexts(r) = <<r.stock, r.bench>> /\ Len(<<r.stock, r.bench>>) = 2
    BY <1>2, <1>3 DEF Technical!Contexts
  <2> QED
    BY <1>1, <1>2, <1>3, <2>1 DEF Technical!Calls, Technical!Cost
<1>4. CASE "relative_strength" \notin Range(r.checks)
  <2>1. Technical!Contexts(r) = <<r.stock>> /\ Len(<<r.stock>>) = 1
    BY <1>2, <1>4 DEF Technical!Contexts
  <2> QED
    BY <1>1, <1>2, <1>4, <2>1 DEF Technical!Calls, Technical!Cost
<1> QED
  BY <1>3, <1>4

\* The tasks of a round fit in what is left of the budget, each with all its calls.
Fits(tasks, left) ==
  \E cost, last : /\ Affords(tasks, cost, left, last)
                  /\ \A r \in Range(tasks) : cost[r] = Steps(r)

LEMMA ReservesAll ==
  ASSUME Base, agent \in {"sentiment_flow", "technical"},
         NEW cost, cost = [r \in Range(pending) |-> Steps(r)], StartRound(Reserve(cost))
  PROVE  \E gone : StartStep(gone) /\ Fits(pending', Left)
<1> DEFINE res == Reserve(cost)
<1>1. cost \in [Range(pending) -> Nat]
  <2>1. \A r \in Range(pending) : Steps(r) \in Nat
    BY PendingTasks, CallsOfTask DEF Steps, Named
  <2> QED
    BY <2>1
<1>2. pending \in Seq(seen) /\ count \in Nat
  BY DEF Base, Typed
<1>3. Reserved(res.tasks, res.skipped, cost)
  BY <1>1, <1>2, Reserves
<1> HIDE DEF res
<1>4. StartStep(res.skipped) /\ pending' = res.tasks
  BY <1>3, Starts DEF Reserved, res
<1>5. PICK left \in Nat : Affords(res.tasks, cost, Left, left)
  BY <1>3 DEF Reserved
<1>6. \A r \in Range(res.tasks) : cost[r] = Steps(r)
  BY <1>3, Ranged DEF Reserved
<1>7. Fits(res.tasks, Left)
  BY <1>5, <1>6 DEF Fits
<1> QED
  BY <1>4, <1>7

LEMMA SentimentStarts ==
  ASSUME Base, agent = "sentiment_flow", Sentiment!Execute
  PROVE  \E gone : StartStep(gone) /\ Fits(pending', Left)
<1> DEFINE cost == [r \in Range(pending) |-> Len(r.checks)]
<1>1. cost = [r \in Range(pending) |-> Steps(r)]
  BY DEF Steps, Named
<1>2. StartRound(Reserve(cost))
  BY SentimentFrame DEF Sentiment!Execute
<1> QED
  BY <1>1, <1>2, ReservesAll

LEMMA TechnicalStarts ==
  ASSUME Base, agent = "technical", Technical!Execute
  PROVE  \E gone : StartStep(gone) /\ Fits(pending', Left)
<1> DEFINE cost == [r \in Range(pending) |-> Technical!Cost(r)]
<1>1. cost = [r \in Range(pending) |-> Steps(r)]
  BY PendingTasks, CallsOfTask DEF Steps, Named
<1>2. StartRound(Reserve(cost))
  BY TechnicalFrame DEF Technical!Execute
<1> QED
  BY <1>1, <1>2, ReservesAll

LEMMA Single ==
  ASSUME NEW S, NEW x \in S
  PROVE  <<x>> \in Seq(S) /\ Len(<<x>>) = 1 /\ <<x>>[1] = x
OBVIOUS

LEMMA Concatenated ==
  ASSUME NEW S, NEW a \in Seq(S), NEW b \in Seq(S)
  PROVE  /\ a \o b \in Seq(S) /\ Len(a \o b) = Len(a) + Len(b)
         /\ \A i \in 1..Len(a) : (a \o b)[i] = a[i]
         /\ \A i \in 1..Len(b) : (a \o b)[Len(a) + i] = b[i]
<1>1. a \o b \in Seq(S) /\ Len(a \o b) = Len(a) + Len(b)
  OBVIOUS
<1>2. \A i \in 1..Len(a) : (a \o b)[i] = a[i]
  OBVIOUS
<1>3. \A i \in 1..Len(b) : (a \o b)[Len(a) + i] = b[i]
  OBVIOUS
<1> QED
  BY <1>1, <1>2, <1>3

LEMMA Prefixed ==
  ASSUME NEW x, NEW T, NEW c \in Seq(T)
  PROVE  /\ <<x>> \o c \in Seq(Range(<<x>> \o c)) /\ Len(<<x>> \o c) = Len(c) + 1
         /\ (<<x>> \o c)[1] = x
         /\ \A i \in 2..Len(c) + 1 : (<<x>> \o c)[i] = c[i - 1] /\ i - 1 \in 1..Len(c)
<1> DEFINE S == T \cup {x}
           p == <<x>> \o c
<1>1. x \in S /\ c \in Seq(S) /\ Len(c) \in Nat
  OBVIOUS
<1> HIDE DEF S
<1>2. <<x>> \in Seq(S) /\ Len(<<x>>) = 1 /\ <<x>>[1] = x
  BY <1>1, Single
<1>3. /\ p \in Seq(S) /\ Len(p) = 1 + Len(c) /\ p[1] = x
      /\ \A i \in 1..Len(c) : p[1 + i] = c[i]
  BY <1>1, <1>2, Concatenated
<1> HIDE DEF p
<1>4. \A i \in 2..Len(c) + 1 : i - 1 \in 1..Len(c) /\ i = 1 + (i - 1)
  BY <1>1
<1>5. p \in Seq(Range(p))
  BY <1>3, Ranged
<1>6. \A i \in 2..Len(c) + 1 : p[i] = c[i - 1] /\ i - 1 \in 1..Len(c)
  BY <1>3, <1>4
<1>7. Len(p) = Len(c) + 1
  BY <1>1, <1>3
<1> QED
  BY <1>3, <1>5, <1>6, <1>7 DEF p

LEMMA FiniteRange ==
  ASSUME NEW S, IsFiniteSet(S), NEW T, NEW f \in [S -> T]
  PROVE  IsFiniteSet(Range(f))
<1>1. f \in Surjection(S, Range(f))
  BY DEF Surjection, Range
<1> HIDE DEF Range
<1> QED
  BY <1>1, FS_Surjection

LEMMA FiniteTasks ==
  ASSUME NEW S, NEW tasks \in Seq(S)
  PROVE  IsFiniteSet(Range(tasks))
<1>1. tasks \in [1..Len(tasks) -> S] /\ Len(tasks) \in Int /\ 1 \in Int
  OBVIOUS
<1>2. IsFiniteSet(1..Len(tasks))
  BY <1>1, FS_Interval
<1> QED
  BY <1>1, <1>2, FiniteRange

\* The calls of a task of an agent that confirms identities.
PlannedOf(r) == <<"identity">> \o r.checks

LEMMA PlannedCalls ==
  ASSUME NEW r, Good(r)
  PROVE  /\ Fundamental!Planned(r) = PlannedOf(r) /\ Event!Planned(r) = PlannedOf(r)
         /\ PlannedOf(r) \in Seq(Range(PlannedOf(r))) /\ Len(PlannedOf(r)) = Len(r.checks) + 1
         /\ PlannedOf(r)[1] = "identity" /\ Len(r.checks) \in Nat \ {0}
         /\ \A i \in 2..Len(PlannedOf(r)) :
              PlannedOf(r)[i] \notin {"snapshot", "identity", "context"}
         /\ \A i, j \in 1..Len(PlannedOf(r)) : PlannedOf(r)[i] = PlannedOf(r)[j] => i = j
         /\ IsFiniteSet(Range(PlannedOf(r)))
<1> DEFINE p == PlannedOf(r)
           c == r.checks
<1>1. c \in Seq(STRING) /\ c # <<>> /\ IsInjective(c) /\ Range(c) \cap {"snapshot", "identity", "context"} = {}
  BY DEF Good
<1>2. /\ p \in Seq(Range(p)) /\ Len(p) = Len(c) + 1 /\ p[1] = "identity" /\ Len(c) \in Nat \ {0}
      /\ \A i \in 2..Len(p) : p[i] = c[i - 1] /\ i - 1 \in 1..Len(c)
  <2>1. PICK x : x = "identity"
    OBVIOUS
  <2>2. p = <<x>> \o c
    BY <2>1 DEF PlannedOf
  <2>3. c \in Seq(STRING) /\ Len(c) \in Nat \ {0}
    BY <1>1
  <2> HIDE DEF p, c
  <2>4. /\ p \in Seq(Range(p)) /\ Len(p) = Len(c) + 1 /\ p[1] = x
        /\ \A i \in 2..Len(c) + 1 : p[i] = c[i - 1] /\ i - 1 \in 1..Len(c)
    BY <2>2, <2>3, Prefixed
  <2> QED
    BY <2>1, <2>3, <2>4
<1> HIDE DEF p
<1>3. \A i \in 1..Len(c) : c[i] \notin {"snapshot", "identity", "context"}
  <2> TAKE i \in 1..Len(c)
  <2>1. c[i] \in Range(c)
    BY <1>1, Ranged
  <2> QED
    BY <1>1, <2>1
<1>4. \A i, j \in 1..Len(c) : c[i] = c[j] => i = j
  BY <1>1 DEF IsInjective
<1> HIDE DEF c
<1>5. \A i \in 2..Len(p) : p[i] \notin {"snapshot", "identity", "context"}
  BY <1>2, <1>3
<1>6. ASSUME NEW i \in 1..Len(p), NEW j \in 1..Len(p), p[i] = p[j] PROVE i = j
  <2>1. i = 1 \/ i \in 2..Len(p)
    BY <1>2
  <2>2. j = 1 \/ j \in 2..Len(p)
    BY <1>2
  <2>3. CASE i = 1
    BY <1>2, <1>5, <1>6, <2>2, <2>3
  <2>4. CASE i \in 2..Len(p)
    <3>1. j \in 2..Len(p)
      BY <1>2, <1>5, <1>6, <2>2, <2>4
    <3>2. i - 1 = j - 1
      BY <1>2, <1>4, <1>6, <2>4, <3>1
    <3> QED
      BY <1>2, <2>4, <3>1, <3>2
  <2> QED
    BY <2>1, <2>3, <2>4
<1>7. IsFiniteSet(Range(p))
  BY <1>2, FiniteTasks
<1> QED
  BY <1>2, <1>5, <1>6, <1>7 DEF p, c, PlannedOf, Fundamental!Planned, Event!Planned

LEMMA FiniteCalls ==
  ASSUME NEW r, Good(r)
  PROVE  IsFiniteSet(Fundamental!Calls(r))
<1> DEFINE T == Range(PlannedOf(r))
           f == [t \in T |-> [tool |-> t, stock |-> r.stock]]
<1>1. IsFiniteSet(T)
  BY PlannedCalls
<1>2. Fundamental!Calls(r) = Range(f)
  <2>1. Fundamental!Range(Fundamental!Planned(r)) = T
    BY PlannedCalls, FundamentalFrame
  <2> HIDE DEF T
  <2> QED
    BY <2>1 DEF Fundamental!Calls, Range
<1> HIDE DEF T
<1>3. f \in [T -> Fundamental!Calls(r)]
  BY <1>2 DEF Range
<1> HIDE DEF f
<1> QED
  BY <1>1, <1>2, <1>3, FiniteRange

\* The calls of tasks that share them, and those answered before.
CallsFor(tasks) == UNION {Fundamental!Calls(r) : r \in Range(tasks)}

Answered == {[tool |-> o.tool, stock |-> o.stock] :
               o \in {p \in obs : p.result \in Fundamental!Reusable}}

Shared(tasks, skipped_) ==
  /\ tasks \in Seq(Range(pending)) /\ skipped_ \subseteq Range(pending)
  /\ Range(pending) \subseteq Range(tasks) \cup skipped_
  /\ IsFiniteSet(CallsFor(tasks)) /\ Cardinality(CallsFor(tasks) \ Answered) <= Left

LEMMA FundamentalReserves ==
  ASSUME Base
  PROVE  Shared(Fundamental!Reservation.tasks, Fundamental!Reservation.skipped)
<1> DEFINE n == Len(pending)
           R == Range(pending)
           C(r) == Fundamental!Calls(r)
           K == Answered \cup UNION {C(r) : r \in R}
           New(r, a) == C(r) \ a.reserved
           A == [tasks : Seq(R), skipped : SUBSET R, left : Nat, reserved : SUBSET K]
           base == [tasks |-> <<>>, skipped |-> {}, left |-> Left, reserved |-> Answered]
           Val(r, a) == IF Cardinality(New(r, a)) > a.left
                        THEN [a EXCEPT !.skipped = @ \cup {r}]
                        ELSE [a EXCEPT !.tasks = Append(@, r), !.left = @ - Cardinality(New(r, a)),
                                       !.reserved = @ \cup New(r, a)]
           G == [p \in A \X (1..n) |-> Val(pending[p[2]], p[1])]
           Step(f, s) == Val(pending[Max(s)], f[s \ {Max(s)}])
           Eq(f) == f = [s \in SUBSET DOMAIN pending |-> IF s = {} THEN base ELSE Step(f, s)]
           it == CHOOSE f : Eq(f)
           I == [k \in 0..n |->
                   {a \in A : /\ \A i \in 1..k : pending[i] \in Range(a.tasks) \cup a.skipped
                              /\ a.reserved = Answered \cup CallsFor(a.tasks)
                              /\ IsFiniteSet(CallsFor(a.tasks))
                              /\ Cardinality(CallsFor(a.tasks) \ Answered) + a.left = Left}]
<1>0. \A S : Fundamental!Cardinality(S) = Cardinality(S)
  BY FundamentalFrame
<1>1. Fundamental!Reservation = it[DOMAIN pending]
  BY DEF Fundamental!Reservation, Fundamental!FoldLeft, Fundamental!MapThenFoldSet, Fundamental!Max, Max,
         Fundamental!Left, Left, Answered, Fundamental!Cardinality, Cardinality
<1>2. /\ DOMAIN pending = 1..n /\ n \in Nat /\ Left \in Nat
      /\ \A i \in 1..n : pending[i] \in R
      /\ \A r \in R : Good(r)
      /\ \A r \in R : \E i \in 1..n : r = pending[i]
  <2>1. DOMAIN pending = 1..n /\ n \in Nat
    BY PendingTasks
  <2>2. Left \in Nat
    BY AgentAssumption DEF Left, Base, Typed
  <2> QED
    BY <2>1, <2>2, PendingTasks
<1>3. ASSUME NEW r \in R, NEW a \in A
      PROVE  /\ New(r, a) \in SUBSET K /\ IsFiniteSet(New(r, a)) /\ Cardinality(New(r, a)) \in Nat
  <2>1. IsFiniteSet(C(r))
    BY <1>2, FiniteCalls
  <2>2. New(r, a) \in SUBSET C(r) /\ C(r) \subseteq K
    OBVIOUS
  <2> HIDE DEF C, New
  <2>3. IsFiniteSet(New(r, a))
    BY <2>1, <2>2, FS_Subset
  <2> QED
    BY <2>2, <2>3, FS_CardinalityType
<1> HIDE DEF R
<1>4. base \in A
  BY <1>2
<1>5. ASSUME NEW r \in R, NEW a \in A PROVE Val(r, a) \in A
  <2> DEFINE m == New(r, a)
             c == Cardinality(New(r, a))
  <2>1. a.tasks \in Seq(R) /\ a.skipped \in SUBSET R /\ a.left \in Nat /\ a.reserved \in SUBSET K
    OBVIOUS
  <2>2. m \in SUBSET K /\ c \in Nat
    BY <1>3
  <2> HIDE DEF m, c, K
  <2>3. /\ a.skipped \cup {r} \in SUBSET R /\ Append(a.tasks, r) \in Seq(R)
        /\ a.reserved \cup m \in SUBSET K
    BY <2>1, <2>2
  <2>4. ~ (c > a.left) => a.left - c \in Nat
    BY <2>1, <2>2
  <2>5. Val(r, a) = IF c > a.left
                    THEN [a EXCEPT !.skipped = @ \cup {r}]
                    ELSE [a EXCEPT !.tasks = Append(@, r), !.left = @ - c, !.reserved = @ \cup m]
    BY DEF m, c
  <2> HIDE DEF Val
  <2> QED
    BY <2>3, <2>4, <2>5
<1> HIDE DEF Val
<1>6. G \in [A \X (1..n) -> A]
  <2> SUFFICES ASSUME NEW a \in A, NEW k \in 1..n PROVE Val(pending[k], a) \in A
    OBVIOUS
  <2> HIDE DEF A
  <2> QED
    BY <1>2, <1>5
<1>7. ASSUME NEW a \in A, NEW k \in 1..n PROVE G[<<a, k>>] = Val(pending[k], a)
  <2> HIDE DEF A
  <2> QED
    OBVIOUS
<1> HIDE DEF G, A, base
<1>8. \E f : Eq(f)
  <2>1. PICK f : Folded(A, base, G, n, f)
    <3> HIDE DEF n
    <3> QED
      BY <1>2, <1>4, <1>6, FoldExists
  <2>2. ASSUME NEW s \in SUBSET (1..n), s # {}
        PROVE  Max(s) \in 1..n /\ s \ {Max(s)} \in SUBSET (1..n) /\ f[s \ {Max(s)}] \in A
    <3>1. Max(s) \in s
      BY <1>2, <2>2, MaxOf
    <3> QED
      BY <2>1, <3>1 DEF Folded
  <2>3. \A s \in SUBSET (1..n) : s # {} => G[<<f[s \ {Max(s)}], Max(s)>>] = Step(f, s)
    BY <1>7, <2>2
  <2>4. Eq(f)
    <3> HIDE DEF Step
    <3> QED
      BY <1>2, <2>1, <2>3 DEF Folded
  <2> QED
    BY <2>4
<1>9. Eq(it)
  BY <1>8
<1> HIDE DEF it
<1>10. it[{}] = base
  BY <1>9
<1>11. ASSUME NEW s \in SUBSET (1..n), s # {}, it[s \ {Max(s)}] \in A
       PROVE  it[s] = G[<<it[s \ {Max(s)}], Max(s)>>]
  <2>1. Max(s) \in 1..n
    BY <1>2, <1>11, MaxOf
  <2> QED
    BY <1>2, <1>7, <1>9, <1>11, <2>1, Zenon
<1>12. PICK t : Traces(A, base, G, n, it, t)
  <2> HIDE DEF n
  <2> QED
    BY <1>2, <1>4, <1>6, <1>10, <1>11, FoldTraces
<1>13. base \in I[0]
  <2>1. CallsFor(<<>>) = {}
    BY NoTasks DEF CallsFor
  <2>2. /\ base.reserved = Answered \cup CallsFor(base.tasks) /\ base.left = Left
        /\ CallsFor(base.tasks) = {}
    BY <2>1 DEF base
  <2>3. IsFiniteSet(CallsFor(base.tasks)) /\ Cardinality(CallsFor(base.tasks) \ Answered) + base.left = Left
    BY <1>2, <2>2, FS_EmptySet
  <2>4. 0 \in 0..n /\ \A i \in 1..0 : FALSE
    <3> HIDE DEF n
    <3> QED
      BY <1>2
  <2> HIDE DEF n
  <2> QED
    BY <1>4, <2>2, <2>3, <2>4
<1>14. ASSUME NEW k \in 1..n, NEW a \in I[k - 1] PROVE G[<<a, k>>] \in I[k]
  <2> DEFINE r == pending[k]
             b == Val(r, a)
             m == New(r, a)
             c == Cardinality(m)
  <2>1. k - 1 \in 0..n /\ k \in 0..n /\ r \in R
    <3>1. r \in R
      BY <1>2
    <3> HIDE DEF n, I, r
    <3> QED
      BY <1>2, <3>1
  <2>2. /\ a \in A
        /\ \A i \in 1..k - 1 : pending[i] \in Range(a.tasks) \cup a.skipped
        /\ a.reserved = Answered \cup CallsFor(a.tasks)
        /\ IsFiniteSet(CallsFor(a.tasks))
        /\ Cardinality(CallsFor(a.tasks) \ Answered) + a.left = Left
    BY <2>1
  <2>3. G[<<a, k>>] = b /\ b \in A
    BY <1>5, <1>7, <2>1, <2>2
  <2>4. /\ a.tasks \in Seq(R) /\ a.left \in Nat
        /\ DOMAIN a = {"tasks", "skipped", "left", "reserved"}
    BY <2>2 DEF A
  <2>5. \A i \in 1..k : i = k \/ i \in 1..k - 1
    BY <1>2
  <2>6. CASE c > a.left
    <3>1. /\ b.tasks = a.tasks /\ b.left = a.left /\ b.skipped = a.skipped \cup {r}
          /\ b.reserved = a.reserved
      BY <2>4, <2>6 DEF Val
    <3> HIDE DEF b, r
    <3>2. \A i \in 1..k : pending[i] \in Range(b.tasks) \cup b.skipped
      BY <2>2, <2>5, <3>1 DEF r
    <3> QED
      BY <2>1, <2>2, <2>3, <3>1, <3>2
  <2>7. CASE ~ (c > a.left)
    <3>1. /\ b.tasks = Append(a.tasks, r) /\ b.left = a.left - c /\ b.skipped = a.skipped
          /\ b.reserved = a.reserved \cup m
      BY <2>4, <2>7 DEF Val
    <3>2. IsFiniteSet(m) /\ c \in Nat /\ b.left \in Nat
      <4>1. IsFiniteSet(m) /\ c \in Nat
        BY <1>3, <2>1, <2>2
      <4> HIDE DEF b, m, r
      <4> QED
        BY <2>3, <4>1 DEF A
    <3> DEFINE old == CallsFor(a.tasks) \ Answered
    <3>3. Range(b.tasks) = Range(a.tasks) \cup {r}
      <4> HIDE DEF r, b
      <4> QED
        BY <2>1, <2>4, <3>1, Appended
    <3>4. CallsFor(b.tasks) = CallsFor(a.tasks) \cup C(r)
      <4> HIDE DEF r, b
      <4> QED
        BY <3>3 DEF CallsFor
    <3>5. m = C(r) \ (Answered \cup CallsFor(a.tasks))
      BY <2>2
    <3>6. /\ b.reserved = Answered \cup CallsFor(b.tasks)
          /\ CallsFor(b.tasks) \ Answered = old \cup m /\ old \cap m = {}
      <4> HIDE DEF b, m, r, C
      <4> QED
        BY <2>2, <3>1, <3>4, <3>5
    <3>7. IsFiniteSet(CallsFor(b.tasks))
      <4> DEFINE cr == C(r)
      <4>1. IsFiniteSet(cr)
        BY <1>2, <2>1, FiniteCalls
      <4>2. CallsFor(b.tasks) = CallsFor(a.tasks) \cup cr
        BY <3>4
      <4> HIDE DEF cr
      <4>3. IsFiniteSet(CallsFor(a.tasks) \cup cr)
        BY <2>2, <4>1, FS_Union
      <4> QED
        BY <4>2, <4>3
    <3>8. Cardinality(old \cup m) = Cardinality(old) + c /\ Cardinality(old) \in Nat
      <4>1. IsFiniteSet(old)
        <5>1. old \in SUBSET CallsFor(a.tasks)
          OBVIOUS
        <5> HIDE DEF old
        <5> QED
          BY <2>2, <5>1, FS_Subset
      <4>2. Cardinality(old \cap m) = 0
        BY <3>6, FS_EmptySet
      <4>3. Cardinality(old) \in Nat
        BY <4>1, FS_CardinalityType
      <4> HIDE DEF old, m
      <4>4. Cardinality(old \cup m) = Cardinality(old) + Cardinality(m) - Cardinality(old \cap m)
        BY <3>2, <4>1, FS_Union
      <4> QED
        BY <3>2, <4>2, <4>3, <4>4
    <3> HIDE DEF b, r, m, c, C
    <3>9. Cardinality(CallsFor(b.tasks) \ Answered) + b.left = Left
      <4>1. Cardinality(old) + a.left = Left
        BY <2>2
      <4>2. Cardinality(CallsFor(b.tasks) \ Answered) = Cardinality(old) + c
        BY <3>6, <3>8
      <4> HIDE DEF old
      <4> QED
        BY <2>4, <3>1, <3>2, <3>8, <4>1, <4>2
    <3>10. \A i \in 1..k : pending[i] \in Range(b.tasks) \cup b.skipped
      BY <2>2, <2>5, <3>1, <3>3 DEF r
    <3> QED
      BY <2>1, <2>3, <3>6, <3>7, <3>9, <3>10
  <2> QED
    BY <2>6, <2>7
<1>15. it[1..n] \in I[n]
  <2> HIDE DEF n, I
  <2> QED
    BY <1>2, <1>12, <1>13, <1>14, TraceStays
<1> DEFINE res == Fundamental!Reservation
<1>16. res \in I[n]
  BY <1>1, <1>2, <1>15
<1> HIDE DEF res
<1>17. /\ res \in A
       /\ \A i \in 1..n : pending[i] \in Range(res.tasks) \cup res.skipped
       /\ IsFiniteSet(CallsFor(res.tasks))
       /\ Cardinality(CallsFor(res.tasks) \ Answered) + res.left = Left
  <2>1. n \in 0..n
    BY <1>2
  <2> QED
    BY <1>16, <2>1
<1>18. res.tasks \in Seq(R) /\ res.skipped \subseteq R /\ res.left \in Nat
  BY <1>17 DEF A
<1>19. R \subseteq Range(res.tasks) \cup res.skipped
  BY <1>2, <1>17
<1>20. Cardinality(CallsFor(res.tasks) \ Answered) <= Left
  <2> DEFINE S == CallsFor(res.tasks) \ Answered
  <2>1. IsFiniteSet(S)
    <3>1. S \in SUBSET CallsFor(res.tasks)
      OBVIOUS
    <3> HIDE DEF S
    <3> QED
      BY <1>17, <3>1, FS_Subset
  <2>2. Cardinality(S) \in Nat /\ Cardinality(S) + res.left = Left
    BY <1>17, <2>1, FS_CardinalityType
  <2> HIDE DEF S
  <2>3. Cardinality(S) <= Left
    BY <1>2, <1>18, <2>2
  <2> QED
    BY <2>3 DEF S
<1> QED
  BY <1>17, <1>18, <1>19, <1>20 DEF Shared, R, res

LEMMA FundamentalStarts ==
  ASSUME Base, agent = "fundamental", Fundamental!Execute
  PROVE  /\ \E gone : StartStep(gone)
         /\ IsFiniteSet(CallsFor(pending')) /\ Cardinality(CallsFor(pending') \ Answered) <= Left
<1> DEFINE res == Fundamental!Reservation
<1>1. StartRound(res)
  BY FundamentalFrame DEF Fundamental!Execute
<1>2. Shared(res.tasks, res.skipped)
  BY FundamentalReserves
<1> HIDE DEF res
<1>3. StartStep(res.skipped) /\ pending' = res.tasks
  BY <1>1, <1>2, Starts DEF Shared
<1> QED
  BY <1>2, <1>3 DEF Shared

LEMMA KeepsOthers ==
  ASSUME NEW X, NEW tasks \in Seq(X), NEW gone
  PROVE  /\ Event!Without(tasks, gone) \in Seq(Range(tasks) \ gone)
         /\ Range(Event!Without(tasks, gone)) = Range(tasks) \ gone
<1> DEFINE n == Len(tasks)
           R == Range(tasks)
           A == Seq(R \ gone)
           Val(r, a) == IF r \in gone THEN a ELSE Append(a, r)
           G == [p \in A \X (1..n) |-> Val(tasks[p[2]], p[1])]
           Step(f, s) == Val(tasks[Max(s)], f[s \ {Max(s)}])
           Eq(f) == f = [s \in SUBSET DOMAIN tasks |-> IF s = {} THEN <<>> ELSE Step(f, s)]
           it == CHOOSE f : Eq(f)
           I == [k \in 0..n |-> {a \in A : \A i \in 1..k : tasks[i] \in Range(a) \cup gone}]
<1>1. Event!Without(tasks, gone) = it[DOMAIN tasks]
  BY DEF Event!Without, Event!FoldLeft, Event!MapThenFoldSet, Event!Max, Max
<1>2. /\ DOMAIN tasks = 1..n /\ n \in Nat
      /\ \A i \in 1..n : tasks[i] \in R
      /\ \A r \in R : \E i \in 1..n : r = tasks[i]
  BY Ranged
<1> HIDE DEF R
<1>3. <<>> \in A
  OBVIOUS
<1>4. ASSUME NEW r \in R, NEW a \in A PROVE Val(r, a) \in A
  OBVIOUS
<1>5. G \in [A \X (1..n) -> A]
  <2> SUFFICES ASSUME NEW a \in A, NEW k \in 1..n PROVE Val(tasks[k], a) \in A
    OBVIOUS
  <2> HIDE DEF A, Val
  <2> QED
    BY <1>2, <1>4
<1>6. ASSUME NEW a \in A, NEW k \in 1..n PROVE G[<<a, k>>] = Val(tasks[k], a)
  <2> HIDE DEF A, Val
  <2> QED
    OBVIOUS
<1> HIDE DEF G, A, Val
<1>7. \E f : Eq(f)
  <2>1. PICK f : Folded(A, <<>>, G, n, f)
    <3> HIDE DEF n
    <3> QED
      BY <1>2, <1>3, <1>5, FoldExists
  <2>2. ASSUME NEW s \in SUBSET (1..n), s # {}
        PROVE  Max(s) \in 1..n /\ s \ {Max(s)} \in SUBSET (1..n) /\ f[s \ {Max(s)}] \in A
    <3>1. Max(s) \in s
      BY <1>2, <2>2, MaxOf
    <3> QED
      BY <2>1, <3>1 DEF Folded
  <2>3. \A s \in SUBSET (1..n) : s # {} => G[<<f[s \ {Max(s)}], Max(s)>>] = Step(f, s)
    BY <1>6, <2>2
  <2>4. Eq(f)
    <3> HIDE DEF Step
    <3> QED
      BY <1>2, <2>1, <2>3 DEF Folded
  <2> QED
    BY <2>4
<1>8. Eq(it)
  BY <1>7
<1> HIDE DEF it
<1>9. it[{}] = <<>>
  BY <1>8
<1>10. ASSUME NEW s \in SUBSET (1..n), s # {}, it[s \ {Max(s)}] \in A
       PROVE  it[s] = G[<<it[s \ {Max(s)}], Max(s)>>]
  <2>1. Max(s) \in 1..n
    BY <1>2, <1>10, MaxOf
  <2> QED
    BY <1>2, <1>6, <1>8, <1>10, <2>1, Zenon
<1>11. PICK t : Traces(A, <<>>, G, n, it, t)
  <2> HIDE DEF n
  <2> QED
    BY <1>2, <1>3, <1>5, <1>9, <1>10, FoldTraces
<1>12. <<>> \in I[0]
  <2>1. 0 \in 0..n /\ \A i \in 1..0 : FALSE
    <3> HIDE DEF n
    <3> QED
      BY <1>2
  <2> HIDE DEF n
  <2> QED
    BY <1>3, <2>1
<1>13. ASSUME NEW k \in 1..n, NEW a \in I[k - 1] PROVE G[<<a, k>>] \in I[k]
  <2> DEFINE r == tasks[k]
             b == Val(r, a)
  <2>1. k - 1 \in 0..n /\ k \in 0..n /\ r \in R
    <3>1. r \in R
      BY <1>2
    <3> HIDE DEF n, I, r
    <3> QED
      BY <1>2, <3>1
  <2>2. a \in A /\ \A i \in 1..k - 1 : tasks[i] \in Range(a) \cup gone
    BY <2>1
  <2>3. G[<<a, k>>] = b /\ b \in A
    BY <1>4, <1>6, <2>1, <2>2
  <2>4. Range(b) \cup gone = Range(a) \cup {r} \cup gone
    <3>1. CASE r \in gone
      <4>1. b = a
        BY <3>1 DEF Val
      <4> HIDE DEF b, r
      <4> QED
        BY <3>1, <4>1
    <3>2. CASE r \notin gone
      <4>1. b = Append(a, r)
        BY <3>2 DEF Val
      <4>2. a \in Seq(R \ gone)
        BY <2>2 DEF A
      <4> HIDE DEF b, r
      <4>3. Range(b) = Range(a) \cup {r}
        BY <2>1, <3>2, <4>1, <4>2, Appended
      <4> QED
        BY <4>3
    <3> QED
      BY <3>1, <3>2
  <2>5. \A i \in 1..k : i = k \/ i \in 1..k - 1
    BY <1>2
  <2> HIDE DEF b
  <2>6. \A i \in 1..k : tasks[i] \in Range(b) \cup gone
    BY <2>2, <2>4, <2>5
  <2> QED
    BY <2>1, <2>3, <2>6
<1>14. it[1..n] \in I[n]
  <2> HIDE DEF n, I
  <2> QED
    BY <1>2, <1>11, <1>12, <1>13, TraceStays
<1> DEFINE kept == Event!Without(tasks, gone)
<1>15. kept \in I[n]
  BY <1>1, <1>2, <1>14
<1> HIDE DEF kept
<1>16. n \in 0..n
  BY <1>2
<1>17. kept \in Seq(R \ gone) /\ \A i \in 1..n : tasks[i] \in Range(kept) \cup gone
  BY <1>15, <1>16 DEF A
<1>18. Range(kept) \subseteq R \ gone
  BY <1>17, Ranged
<1>19. R \ gone \subseteq Range(kept)
  BY <1>2, <1>17
<1> QED
  BY <1>17, <1>18, <1>19 DEF kept, R

-----------------------------------------------------------------------------
(* The nodes of each agent.                                                *)

\* An agent's nodes other than its calls take the steps of the frame.
Nodes(snapshot, analyze, plan, review) ==
  /\ snapshot => SnapshotStep
  /\ analyze \/ plan => PlanStep
  /\ review => ReviewStep

LEMMA StocksAreTargets ==
  ASSUME Base, agent # "technical", mode = "VERIFICATION"
  PROVE  {r.stock : r \in Range(pending)} \subseteq {target}
BY PendingTasks DEF Good

LEMMA TwoCalls ==
  ASSUME NEW c \in {{o, p} : o, p \in obs}
  PROVE  c # {} /\ c \subseteq obs
OBVIOUS

LEMMA FundamentalDrafts ==
  ASSUME agent = "fundamental"
  PROVE  GoodDrafts(Fundamental!Draft)
<1> SUFFICES ASSUME NEW d \in Fundamental!Draft PROVE GoodDraft(d)
  BY DEF GoodDrafts
<1>1. /\ d.cites \in {{o, p} : o, p \in obs} /\ d.about \in Stock \cup {Market}
      /\ {"about", "cites"} \subseteq DOMAIN d
  BY DEF Fundamental!Draft
<1>2. d.cites # {} /\ d.cites \subseteq obs
  BY <1>1, TwoCalls
<1> QED
  BY <1>1, <1>2 DEF GoodDraft, Abouts

LEMMA FundamentalBuilds ==
  ASSUME agent = "fundamental", NEW allowed, mode = "VERIFICATION" => allowed \subseteq {target}
  PROVE  GoodBuilt(Fundamental!BuildTasks(allowed))
<1>1. GoodBuilt([w \in Written |-> Build(w, {r \in Range(w) : r.stock \in allowed})])
  BY Builds DEF Agents
<1>2. \A w \in Written : Fundamental!BuildTasks(allowed)[w] = Build(w, {r \in Range(w) : r.stock \in allowed})
  BY FundamentalFrame DEF Fundamental!BuildTasks
<1> QED
  BY <1>1, <1>2 DEF GoodBuilt

LEMMA FundamentalNodes ==
  ASSUME Base, agent = "fundamental"
  PROVE  /\ Nodes(Fundamental!Snapshot, Fundamental!Analyze, Fundamental!Plan, Fundamental!Review)
         /\ Fundamental!Finalize => FinalStep(Fundamental!Proved(drafts), [d \in drafts |-> d]) \/ RaiseStep
<1>1. Fundamental!Snapshot => SnapshotStep
  BY FundamentalFrame, Snapshots DEF Fundamental!Snapshot
<1>2. Fundamental!Analyze => PlanStep
  <2> SUFFICES ASSUME Fundamental!Analyze PROVE PlanStep
    OBVIOUS
  <2>1. \E accepted : AnalyzeDaily(accepted, Fundamental!Draft, Fundamental!BuildTasks(Listed))
    BY FundamentalFrame DEF Fundamental!Analyze
  <2>2. pc = "analyze" /\ mode = "DAILY"
    BY <2>1 DEF AnalyzeDaily, Base, Staged
  <2>3. GoodBuilt(Fundamental!BuildTasks(Listed))
    BY <2>2, FundamentalBuilds
  <2> QED
    BY <2>1, <2>3, FundamentalDrafts, Analyzes
<1>3. Fundamental!Plan => PlanStep
  <2> SUFFICES ASSUME Fundamental!Plan PROVE PlanStep
    OBVIOUS
  <2> DEFINE plans == Plans(TasksOf(Fundamental!BuildTasks({target})), Request[agent])
  <2>1. PlanTargeted(plans)
    BY FundamentalFrame DEF Fundamental!Plan
  <2>2. GoodBuilt(Fundamental!BuildTasks({target}))
    BY FundamentalBuilds
  <2>3. GoodPlans(plans)
    BY <2>2, PlansAreGood
  <2> HIDE DEF plans
  <2> QED
    BY <2>1, <2>3, PlansTargeted
<1>4. Fundamental!Review => ReviewStep
  <2> SUFFICES ASSUME Fundamental!Review PROVE ReviewStep
    OBVIOUS
  <2> DEFINE allowed == {r.stock : r \in Range(pending)}
  <2>1. ReviewRound(Fundamental!ReviewDrafts(Fundamental!Draft), Fundamental!Draft, Fundamental!BuildTasks(allowed))
    BY FundamentalFrame DEF Fundamental!Review
  <2>2. mode = "VERIFICATION" => allowed \subseteq {target}
    BY StocksAreTargets
  <2> HIDE DEF allowed
  <2>3. GoodBuilt(Fundamental!BuildTasks(allowed))
    BY <2>2, FundamentalBuilds
  <2> QED
    BY <2>1, <2>3, FundamentalDrafts, Reviews
<1>5. Fundamental!Finalize => FinalStep(Fundamental!Proved(drafts), [d \in drafts |-> d]) \/ RaiseStep
  <2>1. Fundamental!Proved(drafts) \subseteq drafts
    BY DEF Fundamental!Proved, Fundamental!ReviewDrafts
  <2> QED
    BY <2>1, FundamentalFrame, Finalizes DEF Fundamental!Finalize
<1> QED
  BY <1>1, <1>2, <1>3, <1>4, <1>5 DEF Nodes

LEMMA EventDrafts ==
  ASSUME agent = "event"
  PROVE  GoodDrafts(Event!Draft)
<1> SUFFICES ASSUME NEW d \in Event!Draft PROVE GoodDraft(d)
  BY DEF GoodDrafts
<1>1. PICK c \in {{o, p} : o, p \in obs} :
        d \in [about: Stock \cup {Market}, cites: {c},
              keys: {{k, l} : k, l \in UNION {Event!Rows(o) : o \in c}}]
  BY DEF Event!Draft
<1>2. d.cites = c /\ d.about \in Stock \cup {Market} /\ {"about", "cites"} \subseteq DOMAIN d
  BY <1>1
<1>3. c # {} /\ c \subseteq obs
  BY TwoCalls
<1>4. ASSUME NEW k \in d.keys PROVE k[1] \in d.cites /\ k \in Event!Rows(k[1])
  <2>1. PICK o \in c : k \in Event!Rows(o)
    BY <1>1
  <2>2. k[1] = o
    BY <2>1 DEF Event!Rows
  <2> QED
    BY <1>2, <2>1, <2>2
<1> QED
  BY <1>2, <1>3, <1>4 DEF GoodDraft, Abouts

LEMMA EventBuilds ==
  ASSUME agent = "event", NEW allowed, mode = "VERIFICATION" => allowed \subseteq {target}
  PROVE  GoodBuilt(Event!BuildTasks(allowed))
<1>1. GoodBuilt([w \in Written |-> Build(w, {r \in Range(w) : r.stock \in allowed})])
  BY Builds DEF Agents
<1>2. \A w \in Written : Event!BuildTasks(allowed)[w] = Build(w, {r \in Range(w) : r.stock \in allowed})
  BY EventFrame DEF Event!BuildTasks
<1> QED
  BY <1>1, <1>2 DEF GoodBuilt

LEMMA EventNodes ==
  ASSUME Base, agent = "event"
  PROVE  /\ Nodes(Event!Snapshot, Event!Analyze, Event!Plan, Event!Review)
         /\ Event!Finalize => FinalStep(Event!Proved(drafts), [d \in drafts |-> d]) \/ RaiseStep
<1>1. Event!Snapshot => SnapshotStep
  BY EventFrame, Snapshots DEF Event!Snapshot
<1>2. Event!Analyze => PlanStep
  <2> SUFFICES ASSUME Event!Analyze PROVE PlanStep
    OBVIOUS
  <2>1. \E accepted : AnalyzeDaily(accepted, Event!Draft, Event!BuildTasks(Listed))
    BY EventFrame DEF Event!Analyze
  <2>2. pc = "analyze" /\ mode = "DAILY"
    BY <2>1 DEF AnalyzeDaily, Base, Staged
  <2>3. GoodBuilt(Event!BuildTasks(Listed))
    BY <2>2, EventBuilds
  <2> QED
    BY <2>1, <2>3, EventDrafts, Analyzes
<1>3. Event!Plan => PlanStep
  <2> SUFFICES ASSUME Event!Plan PROVE PlanStep
    OBVIOUS
  <2> DEFINE plans == Plans(TasksOf(Event!BuildTasks({target})), Request[agent])
  <2>1. PlanTargeted(plans)
    BY EventFrame DEF Event!Plan
  <2>2. GoodBuilt(Event!BuildTasks({target}))
    BY EventBuilds
  <2>3. GoodPlans(plans)
    BY <2>2, PlansAreGood
  <2> HIDE DEF plans
  <2> QED
    BY <2>1, <2>3, PlansTargeted
<1>4. Event!Review => ReviewStep
  <2> SUFFICES ASSUME Event!Review PROVE ReviewStep
    OBVIOUS
  <2> DEFINE allowed == {r.stock : r \in Range(pending)}
  <2>1. ReviewRound(Event!ReviewDrafts(Event!Draft), Event!Draft, Event!BuildTasks(allowed))
    BY EventFrame DEF Event!Review
  <2>2. mode = "VERIFICATION" => allowed \subseteq {target}
    BY StocksAreTargets
  <2> HIDE DEF allowed
  <2>3. GoodBuilt(Event!BuildTasks(allowed))
    BY <2>2, EventBuilds
  <2> QED
    BY <2>1, <2>3, EventDrafts, Reviews
<1>5. Event!Finalize => FinalStep(Event!Proved(drafts), [d \in drafts |-> d]) \/ RaiseStep
  <2>1. Event!Proved(drafts) \subseteq drafts
    BY DEF Event!Proved, Event!ReviewDrafts
  <2> QED
    BY <2>1, EventFrame, Finalizes DEF Event!Finalize
<1> QED
  BY <1>1, <1>2, <1>3, <1>4, <1>5 DEF Nodes

LEMMA SentimentDrafts ==
  ASSUME agent = "sentiment_flow"
  PROVE  GoodDrafts(Sentiment!Draft)
<1> SUFFICES ASSUME NEW d \in Sentiment!Draft PROVE GoodDraft(d)
  BY DEF GoodDrafts
<1>1. /\ d.cites \in {{o, p} : o, p \in obs} /\ d.about \in Stock \cup {Market}
      /\ {"about", "cites"} \subseteq DOMAIN d
  BY DEF Sentiment!Draft
<1>2. d.cites # {} /\ d.cites \subseteq obs
  BY <1>1, TwoCalls
<1> QED
  BY <1>1, <1>2 DEF GoodDraft, Abouts

LEMMA SentimentBuilds ==
  ASSUME agent = "sentiment_flow", NEW allowed, mode = "VERIFICATION" => allowed \subseteq {target}
  PROVE  GoodBuilt(Sentiment!BuildTasks(allowed))
<1>1. GoodBuilt([w \in Written |-> Build(w, {r \in Range(w) : r.stock \in allowed})])
  BY Builds DEF Agents
<1>2. \A w \in Written : Sentiment!BuildTasks(allowed)[w] = Build(w, {r \in Range(w) : r.stock \in allowed})
  BY SentimentFrame DEF Sentiment!BuildTasks
<1> QED
  BY <1>1, <1>2 DEF GoodBuilt

LEMMA SentimentNodes ==
  ASSUME Base, agent = "sentiment_flow"
  PROVE  /\ Nodes(Sentiment!Snapshot, Sentiment!Analyze, Sentiment!Plan, Sentiment!Review)
         /\ Sentiment!Finalize => FinalStep(Sentiment!Proved(drafts), [d \in drafts |-> d]) \/ RaiseStep
<1>1. Sentiment!Snapshot => SnapshotStep
  BY SentimentFrame, Snapshots DEF Sentiment!Snapshot
<1>2. Sentiment!Analyze => PlanStep
  <2> SUFFICES ASSUME Sentiment!Analyze PROVE PlanStep
    OBVIOUS
  <2>1. \E accepted : AnalyzeDaily(accepted, Sentiment!Draft, Sentiment!BuildTasks(Listed))
    BY SentimentFrame DEF Sentiment!Analyze
  <2>2. pc = "analyze" /\ mode = "DAILY"
    BY <2>1 DEF AnalyzeDaily, Base, Staged
  <2>3. GoodBuilt(Sentiment!BuildTasks(Listed))
    BY <2>2, SentimentBuilds
  <2> QED
    BY <2>1, <2>3, SentimentDrafts, Analyzes
<1>3. Sentiment!Plan => PlanStep
  <2> SUFFICES ASSUME Sentiment!Plan PROVE PlanStep
    OBVIOUS
  <2> DEFINE plans == Plans(TasksOf(Sentiment!BuildTasks({target})), Request[agent])
  <2>1. PlanTargeted(plans)
    BY SentimentFrame DEF Sentiment!Plan
  <2>2. GoodBuilt(Sentiment!BuildTasks({target}))
    BY SentimentBuilds
  <2>3. GoodPlans(plans)
    BY <2>2, PlansAreGood
  <2> HIDE DEF plans
  <2> QED
    BY <2>1, <2>3, PlansTargeted
<1>4. Sentiment!Review => ReviewStep
  <2> SUFFICES ASSUME Sentiment!Review PROVE ReviewStep
    OBVIOUS
  <2> DEFINE allowed == {r.stock : r \in Range(pending)}
  <2>1. ReviewRound(Sentiment!ReviewDrafts(Sentiment!Draft), Sentiment!Draft, Sentiment!BuildTasks(allowed))
    BY SentimentFrame DEF Sentiment!Review
  <2>2. mode = "VERIFICATION" => allowed \subseteq {target}
    BY StocksAreTargets
  <2> HIDE DEF allowed
  <2>3. GoodBuilt(Sentiment!BuildTasks(allowed))
    BY <2>2, SentimentBuilds
  <2> QED
    BY <2>1, <2>3, SentimentDrafts, Reviews
<1>5. Sentiment!Finalize => FinalStep(Sentiment!Proved(drafts), [d \in drafts |-> d]) \/ RaiseStep
  <2>1. Sentiment!Proved(drafts) \subseteq drafts
    BY DEF Sentiment!Proved, Sentiment!ReviewDrafts
  <2> QED
    BY <2>1, SentimentFrame, Finalizes DEF Sentiment!Finalize
<1> QED
  BY <1>1, <1>2, <1>3, <1>4, <1>5 DEF Nodes

LEMMA TechnicalDrafts ==
  ASSUME agent = "technical"
  PROVE  GoodDrafts(Technical!Draft)
<1> SUFFICES ASSUME NEW d \in Technical!Draft PROVE GoodDraft(d)
  BY DEF GoodDrafts
<1>0. Technical!Benchmarks = Range(Proxies)
  BY TechnicalFrame DEF Technical!Benchmarks
<1>1. /\ d.cites \in {{o, p} : o, p \in obs} /\ {"about", "cites"} \subseteq DOMAIN d
      /\ d.about \in Stock \cup {Market, SectorIndex} \cup Range(Proxies)
  <2> DEFINE abouts == Stock \cup {Market, SectorIndex} \cup Technical!Benchmarks
             two    == {{o, p} : o, p \in obs}
             A      == [about: abouts, named: {TRUE}, cites: two]
             B      == [about: {SectorIndex}, named: {FALSE}, cites: two]
  <2>1. Technical!Draft = A \cup B
    BY DEF Technical!Draft
  <2> HIDE DEF two
  <2>2. d \in A \/ d \in B
    <3> HIDE DEF A, B
    <3> QED
      BY <2>1
  <2>3. d.cites \in two /\ d.about \in abouts /\ {"about", "cites"} \subseteq DOMAIN d
    BY <2>2
  <2> QED
    BY <1>0, <2>3 DEF two
<1>2. d.cites # {} /\ d.cites \subseteq obs
  BY <1>1, TwoCalls
<1> QED
  BY <1>1, <1>2 DEF GoodDraft, Abouts

LEMMA TechnicalNodes ==
  ASSUME Base, agent = "technical"
  PROVE  /\ Nodes(Technical!Snapshot, Technical!Analyze, Technical!Plan, Technical!Review)
         /\ Technical!Finalize =>
              \/ FinalStep(Technical!Proved(drafts), [d \in drafts |-> Technical!Recorded(d)])
              \/ RaiseStep
<1>1. Technical!Snapshot => SnapshotStep
  BY TechnicalFrame, Snapshots DEF Technical!Snapshot
<1>2. Technical!Analyze => PlanStep
  <2> SUFFICES ASSUME Technical!Analyze PROVE PlanStep
    OBVIOUS
  <2> DEFINE built == Technical!BuildTasks(Listed \cup Technical!Benchmarks)
  <2>1. \E accepted : AnalyzeDaily(accepted, Technical!Draft, built)
    BY TechnicalFrame DEF Technical!Analyze
  <2>2. GoodBuilt(built)
    BY TechnicalBuilds
  <2> HIDE DEF built
  <2> QED
    BY <2>1, <2>2, TechnicalDrafts, Analyzes
<1>3. Technical!Plan => PlanStep
  <2> SUFFICES ASSUME Technical!Plan PROVE PlanStep
    OBVIOUS
  <2> DEFINE planned == Technical!BuildTasks({Technical!Subject} \cup Technical!Benchmarks)
             nothing == [w \in Written |-> <<>>]
  <2>1. \/ PlanTargeted(Plans(TasksOf(planned), Technical!Covering))
        \/ PlanTargeted(Plans(TasksOf(nothing), {}))
    BY TechnicalFrame DEF Technical!Plan
  <2>2. GoodBuilt(planned)
    BY TechnicalBuilds
  <2>3. GoodBuilt(nothing)
    BY NoTasks DEF GoodBuilt
  <2> HIDE DEF planned, nothing
  <2>4. \A c : GoodPlans(Plans(TasksOf(planned), c)) /\ GoodPlans(Plans(TasksOf(nothing), c))
    BY <2>2, <2>3, PlansAreGood
  <2> QED
    BY <2>1, <2>4, PlansTargeted
<1>4. Technical!Review => ReviewStep
  <2> SUFFICES ASSUME Technical!Review PROVE ReviewStep
    OBVIOUS
  <2> DEFINE built == Technical!FollowUps(Technical!FollowUp)
  <2>1. ReviewRound(Technical!ReviewDrafts(Technical!Draft), Technical!Draft, built)
    BY TechnicalFrame DEF Technical!Review
  <2>2. GoodBuilt(built)
    BY TechnicalFollowUps
  <2> HIDE DEF built
  <2> QED
    BY <2>1, <2>2, TechnicalDrafts, Reviews
<1>5. Technical!Finalize =>
        \/ FinalStep(Technical!Proved(drafts), [d \in drafts |-> Technical!Recorded(d)])
        \/ RaiseStep
  <2>1. Technical!Proved(drafts) \subseteq drafts
    BY DEF Technical!Proved, Technical!ReviewDrafts
  <2> QED
    BY <2>1, TechnicalFrame, Finalizes DEF Technical!Finalize
<1> QED
  BY <1>1, <1>2, <1>3, <1>4, <1>5 DEF Nodes

-----------------------------------------------------------------------------
(* The calls of each agent.                                                *)

Asks(tool, stock, uses, o) ==
  o.tool = tool /\ o.stock = stock /\ o.uses = uses

\* A task goes on with the answer o: one that was there, or that of a call made now.
Gets(o, tool, stock, uses) ==
  /\ Asks(tool, stock, uses, o)
  /\ \/ /\ o \in obs /\ o.result \in Reusable
        /\ obs' = obs /\ count' = count
     \/ /\ o.round = round /\ o.position = cursor.task
        /\ \A p \in obs : Asks(tool, stock, uses, p) => p.result \notin Reusable
        /\ obs' = obs \cup {o} /\ count' = count + 1

Current == pending[cursor.task]

Stays(data) ==
  /\ cursor.call < Steps(Current)
  /\ cursor' = [task |-> cursor.task, call |-> cursor.call + 1, data |-> data]
  /\ pc' = "call" /\ pending' = pending

Ends ==
  /\ cursor' = Task(cursor.task + 1, First)
  /\ pc' = IF cursor.task = Len(pending) THEN "review" ELSE "call"
  /\ IF agent = "event" /\ cursor.task = Len(pending)
     THEN pending' \in Seq(Range(pending)) /\ Range(pending') = Range(pending) \ skipped'
     ELSE pending' = pending

Moves(data) == IF cursor.call = Steps(Current) THEN Ends ELSE Stays(data)

Calling ==
  /\ pc = "call"
  /\ UNCHANGED <<agent, mode, target, seen, round, drafts, evidence, status>>

\* A call of an agent that confirms identities.
NamedCall(o) ==
  LET tool  == PlannedOf(Current)[cursor.call]
      stops == tool = "identity" /\ o.result # "confirmed"
  IN /\ agent \in Named /\ cursor.call > 0 /\ Gets(o, tool, Current.stock, {})
     /\ IF stops THEN Ends ELSE Moves(cursor.data)
     /\ errors' = (errors \/ stops \/ (agent = "fundamental" /\ o.result = "failed"))
     /\ UNCHANGED <<exhausted, skipped>>

TakesTask ==
  LET over == Cardinality(Event!Fresh(Current)) > Left
  IN /\ agent = "event" /\ cursor.call = 0 /\ UNCHANGED <<obs, count>>
     /\ IF over THEN Ends ELSE Stays(cursor.data)
     /\ skipped' = IF over THEN skipped \cup {Current} ELSE skipped
     /\ exhausted' = (exhausted \/ over) /\ errors' = (errors \/ over)

SentimentCall(o) ==
  LET check == Current.checks[cursor.call]
  IN /\ agent = "sentiment_flow" /\ Moves(cursor.data)
     /\ UNCHANGED <<exhausted, skipped>>
     /\ \/ Sentiment!Refused(Current, check) /\ errors' = TRUE /\ UNCHANGED <<obs, count>>
        \/ /\ ~ Sentiment!Refused(Current, check) /\ Gets(o, check, Current.stock, {})
           /\ errors' = (errors \/ o.result = "failed")

Contexts == Technical!Contexts(Current)

TechnicalFetch(o) ==
  /\ agent = "technical" /\ cursor.call <= Len(Contexts)
  /\ Gets(o, "context", Contexts[cursor.call], {})
  /\ IF cursor.call = 1 /\ o.result = "failed" THEN Ends /\ errors' = TRUE
     ELSE Stays(Append(cursor.data, o)) /\ errors' = errors
  /\ UNCHANGED <<exhausted, skipped>>

TechnicalCalculation(o) ==
  LET check == Current.checks[cursor.call - Len(Contexts)]
      uses  == IF check = "relative_strength" THEN Range(cursor.data) ELSE {cursor.data[1]}
  IN /\ agent = "technical" /\ cursor.call > Len(Contexts) /\ Moves(cursor.data)
     /\ \/ (\E c \in uses : c.result = "failed") /\ UNCHANGED <<obs, count>>
        \/ (\A c \in uses : c.result # "failed") /\ Gets(o, check, Current.stock, uses)
     /\ UNCHANGED <<exhausted, skipped, errors>>

CallStep ==
  /\ Calling
  /\ \/ TakesTask
     \/ \E o : NamedCall(o) \/ SentimentCall(o) \/ TechnicalFetch(o) \/ TechnicalCalculation(o)

LEMMA TaskAtHand ==
  ASSUME Base, pc = "call"
  PROVE  /\ cursor.task \in 1..Len(pending) /\ Len(pending) \in Nat
         /\ cursor.call \in First..Steps(Current) /\ cursor.call \in Nat
         /\ cursor = [task |-> cursor.task, call |-> cursor.call, data |-> cursor.data]
         /\ Current \in Range(pending) /\ Current \in seen /\ Good(Current)
         /\ Steps(Current) \in Nat \ {0}
<1>1. /\ cursor.task \in 1..Len(pending) /\ cursor.call \in First..Steps(Current)
      /\ cursor \in [task : Nat, call : Nat, data : Seq(obs)]
  BY DEF Base, Typed, Staged, Current
<1>2. Len(pending) \in Nat
  BY PendingTasks
<1>3. Current \in Range(pending) /\ Current \in seen /\ Good(Current)
  BY <1>1, PendingTasks DEF Current
<1>4. Steps(Current) \in Nat \ {0}
  <2> HIDE DEF Current
  <2> QED
    BY <1>3, CallsOfTask DEF Steps
<1> QED
  BY <1>1, <1>2, <1>3, <1>4

LEMMA AnswerGot ==
  ASSUME NEW tool, NEW stock, NEW uses, NEW results,
         NEW o \in Answers(tool, stock, uses, results, Reusable), Ask(o, Reusable)
  PROVE  Gets(o, tool, stock, uses)
<1> DEFINE found == Found(tool, stock, uses, Reusable)
<1>1. CASE found # {}
  <2>1. o \in found
    BY <1>1 DEF Answers
  <2>2. o \in obs /\ Asks(tool, stock, uses, o) /\ o.result \in Reusable
    BY <2>1 DEF Found, Asks
  <2> QED
    BY <2>2 DEF Ask, Gets
<1>2. CASE found = {}
  <2>1. PICK result \in results :
               o = Observation(<<round, cursor.task>>, tool, stock, uses, result)
    BY <1>2 DEF Answers
  <2>2. o.round = round /\ o.position = cursor.task /\ Asks(tool, stock, uses, o)
    BY <2>1 DEF Observation, Asks
  <2>3. \A p \in obs : Asks(tool, stock, uses, p) => p.result \notin Reusable
    BY <1>2 DEF Found, Asks
  <2>4. obs' = obs \cup {o} /\ count' = count + 1
    BY <2>2, <2>3 DEF Ask
  <2> QED
    BY <2>2, <2>3, <2>4 DEF Gets
<1> QED
  BY <1>1, <1>2

LEMMA FundamentalCalls ==
  ASSUME Base, agent = "fundamental", Fundamental!Call
  PROVE  CallStep
<1>1. pc = "call" /\ Calling /\ UNCHANGED <<pending, exhausted, skipped>>
  BY DEF Fundamental!Call, Fundamental!fixed, Calling
<1>2. /\ Fundamental!Planned(Current) = PlannedOf(Current)
      /\ Len(PlannedOf(Current)) = Steps(Current)
  <2> HIDE DEF Current
  <2> QED
    BY <1>1, TaskAtHand, PlannedCalls DEF Steps, Named
<1> DEFINE tool == PlannedOf(Current)[cursor.call]
<1>3. Fundamental!Reusable = Reusable
  BY DEF Reusable
<1>4. PICK o \in Answers(tool, Current.stock, {}, Fundamental!Results(tool), Reusable) :
        Ask(o, Reusable) /\ Fundamental!Advance(o)
  BY <1>2, <1>3, FundamentalFrame DEF Fundamental!Call, Current
<1>5. Gets(o, tool, Current.stock, {})
  BY <1>4, AnswerGot
<1>6. o.tool = tool
  BY <1>5 DEF Gets, Asks
<1> DEFINE stops == tool = "identity" /\ o.result # "confirmed"
<1>7. /\ IF stops \/ cursor.call = Steps(Current) THEN NextTask(1)
         ELSE cursor' = [cursor EXCEPT !.call = @ + 1] /\ UNCHANGED pc
      /\ errors' = (errors \/ stops \/ o.result = "failed")
  BY <1>2, <1>4, <1>6, FundamentalFrame DEF Fundamental!Advance, Current
<1> HIDE DEF tool
<1>8. IF stops THEN Ends ELSE Moves(cursor.data)
  <2>1. NextTask(1) => Ends
    BY <1>1 DEF NextTask, Ends, First
  <2>2. cursor.call # Steps(Current) /\ cursor' = [cursor EXCEPT !.call = @ + 1] /\ UNCHANGED pc
        => Stays(cursor.data)
    <3> SUFFICES ASSUME cursor.call # Steps(Current), cursor' = [cursor EXCEPT !.call = @ + 1],
                        UNCHANGED pc
                 PROVE  Stays(cursor.data)
      OBVIOUS
    <3>1. cursor' = [task |-> cursor.task, call |-> cursor.call + 1, data |-> cursor.data]
      BY <1>1, TaskAtHand
    <3>2. cursor.call < Steps(Current)
      BY <1>1, TaskAtHand DEF First
    <3> QED
      BY <1>1, <3>1, <3>2 DEF Stays
  <2> QED
    BY <1>7, <2>1, <2>2 DEF Moves
<1>9. cursor.call > 0
  BY <1>1, TaskAtHand DEF First
<1> QED
  BY <1>1, <1>5, <1>7, <1>8, <1>9 DEF CallStep, NamedCall, Named, tool

LEMMA NextCall ==
  ASSUME Base, pc = "call", cursor.call # Steps(Current), cursor' = [cursor EXCEPT !.call = @ + 1],
         UNCHANGED <<pc, pending>>
  PROVE  Stays(cursor.data)
<1>1. cursor' = [task |-> cursor.task, call |-> cursor.call + 1, data |-> cursor.data]
  BY TaskAtHand
<1>2. cursor.call < Steps(Current)
  <2>1. cursor.call \in First..Steps(Current) /\ Steps(Current) \in Nat /\ First \in Nat
    BY TaskAtHand DEF First
  <2> QED
    BY <2>1
<1> QED
  BY <1>1, <1>2 DEF Stays

LEMMA EventEnds ==
  ASSUME Base, agent = "event", pc = "call", Event!EndTask
  PROVE  Ends
<1>1. NextTask(0) /\ pending' = IF cursor.task < Len(pending) THEN pending
                                ELSE Event!Without(pending, skipped')
  BY EventFrame DEF Event!EndTask
<1>2. pending \in Seq(seen) /\ cursor.task \in 1..Len(pending) /\ Len(pending) \in Nat
  BY TaskAtHand DEF Base, Typed
<1> DEFINE kept == Event!Without(pending, skipped')
<1>3. kept \in Seq(Range(pending)) /\ Range(kept) = Range(pending) \ skipped'
  <2>1. PICK gone : gone = skipped'
    OBVIOUS
  <2>2. /\ Event!Without(pending, gone) \in Seq(Range(pending) \ gone)
        /\ Range(Event!Without(pending, gone)) = Range(pending) \ gone
    BY <1>2, KeepsOthers
  <2>3. kept = Event!Without(pending, gone)
    BY <2>1
  <2> HIDE DEF kept
  <2>4. kept \in Seq(Range(pending) \ gone)
    BY <2>2, <2>3
  <2>5. kept \in Seq(Range(pending))
    BY <2>4
  <2> QED
    BY <2>1, <2>2, <2>3, <2>5
<1> HIDE DEF kept
<1>4. cursor' = Task(cursor.task + 1, 0) /\ pc' = IF cursor.task = Len(pending) THEN "review" ELSE "call"
  BY <1>1 DEF NextTask
<1>5. pending' = IF cursor.task = Len(pending) THEN kept ELSE pending
  <2>1. cursor.task < Len(pending) <=> cursor.task # Len(pending)
    BY <1>2
  <2> QED
    BY <1>1, <2>1 DEF kept
<1> QED
  BY <1>3, <1>4, <1>5 DEF Ends, First

LEMMA EventCalls ==
  ASSUME Base, agent = "event", Event!Call
  PROVE  CallStep
<1>1. pc = "call" /\ cursor.call > 0 /\ Calling /\ UNCHANGED <<exhausted, skipped>>
  BY DEF Event!Call, Event!fixed, Calling
<1>2. /\ Event!Planned(Current) = PlannedOf(Current)
      /\ Len(PlannedOf(Current)) = Steps(Current)
  <2> HIDE DEF Current
  <2> QED
    BY <1>1, TaskAtHand, PlannedCalls DEF Steps, Named
<1> DEFINE tool == PlannedOf(Current)[cursor.call]
<1>3. Event!Reusable = Reusable
  BY DEF Reusable
<1>4. PICK o \in Answers(tool, Current.stock, {}, Event!Results(tool), Reusable) :
        Ask(o, Reusable) /\ Event!Advance(o)
  BY <1>2, <1>3, EventFrame DEF Event!Call, Current
<1>5. Gets(o, tool, Current.stock, {})
  BY <1>4, AnswerGot
<1>6. o.tool = tool
  BY <1>5 DEF Gets, Asks
<1> DEFINE stops == tool = "identity" /\ o.result # "confirmed"
<1>7. /\ IF stops \/ cursor.call = Steps(Current) THEN Event!EndTask
         ELSE cursor' = [cursor EXCEPT !.call = @ + 1] /\ UNCHANGED <<pc, pending>>
      /\ errors' = (errors \/ stops)
  BY <1>2, <1>4, <1>6 DEF Event!Advance, Current
<1> HIDE DEF tool
<1>8. IF stops THEN Ends ELSE Moves(cursor.data)
  BY <1>1, <1>7, EventEnds, NextCall DEF Moves
<1> QED
  BY <1>1, <1>5, <1>7, <1>8 DEF CallStep, NamedCall, Named, tool

LEMMA EventTakes ==
  ASSUME Base, agent = "event", Event!Take
  PROVE  CallStep
<1>1. pc = "call" /\ cursor.call = 0 /\ Calling /\ UNCHANGED <<obs, count>>
  BY DEF Event!Take, Event!fixed, Calling
<1> DEFINE over == Cardinality(Event!Fresh(Current)) > Left
<1>2. /\ skipped' = IF over THEN skipped \cup {Current} ELSE skipped
      /\ exhausted' = (exhausted \/ over) /\ errors' = (errors \/ over)
      /\ IF over THEN Event!EndTask
         ELSE cursor' = [cursor EXCEPT !.call = 1] /\ UNCHANGED <<pc, pending>>
  <2>1. Event!Left = Left
    BY DEF Event!Left, Left
  <2> QED
    BY <2>1, EventFrame DEF Event!Take, Current
<1> HIDE DEF over
<1>3. IF over THEN Ends ELSE Stays(cursor.data)
  <2>1. CASE over
    BY <1>1, <1>2, <2>1, EventEnds
  <2>2. CASE ~ over
    <3>1. cursor' = [cursor EXCEPT !.call = @ + 1]
      BY <1>1, <1>2, <2>2
    <3>2. cursor.call # Steps(Current)
      BY <1>1, TaskAtHand
    <3> QED
      BY <1>1, <1>2, <2>2, <3>1, <3>2, NextCall
  <2> QED
    BY <2>1, <2>2
<1> QED
  BY <1>1, <1>2, <1>3 DEF CallStep, TakesTask, over

LEMMA SentimentCalls ==
  ASSUME Base, agent = "sentiment_flow", Sentiment!Call
  PROVE  CallStep
<1>1. pc = "call" /\ Calling /\ UNCHANGED <<pending, exhausted, skipped>>
  BY DEF Sentiment!Call, Sentiment!fixed, Calling
<1>2. Len(Current.checks) = Steps(Current)
  BY DEF Steps, Named
<1> DEFINE check == Current.checks[cursor.call]
<1>3. Sentiment!Reusable = Reusable
  BY DEF Reusable
<1>4. ASSUME NEW failed, Sentiment!Advance(failed)
      PROVE  Moves(cursor.data) /\ errors' = (errors \/ failed)
  <2>1. /\ IF cursor.call = Steps(Current) THEN NextTask(1)
           ELSE cursor' = [cursor EXCEPT !.call = @ + 1] /\ UNCHANGED pc
        /\ errors' = (errors \/ failed)
    BY <1>2, <1>4, SentimentFrame DEF Sentiment!Advance, Current
  <2>2. NextTask(1) => Ends
    BY <1>1 DEF NextTask, Ends, First
  <2> QED
    BY <1>1, <2>1, <2>2, NextCall DEF Moves
<1>5. \/ Sentiment!Refused(Current, check) /\ Sentiment!Advance(TRUE) /\ UNCHANGED <<obs, count>>
      \/ /\ ~ Sentiment!Refused(Current, check)
         /\ \E o \in Answers(check, Current.stock, {}, Sentiment!Results, Reusable) :
              Ask(o, Reusable) /\ Sentiment!Advance(o.result = "failed")
  BY <1>3, SentimentFrame DEF Sentiment!Call, Current
<1>6. CASE Sentiment!Refused(Current, check) /\ Sentiment!Advance(TRUE) /\ UNCHANGED <<obs, count>>
  <2>1. Moves(cursor.data) /\ errors' = TRUE
    BY <1>4, <1>6
  <2> QED
    BY <1>1, <1>6, <2>1 DEF CallStep, SentimentCall
<1>7. CASE /\ ~ Sentiment!Refused(Current, check)
           /\ \E o \in Answers(check, Current.stock, {}, Sentiment!Results, Reusable) :
                Ask(o, Reusable) /\ Sentiment!Advance(o.result = "failed")
  <2>1. PICK o \in Answers(check, Current.stock, {}, Sentiment!Results, Reusable) :
               Ask(o, Reusable) /\ Sentiment!Advance(o.result = "failed")
    BY <1>7
  <2>2. Gets(o, check, Current.stock, {})
    BY <2>1, AnswerGot
  <2>3. Moves(cursor.data) /\ errors' = (errors \/ o.result = "failed")
    BY <1>4, <2>1
  <2> HIDE DEF check
  <2> QED
    BY <1>1, <1>7, <2>2, <2>3 DEF CallStep, SentimentCall, check
<1> QED
  BY <1>5, <1>6, <1>7

LEMMA TechnicalCalls ==
  ASSUME Base, agent = "technical", Technical!Call
  PROVE  CallStep
<1>1. pc = "call" /\ Calling /\ UNCHANGED <<pending, exhausted, skipped>>
  BY DEF Technical!Call, Technical!fixed, Calling
<1>2. /\ Technical!Calls(Current) = Steps(Current)
      /\ Len(Contexts) \in Nat /\ Len(Contexts) < Steps(Current)
  <2>1. Technical!Calls(Current) = Steps(Current)
    BY DEF Steps, Named
  <2>2. /\ Technical!Calls(Current) = Len(Contexts) + Len(Current.checks)
        /\ Len(Contexts) \in Nat /\ Len(Current.checks) \in Nat \ {0}
    <3>1. Good(Current)
      BY <1>1, TaskAtHand
    <3> HIDE DEF Current
    <3> QED
      BY <3>1, CallsOfTask DEF Contexts
  <2> HIDE DEF Current, Contexts
  <2> QED
    BY <2>1, <2>2
<1>3. Technical!Reusable = Reusable
  BY DEF Reusable
<1>4. ASSUME NEW data, Technical!Advance(Current, data)
      PROVE  Moves(data) /\ errors' = errors
  <2>1. /\ IF cursor.call = Steps(Current) THEN NextTask(1)
           ELSE cursor' = [cursor EXCEPT !.call = @ + 1, !.data = data] /\ UNCHANGED pc
        /\ errors' = errors
    BY <1>2, <1>4, TechnicalFrame DEF Technical!Advance
  <2>2. NextTask(1) => Ends
    BY <1>1 DEF NextTask, Ends, First
  <2>3. cursor.call # Steps(Current) => cursor.call < Steps(Current)
    <3>1. cursor.call \in First..Steps(Current) /\ Steps(Current) \in Nat /\ First \in Nat
      BY <1>1, TaskAtHand DEF First
    <3> QED
      BY <3>1
  <2>4. cursor' = [cursor EXCEPT !.call = @ + 1, !.data = data] =>
          cursor' = [task |-> cursor.task, call |-> cursor.call + 1, data |-> data]
    BY <1>1, TaskAtHand
  <2> QED
    BY <1>1, <2>1, <2>2, <2>3, <2>4 DEF Moves, Stays
<1>5. CASE cursor.call <= Len(Contexts)
  <2>1. Technical!Fetch(Current)
    BY <1>5 DEF Technical!Call, Current, Contexts
  <2>2. PICK o \in Answers("context", Contexts[cursor.call], {}, Technical!Results("context"), Reusable) :
          /\ Ask(o, Reusable)
          /\ IF cursor.call = 1 /\ ~ Technical!Stored(o) THEN NextTask(1) /\ errors' = TRUE
             ELSE Technical!Advance(Current, Append(cursor.data, o))
    BY <1>3, <2>1, TechnicalFrame DEF Technical!Fetch, Contexts
  <2>3. Gets(o, "context", Contexts[cursor.call], {})
    BY <2>2, AnswerGot
  <2>4. cursor.call # Steps(Current)
    BY <1>1, <1>2, <1>5, TaskAtHand
  <2>5. NextTask(1) => Ends
    BY <1>1 DEF NextTask, Ends, First
  <2>6. IF cursor.call = 1 /\ o.result = "failed" THEN Ends /\ errors' = TRUE
        ELSE Stays(Append(cursor.data, o)) /\ errors' = errors
    BY <1>4, <2>2, <2>4, <2>5 DEF Technical!Stored, Moves
  <2> QED
    BY <1>1, <1>5, <2>3, <2>6 DEF CallStep, TechnicalFetch
<1>6. CASE ~ (cursor.call <= Len(Contexts))
  <2> DEFINE check == Current.checks[cursor.call - Len(Contexts)]
             uses  == IF check = "relative_strength" THEN Range(cursor.data) ELSE {cursor.data[1]}
  <2>1. Technical!Calculate(Current, check)
    BY <1>6 DEF Technical!Call, Current, Contexts
  <2>2. IF \A c \in uses : c.result # "failed"
        THEN \E o \in Answers(check, Current.stock, uses, Technical!Results(check), Reusable) :
               Ask(o, Reusable) /\ Technical!Advance(Current, cursor.data)
        ELSE Technical!Advance(Current, cursor.data) /\ UNCHANGED <<obs, count>>
    BY <1>3, <2>1, TechnicalFrame DEF Technical!Calculate, Technical!Stored
  <2>3. Moves(cursor.data) /\ errors' = errors
    BY <1>4, <2>2
  <2>4. cursor.call > Len(Contexts)
    BY <1>1, <1>2, <1>6, TaskAtHand
  <2> HIDE DEF check
  <2>5. CASE \A c \in uses : c.result # "failed"
    <3>1. PICK o \in Answers(check, Current.stock, uses, Technical!Results(check), Reusable) :
                 Ask(o, Reusable)
      BY <2>2, <2>5
    <3>2. Gets(o, check, Current.stock, uses)
      BY <3>1, AnswerGot
    <3> QED
      BY <1>1, <2>3, <2>4, <2>5, <3>2 DEF CallStep, TechnicalCalculation, check
  <2>6. CASE \E c \in uses : c.result = "failed"
    BY <1>1, <2>2, <2>3, <2>4, <2>6 DEF CallStep, TechnicalCalculation, check
  <2> QED
    BY <2>5, <2>6
<1> QED
  BY <1>5, <1>6

-----------------------------------------------------------------------------
(* The steps of a run.                                                     *)

\* What the tasks that a round starts with may cost.
Within ==
  /\ agent \in {"sentiment_flow", "technical"} => Fits(pending', Left)
  /\ agent = "fundamental" =>
       IsFiniteSet(CallsFor(pending')) /\ Cardinality(CallsFor(pending') \ Answered) <= Left

RoundStep == (\E gone : StartStep(gone)) /\ Within

LastStep ==
  \/ agent = "fundamental" /\ FinalStep(Fundamental!Proved(drafts), [d \in drafts |-> d])
  \/ agent = "event" /\ FinalStep(Event!Proved(drafts), [d \in drafts |-> d])
  \/ agent = "sentiment_flow" /\ FinalStep(Sentiment!Proved(drafts), [d \in drafts |-> d])
  \/ /\ agent = "technical"
     /\ FinalStep(Technical!Proved(drafts), [d \in drafts |-> Technical!Recorded(d)])

AgentStep ==
  SnapshotStep \/ PlanStep \/ RoundStep \/ CallStep \/ ReviewStep \/ LastStep \/ RaiseStep
  \/ UNCHANGED vars

LEMMA EventStarts ==
  ASSUME Base, agent = "event", Event!Execute
  PROVE  StartStep({})
<1>1. pending # <<>> /\ pending \in Seq(Range(pending)) /\ errors \in BOOLEAN /\ exhausted \in BOOLEAN
  BY PendingTasks DEF Event!Execute, Base, Staged, Typed
<1>2. /\ pc = "execute" /\ pc' = "call" /\ round' = round + 1 /\ cursor' = Task(1, 0)
      /\ UNCHANGED <<agent, mode, target, pending, seen, obs, count, exhausted, skipped, drafts,
                     errors, evidence, status>>
  BY DEF Event!Execute, Event!fixed, Event!Task, Task
<1>3. pending' # <<>> /\ pending' \in Seq(Range(pending)) /\ Range(pending) \subseteq Range(pending')
  BY <1>1, <1>2
<1> QED
  BY <1>1, <1>2, <1>3 DEF StartStep, First

LEMMA FundamentalSteps ==
  ASSUME Base, agent = "fundamental", Fundamental!Next
  PROVE  AgentStep
<1>1. CASE Fundamental!Snapshot \/ Fundamental!Analyze \/ Fundamental!Plan \/ Fundamental!Review
  BY <1>1, FundamentalNodes DEF Nodes, AgentStep
<1>2. CASE Fundamental!Execute
  BY <1>2, FundamentalStarts DEF RoundStep, Within, AgentStep
<1>3. CASE Fundamental!Call
  BY <1>3, FundamentalCalls DEF AgentStep
<1>4. CASE Fundamental!Finalize
  BY <1>4, FundamentalNodes DEF AgentStep, LastStep
<1>5. CASE Fundamental!Ended
  BY <1>5 DEF Fundamental!Ended, Fundamental!vars, vars, AgentStep
<1> QED
  BY <1>1, <1>2, <1>3, <1>4, <1>5 DEF Fundamental!Next

LEMMA EventSteps ==
  ASSUME Base, agent = "event", Event!Next
  PROVE  AgentStep
<1>1. CASE Event!Snapshot \/ Event!Analyze \/ Event!Plan \/ Event!Review
  BY <1>1, EventNodes DEF Nodes, AgentStep
<1>2. CASE Event!Execute
  BY <1>2, EventStarts DEF RoundStep, Within, AgentStep
<1>3. CASE Event!Take \/ Event!Call
  BY <1>3, EventTakes, EventCalls DEF AgentStep
<1>4. CASE Event!Finalize
  BY <1>4, EventNodes DEF AgentStep, LastStep
<1>5. CASE Event!Ended
  BY <1>5 DEF Event!Ended, Event!vars, vars, AgentStep
<1> QED
  BY <1>1, <1>2, <1>3, <1>4, <1>5 DEF Event!Next

LEMMA SentimentSteps ==
  ASSUME Base, agent = "sentiment_flow", Sentiment!Next
  PROVE  AgentStep
<1>1. CASE Sentiment!Snapshot \/ Sentiment!Analyze \/ Sentiment!Plan \/ Sentiment!Review
  BY <1>1, SentimentNodes DEF Nodes, AgentStep
<1>2. CASE Sentiment!Execute
  BY <1>2, SentimentStarts DEF RoundStep, Within, AgentStep
<1>3. CASE Sentiment!Call
  BY <1>3, SentimentCalls DEF AgentStep
<1>4. CASE Sentiment!Finalize
  BY <1>4, SentimentNodes DEF AgentStep, LastStep
<1>5. CASE Sentiment!Ended
  BY <1>5 DEF Sentiment!Ended, Sentiment!vars, vars, AgentStep
<1> QED
  BY <1>1, <1>2, <1>3, <1>4, <1>5 DEF Sentiment!Next

LEMMA TechnicalSteps ==
  ASSUME Base, agent = "technical", Technical!Next
  PROVE  AgentStep
<1>1. CASE Technical!Snapshot \/ Technical!Analyze \/ Technical!Plan \/ Technical!Review
  BY <1>1, TechnicalNodes DEF Nodes, AgentStep
<1>2. CASE Technical!Execute
  BY <1>2, TechnicalStarts DEF RoundStep, Within, AgentStep
<1>3. CASE Technical!Call
  BY <1>3, TechnicalCalls DEF AgentStep
<1>4. CASE Technical!Finalize
  BY <1>4, TechnicalNodes DEF AgentStep, LastStep
<1>5. CASE Technical!Overlong
  BY <1>5 DEF Technical!Overlong, Technical!fixed, RaiseStep, Raising, AgentStep
<1>6. CASE Technical!Ended
  BY <1>6 DEF Technical!Ended, Technical!vars, vars, AgentStep
<1> QED
  BY <1>1, <1>2, <1>3, <1>4, <1>5, <1>6 DEF Technical!Next

LEMMA EveryStep ==
  ASSUME Base, [Next]_vars
  PROVE  AgentStep
BY FundamentalSteps, EventSteps, SentimentSteps, TechnicalSteps DEF Next, AgentStep

-----------------------------------------------------------------------------
(* Types and stages are kept.                                              *)

LEMMA Starting ==
  ASSUME Init
  PROVE  /\ agent \in Agents /\ mode \in {"DAILY", "VERIFICATION"}
         /\ pc = IF mode = "DAILY" THEN "snapshot" ELSE "plan"
         /\ pending = <<>> /\ seen = {} /\ obs = {} /\ cursor = Task(1, 1)
         /\ round = 0 /\ count = 0 /\ exhausted = FALSE /\ skipped = {}
         /\ drafts = {} /\ errors = FALSE /\ evidence = {} /\ status = "none"
BY DEF Init, Fundamental!Init, Fundamental!Prepared, Fundamental!Task, Event!Init, Event!Prepared,
       Event!Task, Sentiment!Init, Sentiment!Prepared, Sentiment!Task, Technical!Init,
       Technical!Prepared, Technical!Task, Task, Agents

LEMMA BaseInit ==
  ASSUME Init
  PROVE  Base
<1>1. Typed
  <2>1. cursor \in [task : Nat, call : Nat, data : Seq(obs)]
    <3>1. cursor = [task |-> 1, call |-> 1, data |-> <<>>]
      BY Starting DEF Task
    <3>2. <<>> \in Seq(obs)
      OBVIOUS
    <3> QED
      BY <3>1, <3>2
  <2>2. IsFiniteSet(obs) /\ GoodDrafts(drafts)
    BY Starting, FS_EmptySet DEF GoodDrafts
  <2>3. pending \in Seq(seen)
    BY Starting
  <2> QED
    BY <2>1, <2>2, <2>3, Starting DEF Typed
<1>2. Staged
  BY Starting DEF Staged
<1> QED
  BY <1>1, <1>2 DEF Base

\* Drafts stay good when there are more answers.
LEMMA DraftsStayGood ==
  ASSUME NEW ds, GoodDrafts(ds), obs \subseteq obs', UNCHANGED agent
  PROVE  \A d \in ds : GoodDraft(d)'
BY DEF GoodDrafts, GoodDraft, Abouts, Event!Rows, Event!SnapshotRows, Event!QueryRows

\* Types of a run whose agent, mode and target stay.
LEMMA TypesStay ==
  ASSUME Base, UNCHANGED <<agent, mode, target>>,
         pc' \in {"snapshot", "analyze", "plan", "execute", "call", "review", "finalize", "done",
                 "raised"},
         pending' \in Seq(seen'), \A r \in seen' : Good(r),
         IsFiniteSet(obs'), \A o \in obs' : o.round \in 0..round',
         cursor' \in [task : Nat, call : Nat, data : Seq(obs')],
         round' \in Nat, count' \in Nat, exhausted' \in BOOLEAN, errors' \in BOOLEAN,
         \A d \in drafts' : GoodDraft(d)'
  PROVE  Typed'
<1>1. \A r : Good(r)' <=> Good(r)
  BY DEF Good
<1> QED
  BY <1>1 DEF Typed, Base, GoodDrafts

LEMMA TasksAreTyped ==
  ASSUME NEW tasks, GoodTasks(tasks), NEW S, Range(tasks) \subseteq S
  PROVE  tasks \in Seq(S)
BY DEF GoodTasks

\* What a step through a round makes of the answers and the place in it.
Walk ==
  /\ \/ UNCHANGED <<obs, count>>
     \/ \E o : /\ o.round = round /\ o.position = cursor.task
               /\ obs' = obs \cup {o} /\ count' = count + 1
  /\ exhausted' \in BOOLEAN /\ errors' \in BOOLEAN
  /\ Ends \/ \E data \in Seq(obs') : Stays(data)

LEMMA Walks ==
  ASSUME Base, CallStep
  PROVE  Calling /\ Walk
<1>2. exhausted \in BOOLEAN /\ errors \in BOOLEAN /\ cursor.data \in Seq(obs)
  BY DEF Base, Typed
<1>3. ASSUME NEW o, NEW tool, NEW stock, NEW uses, Gets(o, tool, stock, uses)
      PROVE  /\ \/ UNCHANGED <<obs, count>>
                \/ \E p : /\ p.round = round /\ p.position = cursor.task
                          /\ obs' = obs \cup {p} /\ count' = count + 1
             /\ o \in obs' /\ obs \subseteq obs'
  BY <1>3 DEF Gets
<1>4. obs \subseteq obs' => cursor.data \in Seq(obs')
  BY <1>2
<1>5. CASE TakesTask
  <2>1. exhausted' \in BOOLEAN /\ errors' \in BOOLEAN
    BY <1>2, <1>5 DEF TakesTask
  <2>2. obs' = obs
    BY <1>5 DEF TakesTask
  <2>3. Ends \/ Stays(cursor.data)
    BY <1>5 DEF TakesTask
  <2> QED
    BY <1>2, <1>5, <2>1, <2>2, <2>3 DEF TakesTask, Walk, CallStep
<1>6. ASSUME NEW o, NamedCall(o)
      PROVE  Walk
  <2>1. Gets(o, PlannedOf(Current)[cursor.call], Current.stock, {})
    BY <1>6 DEF NamedCall
  <2>2. Ends \/ Stays(cursor.data)
    BY <1>6 DEF NamedCall, Moves
  <2>3. exhausted' \in BOOLEAN /\ errors' \in BOOLEAN
    BY <1>2, <1>6 DEF NamedCall
  <2> QED
    BY <1>3, <1>4, <2>1, <2>2, <2>3 DEF Walk
<1>7. ASSUME NEW o, SentimentCall(o)
      PROVE  Walk
  <2>1. UNCHANGED <<obs, count>> \/ Gets(o, Current.checks[cursor.call], Current.stock, {})
    BY <1>7 DEF SentimentCall
  <2>2. Ends \/ Stays(cursor.data)
    BY <1>7 DEF SentimentCall, Moves
  <2>3. exhausted' \in BOOLEAN /\ errors' \in BOOLEAN
    BY <1>2, <1>7 DEF SentimentCall
  <2> QED
    BY <1>2, <1>3, <1>4, <2>1, <2>2, <2>3 DEF Walk
<1>8. ASSUME NEW o, TechnicalFetch(o)
      PROVE  Walk
  <2>1. Gets(o, "context", Contexts[cursor.call], {})
    BY <1>8 DEF TechnicalFetch
  <2>2. Ends \/ Stays(Append(cursor.data, o))
    BY <1>8 DEF TechnicalFetch
  <2>3. exhausted' \in BOOLEAN /\ errors' \in BOOLEAN
    BY <1>2, <1>8 DEF TechnicalFetch
  <2>4. o \in obs' /\ cursor.data \in Seq(obs')
    BY <1>3, <1>4, <2>1
  <2>5. Append(cursor.data, o) \in Seq(obs')
    BY <2>4
  <2> QED
    BY <1>3, <2>1, <2>2, <2>3, <2>5 DEF Walk
<1>9. ASSUME NEW o, TechnicalCalculation(o)
      PROVE  Walk
  <2>1. UNCHANGED <<obs, count>> \/ \E tool, stock, uses : Gets(o, tool, stock, uses)
    BY <1>9 DEF TechnicalCalculation
  <2>2. Ends \/ Stays(cursor.data)
    BY <1>9 DEF TechnicalCalculation, Moves
  <2>3. exhausted' \in BOOLEAN /\ errors' \in BOOLEAN
    BY <1>2, <1>9 DEF TechnicalCalculation
  <2> QED
    BY <1>2, <1>3, <1>4, <2>1, <2>2, <2>3 DEF Walk
<1> QED
  BY <1>5, <1>6, <1>7, <1>8, <1>9 DEF CallStep

LEMMA BaseNext ==
  ASSUME Base, AgentStep
  PROVE  Base'
<1> USE DEF Base
<1>1. Typed /\ Staged
  OBVIOUS
<1>2. CASE SnapshotStep
  <2>1. /\ pending' = <<>> /\ seen' = {} /\ drafts' = {} /\ round' = 0 /\ skipped' = {}
        /\ mode' = "DAILY" /\ evidence' = {} /\ status' = "none"
    BY <1>1, <1>2 DEF Staged, SnapshotStep
  <2>2. /\ \A o \in obs' : o.round \in 0..round'
        /\ cursor' \in [task : Nat, call : Nat, data : Seq(obs')]
    <3>1. obs = {} /\ cursor' = cursor /\ cursor \in [task : Nat, call : Nat, data : Seq(obs)]
      BY <1>1, <1>2 DEF Typed, Staged, SnapshotStep
    <3>2. cursor' \in [task : Nat, call : Nat, data : Seq(obs')]
      BY <3>1
    <3> QED
      BY <1>2, <2>1, <3>2 DEF SnapshotStep
  <2>3. Typed'
    <3>1. pending' \in Seq(seen') /\ (\A r \in seen' : Good(r)) /\ \A d \in drafts' : GoodDraft(d)'
      BY <2>1
    <3> QED
      BY <1>2, <2>1, <2>2, <3>1, TypesStay DEF SnapshotStep
  <2>4. Staged'
    BY <1>2, <2>1 DEF Staged, SnapshotStep
  <2> QED
    BY <2>3, <2>4
<1>3. CASE PlanStep
  <2>1. GoodTasks(pending') /\ seen' = Range(pending')
    BY <1>3 DEF PlanStep
  <2>2. pending' \in Seq(seen') /\ \A r \in seen' : Good(r)
    BY <2>1 DEF GoodTasks
  <2>3. \A d \in drafts' : GoodDraft(d)'
    BY <1>3, DraftsStayGood DEF PlanStep
  <2>4. Typed'
    BY <1>1, <1>3, <2>2, <2>3, TypesStay DEF PlanStep, Typed
  <2>5. Staged'
    BY <1>1, <1>3 DEF Staged, PlanStep
  <2> QED
    BY <2>4, <2>5
<1>4. CASE RoundStep
  <2>1. PICK gone : StartStep(gone)
    BY <1>4 DEF RoundStep
  <2>2. pending' \in Seq(seen') /\ \A r \in seen' : Good(r)
    BY <1>1, <2>1, PendingTasks DEF StartStep, Typed
  <2>3. \A d \in drafts' : GoodDraft(d)'
    BY <1>1, <2>1, DraftsStayGood DEF StartStep, Typed
  <2>4. /\ \A o \in obs' : o.round \in 0..round'
        /\ cursor' \in [task : Nat, call : Nat, data : Seq(obs')]
        /\ round' \in Nat
    <3>1. (\A o \in obs : o.round \in 0..round) /\ round \in Nat
      BY <1>1 DEF Typed
    <3>2. round' = round + 1 /\ obs' = obs /\ cursor' = [task |-> 1, call |-> First, data |-> <<>>]
      BY <2>1 DEF StartStep, Task
    <3>3. \A o \in obs : o.round \in 0..round + 1
      BY <3>1
    <3>4. <<>> \in Seq(obs') /\ First \in Nat
      BY DEF First
    <3> QED
      BY <3>1, <3>2, <3>3, <3>4
  <2>5. exhausted' \in BOOLEAN /\ errors' \in BOOLEAN
    BY <1>1, <2>1 DEF StartStep, Typed
  <2>6. Typed'
    BY <1>1, <2>1, <2>2, <2>3, <2>4, <2>5, TypesStay DEF StartStep, Typed
  <2>7. ASSUME pc' = "call"
        PROVE  (cursor.task \in 1..Len(pending) /\ cursor.call \in First..Steps(pending[cursor.task]))'
    <3>1. pending' # <<>> /\ cursor' = Task(1, First) /\ First' = First
      BY <2>1, <2>7 DEF StartStep, First
    <3>2. 1 \in 1..Len(pending') /\ pending'[1] \in seen'
      BY <2>2, <3>1
    <3>3. PICK r : r = pending'[1]
      OBVIOUS
    <3>4. Good(r)
      BY <2>2, <3>2, <3>3
    <3>5. Steps(r)' = Steps(r) /\ Steps(r) \in Nat \ {0}
      <4>1. Steps(r)' = Steps(r)
        BY <2>1 DEF StartStep, Steps, Named
      <4> QED
        BY <3>4, <4>1, CallsOfTask DEF Steps
    <3>6. cursor'.task = 1 /\ cursor'.call = First
      BY <3>1 DEF Task
    <3>7. Steps(pending[cursor.task])' = Steps(r)'
      BY <3>3, <3>6 DEF Steps
    <3> QED
      BY <3>1, <3>2, <3>5, <3>6, <3>7 DEF First
  <2>8. Staged'
    BY <1>1, <2>1, <2>7 DEF Staged, StartStep
  <2> QED
    BY <2>6, <2>8
<1>5. CASE ReviewStep
  <2>1. GoodTasks(pending') /\ seen' = seen \cup Range(pending')
    BY <1>5 DEF ReviewStep
  <2>2. pending' \in Seq(seen') /\ \A r \in seen' : Good(r)
    <3>1. pending' \in Seq(seen')
      BY <2>1, TasksAreTyped
    <3> QED
      BY <1>1, <2>1, <3>1 DEF GoodTasks, Typed
  <2>3. \A d \in drafts' : GoodDraft(d)'
    BY <1>5, DraftsStayGood DEF ReviewStep
  <2>4. Typed'
    BY <1>1, <1>5, <2>2, <2>3, TypesStay DEF ReviewStep, Typed
  <2>5. Staged'
    BY <1>1, <1>5 DEF Staged, ReviewStep
  <2> QED
    BY <2>4, <2>5
<1>6. CASE LastStep
  <2>1. PICK proved, recorded : FinalStep(proved, recorded)
    BY <1>6 DEF LastStep
  <2>2. \A d \in drafts' : GoodDraft(d)'
    BY <1>1, <2>1, DraftsStayGood DEF FinalStep, Typed
  <2>3. Typed'
    BY <1>1, <2>1, <2>2, TypesStay DEF FinalStep, Typed
  <2>4. Staged'
    BY <1>1, <2>1 DEF Staged, FinalStep
  <2> QED
    BY <2>3, <2>4
<1>7. CASE CallStep
  <2>1. Calling /\ Walk
    BY <1>7, Walks
  <2>2. pc = "call" /\ UNCHANGED <<agent, mode, target, seen, round, drafts, evidence, status>>
    BY <2>1 DEF Calling
  <2>3. IsFiniteSet(obs') /\ obs \subseteq obs' /\ (\A o \in obs' : o.round \in 0..round') /\ count' \in Nat
    <3>1. IsFiniteSet(obs) /\ (\A o \in obs : o.round \in 0..round) /\ count \in Nat /\ round \in Nat
      BY <1>1 DEF Typed
    <3> QED
      BY <2>1, <2>2, <3>1, FS_AddElement DEF Walk
  <2>4. pending' \in Seq(seen') /\ \A r \in seen' : Good(r)
    <3>1. pending \in Seq(seen) /\ pending \in Seq(Range(pending)) /\ Range(pending) \subseteq seen
      BY <1>1, PendingTasks DEF Typed
    <3>2. pending' = pending \/ pending' \in Seq(Range(pending))
      BY <2>1 DEF Walk, Ends, Stays
    <3>3. pending' \in Seq(seen)
      BY <3>1, <3>2
    <3> QED
      BY <1>1, <2>2, <3>3 DEF Typed
  <2>5. cursor' \in [task : Nat, call : Nat, data : Seq(obs')]
    <3>1. cursor.task \in Nat /\ cursor.call \in Nat
      BY <1>1 DEF Typed
    <3>2. CASE Ends
      <4>1. <<>> \in Seq(obs') /\ First \in Nat
        BY DEF First
      <4> QED
        BY <3>1, <3>2, <4>1 DEF Ends, Task
    <3>3. CASE \E data \in Seq(obs') : Stays(data)
      BY <3>1, <3>3 DEF Stays
    <3> QED
      BY <2>1, <3>2, <3>3 DEF Walk
  <2>6. pc' \in {"call", "review"}
    BY <2>1 DEF Walk, Ends, Stays
  <2>7. exhausted' \in BOOLEAN /\ errors' \in BOOLEAN
    BY <2>1 DEF Walk
  <2>8. \A d \in drafts' : GoodDraft(d)'
    BY <1>1, <2>2, <2>3, DraftsStayGood DEF Typed
  <2>9. Typed'
    BY <1>1, <2>2, <2>3, <2>4, <2>5, <2>6, <2>7, <2>8, TypesStay DEF Typed
  <2>10. ASSUME pc' = "call"
         PROVE  (cursor.task \in 1..Len(pending) /\ cursor.call \in First..Steps(pending[cursor.task]))'
    <3>1. /\ cursor.task \in 1..Len(pending) /\ Len(pending) \in Nat
          /\ cursor.call \in First..Steps(Current) /\ First \in Nat /\ First' = First
          /\ Steps(Current) \in Nat
      BY <2>2, TaskAtHand DEF First
    <3>2. pending' = pending /\ cursor'.task \in 1..Len(pending)
      <4>1. CASE Ends
        <5>1. cursor.task # Len(pending) /\ cursor'.task = cursor.task + 1
          BY <2>10, <4>1 DEF Ends, Task
        <5> QED
          BY <3>1, <4>1, <5>1 DEF Ends
      <4>2. CASE \E data \in Seq(obs') : Stays(data)
        BY <3>1, <4>2 DEF Stays
      <4> QED
        BY <2>1, <4>1, <4>2 DEF Walk
    <3>3. PICK r : r = pending'[cursor'.task]
      OBVIOUS
    <3>4. Good(r)
      BY <3>2, <3>3, PendingTasks
    <3>5. Steps(r)' = Steps(r) /\ Steps(r) \in Nat \ {0}
      <4>1. Steps(r)' = Steps(r)
        BY <2>2 DEF Steps, Named
      <4> QED
        BY <3>4, <4>1, CallsOfTask DEF Steps
    <3>6. cursor'.call \in First..Steps(r)
      <4>1. CASE Ends
        <5>1. cursor'.call = First
          BY <4>1 DEF Ends, Task
        <5> QED
          BY <3>1, <3>5, <5>1 DEF First
      <4>2. CASE \E data \in Seq(obs') : Stays(data)
        <5>1. cursor'.call = cursor.call + 1 /\ cursor'.task = cursor.task /\ cursor.call < Steps(Current)
          BY <4>2 DEF Stays
        <5>2. r = Current
          BY <3>2, <3>3, <5>1 DEF Current
        <5> HIDE DEF Current
        <5> QED
          BY <3>1, <5>1, <5>2
      <4> QED
        BY <2>1, <4>1, <4>2 DEF Walk
    <3>7. Steps(pending[cursor.task])' = Steps(r)'
      BY <3>3 DEF Steps
    <3> QED
      BY <3>1, <3>2, <3>5, <3>6, <3>7
  <2>11. Staged'
    BY <1>1, <2>2, <2>6, <2>10 DEF Staged
  <2> QED
    BY <2>9, <2>11
<1>8. CASE UNCHANGED vars
  <2>1. Typed'
    BY <1>1, <1>8 DEF Typed, vars, Good, GoodDrafts, GoodDraft, Abouts
  <2>2. Staged'
    BY <1>1, <1>8 DEF Staged, vars, Steps, First
  <2> QED
    BY <2>1, <2>2
<1>9. CASE RaiseStep
  <2>1. \A d \in drafts' : GoodDraft(d)'
    BY <1>1, <1>9, DraftsStayGood DEF RaiseStep, Typed
  <2>2. Typed'
    BY <1>1, <1>9, <2>1, TypesStay DEF RaiseStep, Typed
  <2>3. Staged'
    BY <1>1, <1>9 DEF Staged, RaiseStep, Raising
  <2> QED
    BY <2>2, <2>3
<1> QED
  BY <1>2, <1>3, <1>4, <1>5, <1>6, <1>7, <1>8, <1>9 DEF AgentStep

-----------------------------------------------------------------------------
(* What answers are about, and how far a task has come.                    *)

Asked(tool, stock) == \E o \in obs : o.tool = tool /\ o.stock = stock

Confirmed(stock) ==
  \E o \in obs : o.tool = "identity" /\ o.stock = stock /\ o.result = "confirmed"

\* The requests whose instruments an answer may be about.
Wanted(stock) == \E r \in seen : stock \in {r.stock, r.bench}

SoundAnswer(o) ==
  /\ o.tool = "snapshot" => mode = "DAILY" /\ o.result \in SnapshotResults
  /\ agent # "technical" \/ o.tool = "context" => o.uses = {}
  /\ agent \in Named /\ o.tool \notin {"snapshot", "identity"} => Confirmed(o.stock)
  /\ mode = "VERIFICATION" =>
       IF agent # "technical" THEN o.stock = target
       ELSE (o.tool = "context" => Wanted(o.stock)) /\ \A c \in o.uses : Wanted(c.stock)

\* The task r after its first k calls.
NamedSofar(r, k) ==
  /\ \A i \in 1..k : Asked(PlannedOf(r)[i], r.stock)
  /\ k > 0 => Confirmed(r.stock)

SentimentSofar(r, k) ==
  \A i \in 1..k : Sentiment!Refused(r, r.checks[i]) \/ Asked(r.checks[i], r.stock)

Calculated(check, data) ==
  IF check = "relative_strength"
  THEN \/ \E c \in Range(data) : c.result = "failed"
       \/ \E o \in obs : o.tool = check /\ o.uses = Range(data)
  ELSE \E o \in obs : o.tool = check /\ o.uses = {data[1]}

TechnicalSofar(r, k, data) ==
  LET n == Len(Technical!Contexts(r))
  IN /\ data \in Seq(obs) /\ Len(data) = IF k <= n THEN k ELSE n
     /\ \A j \in 1..Len(data) : data[j].tool = "context" /\ data[j].stock = Technical!Contexts(r)[j]
     /\ k > 0 => data[1].result # "failed"
     /\ \A i \in n + 1..k : Calculated(r.checks[i - n], data)

Sofar(r, k, data) ==
  /\ agent \in Named => NamedSofar(r, k)
  /\ agent = "sentiment_flow" => SentimentSofar(r, k)
  /\ agent = "technical" => TechnicalSofar(r, k, data)

Ground ==
  /\ \A o \in obs : SoundAnswer(o)
  /\ pc = "call" => Sofar(Current, cursor.call - 1, cursor.data)

\* What a call contributes to the task r, of which it is the k-th.
Contributes(r, k) ==
  /\ \A o \in obs' : SoundAnswer(o)'
  /\ \A data : Stays(data) => Sofar(r, k, data)'
  /\ Ends => Researched(r)' \/ r \in skipped'

LEMMA Remembers ==
  ASSUME obs \subseteq obs', UNCHANGED <<agent, mode, target, seen>>
  PROVE  /\ \A o : SoundAnswer(o) => SoundAnswer(o)'
         /\ \A tool, stock : Asked(tool, stock) => Asked(tool, stock)'
         /\ \A stock : Confirmed(stock) => Confirmed(stock)'
         /\ \A check, data : Calculated(check, data) => Calculated(check, data)'
<1>1. \A tool, stock : Asked(tool, stock) => Asked(tool, stock)'
  BY DEF Asked
<1>2. \A stock : Confirmed(stock) => Confirmed(stock)'
  BY DEF Confirmed
<1>3. \A check, data : Calculated(check, data) => Calculated(check, data)'
  BY DEF Calculated
<1>4. \A o : SoundAnswer(o) => SoundAnswer(o)'
  <2> HIDE DEF Confirmed
  <2> QED
    BY <1>2 DEF SoundAnswer, Wanted
<1> QED
  BY <1>1, <1>2, <1>3, <1>4

LEMMA Grows ==
  ASSUME NEW o, NEW tool, NEW stock, NEW uses, Gets(o, tool, stock, uses), Calling
  PROVE  /\ obs \subseteq obs' /\ o \in obs' /\ o.tool = tool /\ o.stock = stock /\ o.uses = uses
         /\ \A p \in obs' : p \in obs \/ p = o
         /\ UNCHANGED <<agent, mode, target, seen>>
BY DEF Gets, Asks, Calling

LEMMA NamedResearched ==
  ASSUME NEW r, Good(r), agent \in Named, UNCHANGED agent,
         \/ \A i \in 1..Len(PlannedOf(r)) : Asked(PlannedOf(r)[i], r.stock)'
         \/ \E o \in obs' : o.tool = "identity" /\ o.stock = r.stock /\ o.result # "confirmed"
  PROVE  Researched(r)'
<1>1. /\ Fundamental!Planned(r) = PlannedOf(r) /\ Event!Planned(r) = PlannedOf(r)
      /\ PlannedOf(r) \in Seq(Range(PlannedOf(r)))
  BY PlannedCalls
<1>2. /\ Fundamental!Range(PlannedOf(r)) = Range(PlannedOf(r))
      /\ Event!Range(PlannedOf(r)) = Range(PlannedOf(r))
  BY FundamentalFrame, EventFrame
<1>3. \A t \in Range(PlannedOf(r)) : \E i \in 1..Len(PlannedOf(r)) : t = PlannedOf(r)[i]
  BY <1>1, Ranged
<1>4. (\A i \in 1..Len(PlannedOf(r)) : Asked(PlannedOf(r)[i], r.stock)') =>
        \A t \in Range(PlannedOf(r)) : \E o \in obs' : o.tool = t /\ o.stock = r.stock
  BY <1>3 DEF Asked
<1>5. CASE agent = "fundamental"
  BY <1>1, <1>2, <1>4, <1>5 DEF Researched, Fundamental!Researched
<1>6. CASE agent = "event"
  BY <1>1, <1>2, <1>4, <1>6 DEF Researched, Event!Researched
<1> QED
  BY <1>5, <1>6 DEF Named

LEMMA NamedContributes ==
  ASSUME Base, Ground, Calling, NEW o, NamedCall(o), NEW r, r = Current, NEW k, k = cursor.call
  PROVE  Contributes(r, k)
<1> DEFINE tool  == PlannedOf(r)[k]
           stops == tool = "identity" /\ o.result # "confirmed"
<1>1. /\ agent \in Named /\ k > 0 /\ Gets(o, tool, r.stock, {})
      /\ IF stops THEN Ends ELSE Moves(cursor.data)
  BY DEF NamedCall
<1>2. /\ obs \subseteq obs' /\ o \in obs' /\ o.tool = tool /\ o.stock = r.stock /\ o.uses = {}
      /\ \A p \in obs' : p \in obs \/ p = o
      /\ UNCHANGED <<agent, mode, target, seen>>
  <2> HIDE DEF tool
  <2> QED
    BY <1>1, Grows
<1>3. /\ Good(r) /\ r \in seen /\ k \in 1..Steps(r) /\ k \in Nat /\ Steps(r) = Len(PlannedOf(r))
      /\ Steps(r) \in Nat
  <2>1. /\ Good(r) /\ r \in seen /\ cursor.call \in First..Steps(r) /\ cursor.call \in Nat
        /\ Steps(r) \in Nat
    BY TaskAtHand DEF Calling
  <2>2. Steps(r) = Len(PlannedOf(r))
    BY <1>1, <2>1, PlannedCalls DEF Steps
  <2> QED
    BY <1>1, <2>1, <2>2 DEF First
<1>4. NamedSofar(r, k - 1) /\ \A p \in obs : SoundAnswer(p)
  BY <1>1 DEF Ground, Sofar, Calling
<1>5. /\ tool # "snapshot" /\ (k = 1 => tool = "identity")
      /\ (k # 1 => tool \notin {"snapshot", "identity", "context"})
  <2>1. k = 1 \/ k \in 2..Len(PlannedOf(r))
    BY <1>3
  <2>2. PlannedOf(r)[1] = "identity"
    BY <1>3, PlannedCalls
  <2>3. \A i \in 2..Len(PlannedOf(r)) : PlannedOf(r)[i] \notin {"snapshot", "identity", "context"}
    BY <1>3, PlannedCalls
  <2> QED
    BY <1>3, <2>1, <2>2, <2>3
<1> HIDE DEF tool
<1>6. k # 1 => Confirmed(r.stock)'
  <2>1. k # 1 => Confirmed(r.stock)
    BY <1>3, <1>4 DEF NamedSofar
  <2> QED
    BY <1>2, <2>1, Remembers
<1>7. SoundAnswer(o)'
  <2>1. agent # "technical"
    BY <1>1 DEF Named
  <2>2. mode = "VERIFICATION" => r.stock = target
    BY <1>3, <2>1 DEF Good
  <2>3. o.tool \notin {"snapshot", "identity"} => Confirmed(o.stock)'
    BY <1>2, <1>5, <1>6
  <2> QED
    BY <1>2, <1>5, <2>1, <2>2, <2>3 DEF SoundAnswer
<1>8. \A p \in obs' : SoundAnswer(p)'
  BY <1>2, <1>4, <1>7, Remembers
<1>9. \A i \in 1..k : Asked(PlannedOf(r)[i], r.stock)'
  <2>1. \A i \in 1..k - 1 : Asked(PlannedOf(r)[i], r.stock)'
    BY <1>2, <1>4, Remembers DEF NamedSofar
  <2>2. Asked(PlannedOf(r)[k], r.stock)'
    BY <1>2 DEF Asked, tool
  <2>3. \A i \in 1..k : i \in 1..k - 1 \/ i = k
    BY <1>3
  <2> QED
    BY <2>1, <2>2, <2>3
<1>10. ASSUME NEW data, Stays(data) PROVE Sofar(r, k, data)'
  <2>1. ~ stops
    <3>1. ~ Ends
      BY <1>3, <1>10 DEF Ends, Stays, Task, Calling, First
    <3> QED
      BY <1>1, <3>1
  <2>2. Confirmed(r.stock)'
    BY <1>2, <1>5, <1>6, <2>1 DEF Confirmed
  <2>3. NamedSofar(r, k)'
    BY <1>9, <2>2 DEF NamedSofar
  <2> QED
    BY <1>1, <1>2, <2>3 DEF Sofar, Named
<1>11. ASSUME Ends PROVE Researched(r)'
  <2>1. CASE stops
    BY <1>1, <1>2, <1>3, <2>1, NamedResearched
  <2>2. CASE ~ stops
    <3>1. k = Steps(r)
      <4>1. ~ Stays(cursor.data)
        BY <1>3, <1>11 DEF Ends, Stays, Task, Calling, First
      <4> QED
        BY <1>1, <2>2, <4>1 DEF Moves
    <3> QED
      BY <1>1, <1>2, <1>3, <1>9, <3>1, NamedResearched
  <2> QED
    BY <2>1, <2>2
<1> QED
  BY <1>8, <1>10, <1>11 DEF Contributes

LEMMA ChecksOf ==
  ASSUME NEW r, Good(r)
  PROVE  /\ \A i \in 1..Len(r.checks) :
              r.checks[i] \in Range(r.checks)
              /\ r.checks[i] \notin {"snapshot", "identity", "context"}
         /\ \A check \in Range(r.checks) : \E i \in 1..Len(r.checks) : check = r.checks[i]
<1>1. /\ \A i \in 1..Len(r.checks) : r.checks[i] \in Range(r.checks)
      /\ \A check \in Range(r.checks) : \E i \in 1..Len(r.checks) : check = r.checks[i]
  BY Ranged DEF Good
<1>2. \A check \in Range(r.checks) : check \notin {"snapshot", "identity", "context"}
  BY DEF Good
<1> QED
  BY <1>1, <1>2

LEMMA SentimentContributes ==
  ASSUME Base, Ground, Calling, NEW o, SentimentCall(o), NEW r, r = Current, NEW k, k = cursor.call
  PROVE  Contributes(r, k)
<1> DEFINE check == r.checks[k]
<1>1. /\ agent = "sentiment_flow" /\ Moves(cursor.data)
      /\ \/ Sentiment!Refused(r, check) /\ obs' = obs
         \/ Gets(o, check, r.stock, {})
  BY DEF SentimentCall
<1>2. /\ Good(r) /\ r \in seen /\ k \in 1..Steps(r) /\ k \in Nat /\ Steps(r) = Len(r.checks)
      /\ Steps(r) \in Nat
  BY <1>1, TaskAtHand DEF Calling, Steps, Named, First
<1>3. SentimentSofar(r, k - 1) /\ \A p \in obs : SoundAnswer(p)
  BY <1>1 DEF Ground, Sofar, Calling
<1>4. check \notin {"snapshot", "identity", "context"}
  BY <1>2, ChecksOf
<1> HIDE DEF check
<1>5. /\ obs \subseteq obs' /\ UNCHANGED <<agent, mode, target, seen>>
      /\ \A p \in obs' : p \in obs \/ (p = o /\ o.tool = check /\ o.stock = r.stock /\ o.uses = {})
      /\ Sentiment!Refused(r, check) \/ Asked(check, r.stock)'
  <2>1. CASE obs' = obs /\ Sentiment!Refused(r, check)
    BY <2>1 DEF Calling
  <2>2. CASE Gets(o, check, r.stock, {})
    <3>1. /\ obs \subseteq obs' /\ o \in obs' /\ o.tool = check /\ o.stock = r.stock /\ o.uses = {}
          /\ \A p \in obs' : p \in obs \/ p = o
          /\ UNCHANGED <<agent, mode, target, seen>>
      BY <2>2, Grows
    <3> QED
      BY <3>1 DEF Asked
  <2> QED
    BY <1>1, <2>1, <2>2
<1>6. \A p \in obs' : SoundAnswer(p)'
  <2>1. ASSUME o.tool = check, o.stock = r.stock, o.uses = {} PROVE SoundAnswer(o)'
    <3>1. mode = "VERIFICATION" => r.stock = target
      BY <1>1, <1>2 DEF Good
    <3> QED
      BY <1>1, <1>4, <1>5, <2>1, <3>1 DEF SoundAnswer, Named
  <2> QED
    BY <1>3, <1>5, <2>1, Remembers
<1>7. \A i \in 1..k : Sentiment!Refused(r, r.checks[i]) \/ Asked(r.checks[i], r.stock)'
  <2>1. \A i \in 1..k - 1 : Sentiment!Refused(r, r.checks[i]) \/ Asked(r.checks[i], r.stock)'
    BY <1>3, <1>5, Remembers DEF SentimentSofar
  <2>2. \A i \in 1..k : i \in 1..k - 1 \/ i = k
    BY <1>2
  <2> QED
    BY <1>5, <2>1, <2>2 DEF check
<1>8. ASSUME NEW data, Stays(data) PROVE Sofar(r, k, data)'
  <2>1. SentimentSofar(r, k)'
    BY <1>7 DEF SentimentSofar
  <2> QED
    BY <1>1, <1>5, <2>1 DEF Sofar, Named
<1>9. ASSUME Ends PROVE Researched(r)'
  <2>1. k = Steps(r)
    <3>1. ~ Stays(cursor.data)
      BY <1>2, <1>9 DEF Ends, Stays, Task, Calling, First
    <3> QED
      BY <1>1, <3>1 DEF Moves
  <2>2. \A i \in 1..Len(r.checks) :
          Sentiment!Refused(r, r.checks[i]) \/ \E p \in obs' : p.tool = r.checks[i] /\ p.stock = r.stock
    BY <1>2, <1>7, <2>1 DEF Asked
  <2>3. \A c \in Range(r.checks) :
          Sentiment!Refused(r, c) \/ \E p \in obs' : p.tool = c /\ p.stock = r.stock
    <3> TAKE c \in Range(r.checks)
    <3>1. PICK i \in 1..Len(r.checks) : c = r.checks[i]
      BY <1>2, ChecksOf
    <3>2. Sentiment!Refused(r, r.checks[i]) \/ \E p \in obs' : p.tool = r.checks[i] /\ p.stock = r.stock
      BY <2>2
    <3> QED
      BY <3>1, <3>2
  <2>4. Sentiment!Range(r.checks) = Range(r.checks)
    BY SentimentFrame
  <2>5. Sentiment!Researched(r)'
    BY <2>3, <2>4 DEF Sentiment!Researched
  <2> QED
    BY <1>1, <1>5, <2>5 DEF Researched
<1> QED
  BY <1>6, <1>8, <1>9 DEF Contributes

LEMMA ContextsOf ==
  ASSUME NEW r, Good(r)
  PROVE  /\ Len(Technical!Contexts(r)) =
              IF "relative_strength" \in Range(r.checks) THEN 2 ELSE 1
         /\ Technical!Contexts(r)[1] = r.stock
         /\ "relative_strength" \in Range(r.checks) => Technical!Contexts(r)[2] = r.bench
<1>1. Technical!Range(r.checks) = Range(r.checks)
  BY TechnicalFrame
<1> QED
  BY <1>1 DEF Technical!Contexts

LEMMA FetchContributes ==
  ASSUME Base, Ground, Calling, NEW o, TechnicalFetch(o), NEW r, r = Current, NEW k, k = cursor.call
  PROVE  Contributes(r, k)
<1> DEFINE contexts == Technical!Contexts(r)
           n        == Len(contexts)
<1>1. /\ agent = "technical" /\ k <= n
      /\ Gets(o, "context", contexts[k], {})
      /\ IF k = 1 /\ o.result = "failed" THEN Ends ELSE Stays(Append(cursor.data, o))
  BY DEF TechnicalFetch, Contexts
<1>2. /\ Good(r) /\ r \in seen /\ k \in 1..Steps(r) /\ k \in Nat /\ Steps(r) = Technical!Calls(r)
      /\ Steps(r) \in Nat /\ n \in 1..2
      /\ n = IF "relative_strength" \in Range(r.checks) THEN 2 ELSE 1
      /\ contexts[1] = r.stock /\ (n = 2 => contexts[2] = r.bench)
  <2>1. /\ Good(r) /\ r \in seen /\ k \in First..Steps(r) /\ k \in Nat /\ Steps(r) \in Nat
    BY TaskAtHand DEF Calling
  <2>2. Steps(r) = Technical!Calls(r) /\ First = 1
    BY <1>1 DEF Steps, Named, First
  <2> QED
    BY <2>1, <2>2, ContextsOf
<1>3. TechnicalSofar(r, k - 1, cursor.data) /\ \A p \in obs : SoundAnswer(p)
  BY <1>1 DEF Ground, Sofar, Calling
<1>4. /\ obs \subseteq obs' /\ o \in obs' /\ o.tool = "context" /\ o.stock = contexts[k] /\ o.uses = {}
      /\ \A p \in obs' : p \in obs \/ p = o
      /\ UNCHANGED <<agent, mode, target, seen>>
  <2> HIDE DEF contexts
  <2> QED
    BY <1>1, Grows
<1>5. k \in 1..n /\ (k = 1 \/ k = 2)
  BY <1>1, <1>2
<1>6. contexts[k] \in {r.stock, r.bench}
  BY <1>2, <1>5
<1> HIDE DEF contexts
<1>7. \A p \in obs' : SoundAnswer(p)'
  <2>1. Wanted(o.stock)'
    BY <1>2, <1>4, <1>6 DEF Wanted
  <2>2. SoundAnswer(o)'
    BY <1>1, <1>4, <2>1 DEF SoundAnswer, Named
  <2> QED
    BY <1>3, <1>4, <2>2, Remembers
<1>8. ASSUME NEW data, Stays(data) PROVE Sofar(r, k, data)'
  <2>1. data = Append(cursor.data, o) /\ ~ (k = 1 /\ o.result = "failed")
    <3>1. ~ Ends
      BY <1>2, <1>8 DEF Ends, Stays, Task, Calling, First
    <3>2. Stays(Append(cursor.data, o)) /\ ~ (k = 1 /\ o.result = "failed")
      BY <1>1, <3>1
    <3> QED
      BY <1>8, <3>2 DEF Stays
  <2>2. /\ cursor.data \in Seq(obs) /\ Len(cursor.data) = k - 1
        /\ \A j \in 1..k - 1 : cursor.data[j].tool = "context" /\ cursor.data[j].stock = contexts[j]
        /\ k - 1 > 0 => cursor.data[1].result # "failed"
    <3>1. k - 1 <= n
      BY <1>2, <1>5
    <3> QED
      BY <1>3, <3>1 DEF TechnicalSofar, contexts
  <2>3. /\ data \in Seq(obs') /\ Len(data) = k
        /\ \A j \in 1..k - 1 : data[j] = cursor.data[j]
        /\ data[k] = o
    <3>1. cursor.data \in Seq(obs')
      BY <1>4, <2>2
    <3>2. /\ Append(cursor.data, o) \in Seq(obs') /\ Len(Append(cursor.data, o)) = Len(cursor.data) + 1
          /\ \A j \in 1..Len(cursor.data) : Append(cursor.data, o)[j] = cursor.data[j]
          /\ Append(cursor.data, o)[Len(cursor.data) + 1] = o
      BY <1>4, <3>1, Appended
    <3> QED
      BY <1>2, <2>1, <2>2, <3>2
  <2>4. \A j \in 1..k : j \in 1..k - 1 \/ j = k
    BY <1>2
  <2>5. \A j \in 1..Len(data) : data[j].tool = "context" /\ data[j].stock = contexts[j]
    BY <1>4, <2>2, <2>3, <2>4
  <2>6. data[1].result # "failed"
    BY <1>5, <2>1, <2>2, <2>3
  <2>7. n + 1..k = {} /\ k <= n
    BY <1>2, <1>5
  <2>8. TechnicalSofar(r, k, data)'
    <3>1. \A i \in n + 1..k : Calculated(r.checks[i - n], data)'
      BY <2>7
    <3> QED
      BY <2>3, <2>5, <2>6, <2>7, <3>1 DEF TechnicalSofar, contexts
  <2> QED
    BY <1>1, <1>4, <2>8 DEF Sofar, Named
<1>9. ASSUME Ends PROVE Researched(r)'
  <2>1. k = 1 /\ o.result = "failed"
    <3>1. ~ Stays(Append(cursor.data, o))
      BY <1>2, <1>9 DEF Ends, Stays, Task, Calling, First
    <3> QED
      BY <1>1, <3>1
  <2>2. o.stock = r.stock
    BY <1>2, <1>4, <2>1
  <2>3. Technical!Researched(r)'
    BY <1>4, <2>1, <2>2 DEF Technical!Researched, Technical!Stored
  <2> QED
    BY <1>1, <1>4, <2>3 DEF Researched
<1> QED
  BY <1>7, <1>8, <1>9 DEF Contributes

\* What is known when a calculation is made.
LEMMA DataAtHand ==
  ASSUME NEW r, Good(r), NEW k \in Nat, NEW data, NEW n, n = Len(Technical!Contexts(r)), k > n,
         TechnicalSofar(r, k - 1, data)
  PROVE  /\ data \in Seq(obs) /\ Len(data) = n /\ n \in {1, 2}
         /\ Range(data) = {data[j] : j \in 1..n} /\ Range(data) \subseteq obs
         /\ data[1] \in obs /\ data[1].tool = "context" /\ data[1].stock = r.stock
         /\ data[1].result # "failed"
         /\ "relative_strength" \in Range(r.checks) =>
              /\ n = 2 /\ data[2] \in obs /\ data[2].tool = "context" /\ data[2].stock = r.bench
              /\ Range(data) = {data[1], data[2]}
         /\ \A c \in Range(data) : c.stock \in {r.stock, r.bench}
<1> DEFINE contexts == Technical!Contexts(r)
<1>1. /\ n = IF "relative_strength" \in Range(r.checks) THEN 2 ELSE 1
      /\ contexts[1] = r.stock /\ ("relative_strength" \in Range(r.checks) => contexts[2] = r.bench)
  BY ContextsOf
<1>2. n \in {1, 2} /\ k - 1 > 0 /\ k - 1 >= n
  BY <1>1
<1>3. /\ data \in Seq(obs) /\ Len(data) = n /\ data[1].result # "failed"
      /\ \A j \in 1..n : data[j].tool = "context" /\ data[j].stock = contexts[j]
  BY <1>2 DEF TechnicalSofar
<1> HIDE DEF contexts
<1>4. \A j \in 1..n : data[j] \in obs
  BY <1>3
<1>5. DOMAIN data = 1..n
  BY <1>3
<1>6. Range(data) = {data[j] : j \in 1..n}
  BY <1>5 DEF Range
<1>7. n = 2 => Range(data) = {data[1], data[2]}
  <2>1. n = 2 => 1..n = {1, 2}
    OBVIOUS
  <2> QED
    BY <1>6, <2>1
<1>8. 1 \in 1..n /\ (n = 2 => 2 \in 1..n)
  BY <1>2
<1>9. \A j \in 1..n : data[j].stock \in {r.stock, r.bench}
  <2> TAKE j \in 1..n
  <2>1. j = 1 \/ (j = 2 /\ n = 2)
    BY <1>2
  <2> QED
    BY <1>1, <1>3, <2>1
<1> QED
  BY <1>1, <1>2, <1>3, <1>4, <1>6, <1>7, <1>8, <1>9

LEMMA CalculationContributes ==
  ASSUME Base, Ground, Calling, NEW o, TechnicalCalculation(o), NEW r, r = Current,
         NEW k, k = cursor.call
  PROVE  Contributes(r, k)
<1>0. PICK n : n = Len(Technical!Contexts(r))
  OBVIOUS
<1>a. PICK data : data = cursor.data
  OBVIOUS
<1> DEFINE check == r.checks[k - n]
           uses  == IF check = "relative_strength" THEN Range(data) ELSE {data[1]}
<1>1. /\ agent = "technical" /\ k > n /\ Moves(data)
      /\ \/ (\E c \in uses : c.result = "failed") /\ obs' = obs
         \/ Gets(o, check, r.stock, uses)
  BY <1>0, <1>a DEF TechnicalCalculation, Contexts
<1>2. /\ Good(r) /\ r \in seen /\ k \in Nat /\ n \in Nat /\ k \in n + 1..Steps(r)
      /\ Steps(r) = n + Len(r.checks) /\ Len(r.checks) \in Nat /\ Steps(r) \in Nat
  <2>1. /\ Good(r) /\ r \in seen /\ k \in First..Steps(r) /\ k \in Nat /\ Steps(r) \in Nat
    BY TaskAtHand DEF Calling
  <2>2. Steps(r) = Technical!Calls(r) /\ First = 1
    BY <1>1 DEF Steps, Named, First
  <2>3. n \in {1, 2}
    BY <1>0, <2>1, ContextsOf
  <2>4. Steps(r) = n + Len(r.checks) /\ Len(r.checks) \in Nat
    BY <1>0, <2>1, <2>2, CallsOfTask
  <2> QED
    BY <1>1, <2>1, <2>3, <2>4
<1>3. TechnicalSofar(r, k - 1, data) /\ \A p \in obs : SoundAnswer(p)
  BY <1>1, <1>a DEF Ground, Sofar, Calling
<1>4. /\ data \in Seq(obs) /\ Len(data) = n /\ n \in {1, 2}
      /\ Range(data) \subseteq obs
      /\ data[1] \in obs /\ data[1].tool = "context" /\ data[1].stock = r.stock
      /\ data[1].result # "failed"
      /\ "relative_strength" \in Range(r.checks) =>
           /\ n = 2 /\ data[2] \in obs /\ data[2].tool = "context" /\ data[2].stock = r.bench
           /\ Range(data) = {data[1], data[2]}
      /\ \A c \in Range(data) : c.stock \in {r.stock, r.bench}
      /\ data[1] \in Range(data)
  <2>1. /\ data \in Seq(obs) /\ Len(data) = n /\ n \in {1, 2}
        /\ Range(data) = {data[j] : j \in 1..n} /\ Range(data) \subseteq obs
        /\ data[1] \in obs /\ data[1].tool = "context" /\ data[1].stock = r.stock
        /\ data[1].result # "failed"
        /\ "relative_strength" \in Range(r.checks) =>
             /\ n = 2 /\ data[2] \in obs /\ data[2].tool = "context" /\ data[2].stock = r.bench
             /\ Range(data) = {data[1], data[2]}
        /\ \A c \in Range(data) : c.stock \in {r.stock, r.bench}
    <3>1. Good(r) /\ k \in Nat /\ k > n /\ TechnicalSofar(r, k - 1, data)
      BY <1>1, <1>2, <1>3
    <3> HIDE DEF check, uses
    <3> QED
      BY <1>0, <3>1, DataAtHand
  <2>2. data[1] \in Range(data)
    BY <2>1
  <2> QED
    BY <2>1, <2>2
<1>5. check \in Range(r.checks) /\ check \notin {"snapshot", "identity", "context"}
  <2>1. k - n \in 1..Len(r.checks)
    BY <1>2
  <2> QED
    BY <1>2, <2>1, ChecksOf
<1> HIDE DEF check
<1>6. /\ obs \subseteq obs' /\ UNCHANGED <<agent, mode, target, seen>>
      /\ \A p \in obs' : p \in obs \/ (p = o /\ o.tool = check /\ o.uses = uses)
      /\ Calculated(check, data)'
  <2>1. CASE (\E c \in uses : c.result = "failed") /\ obs' = obs
    <3>1. check = "relative_strength" /\ \E c \in Range(data) : c.result = "failed"
      BY <1>4, <2>1
    <3> QED
      BY <2>1, <3>1 DEF Calculated, Calling
  <2>2. CASE Gets(o, check, r.stock, uses)
    <3>1. /\ obs \subseteq obs' /\ o \in obs' /\ o.tool = check /\ o.uses = uses
          /\ \A p \in obs' : p \in obs \/ p = o
          /\ UNCHANGED <<agent, mode, target, seen>>
      <4> HIDE DEF uses
      <4> QED
        BY <2>2, Grows
    <3> QED
      BY <3>1 DEF Calculated
  <2> QED
    BY <1>1, <2>1, <2>2
<1>7. \A p \in obs' : SoundAnswer(p)'
  <2>1. ASSUME o.tool = check, o.uses = uses PROVE SoundAnswer(o)'
    <3>1. \A c \in uses : c.stock \in {r.stock, r.bench}
      BY <1>4
    <3>2. \A c \in uses : Wanted(c.stock)'
      BY <1>2, <1>6, <3>1 DEF Wanted
    <3> QED
      BY <1>1, <1>5, <1>6, <2>1, <3>2 DEF SoundAnswer, Named
  <2> QED
    BY <1>3, <1>6, <2>1, Remembers
<1>8. \A i \in n + 1..k : Calculated(r.checks[i - n], data)'
  <2>1. \A i \in n + 1..k - 1 : Calculated(r.checks[i - n], data)'
    BY <1>0, <1>3, <1>6, Remembers DEF TechnicalSofar
  <2>2. \A i \in n + 1..k : i \in n + 1..k - 1 \/ i = k
    BY <1>2
  <2> QED
    BY <1>6, <2>1, <2>2 DEF check
<1>9. ASSUME NEW d, Stays(d) PROVE Sofar(r, k, d)'
  <2>1. d = data
    <3>1. ~ Ends
      BY <1>2, <1>9 DEF Ends, Stays, Task, Calling, First
    <3> QED
      BY <1>1, <1>9, <3>1 DEF Moves, Stays
  <2>2. k - 1 > 0 /\ ~ (k <= n)
    BY <1>2, <1>4
  <2>3. /\ \A j \in 1..Len(data) : data[j].tool = "context" /\ data[j].stock = Technical!Contexts(r)[j]
        /\ data \in Seq(obs')
    BY <1>3, <1>4, <1>6 DEF TechnicalSofar
  <2>4. TechnicalSofar(r, k, data)'
    BY <1>0, <1>4, <1>8, <2>2, <2>3 DEF TechnicalSofar
  <2> QED
    BY <1>1, <1>6, <2>1, <2>4 DEF Sofar, Named
<1>10. ASSUME Ends PROVE Researched(r)'
  <2>1. k = Steps(r)
    <3>1. ~ Stays(data)
      BY <1>2, <1>10 DEF Ends, Stays, Task, Calling, First
    <3> QED
      BY <1>1, <3>1 DEF Moves
  <2>2. ASSUME NEW c \in Range(r.checks) PROVE Calculated(c, data)'
    <3>1. PICK i \in 1..Len(r.checks) : c = r.checks[i]
      BY <1>2, ChecksOf
    <3>2. n + i \in n + 1..k /\ (n + i) - n = i
      BY <1>2, <2>1
    <3> QED
      BY <1>8, <3>1, <3>2
  <2>3. ASSUME NEW c \in Range(r.checks)
        PROVE  IF c = "relative_strength"
               THEN \E b \in {p \in obs' : p.tool = "context" /\ p.stock = r.bench} :
                      b.result = "failed" \/ \E p \in obs' : p.tool = c /\ p.uses = {data[1], b}
               ELSE \E p \in obs' : p.tool = c /\ p.uses = {data[1]}
    <3>1. CASE c = "relative_strength"
      <4>1. Range(data) = {data[1], data[2]} /\ data[2] \in obs' /\ data[2].tool = "context"
            /\ data[2].stock = r.bench
        BY <1>4, <1>6, <3>1
      <4>2. \/ \E x \in Range(data) : x.result = "failed"
            \/ \E p \in obs' : p.tool = c /\ p.uses = Range(data)
        BY <2>2, <3>1 DEF Calculated
      <4>3. data[2].result = "failed" \/ \E p \in obs' : p.tool = c /\ p.uses = {data[1], data[2]}
        BY <1>4, <4>1, <4>2
      <4> QED
        BY <3>1, <4>1, <4>3
    <3>2. CASE c # "relative_strength"
      BY <2>2, <3>2 DEF Calculated
    <3> QED
      BY <3>1, <3>2
  <2>4. Technical!Range(r.checks) = Range(r.checks)
    BY TechnicalFrame
  <2>5. data[1] \in {p \in obs' : p.tool = "context" /\ p.stock = r.stock}
    BY <1>4, <1>6
  <2>6. Technical!Researched(r)'
    <3> DEFINE Done(c, check_) ==
                 IF check_ = "relative_strength"
                 THEN \E b \in {p \in obs' : p.tool = "context" /\ p.stock = r.bench} :
                        b.result = "failed" \/ \E p \in obs' : p.tool = check_ /\ p.uses = {c, b}
                 ELSE \E p \in obs' : p.tool = check_ /\ p.uses = {c}
    <3>1. \A c \in Range(r.checks) : Done(data[1], c)
      BY <2>3
    <3>2. Technical!Researched(r)' <=>
            \E c \in {p \in obs' : p.tool = "context" /\ p.stock = r.stock} :
              c.result = "failed" \/ \A check_ \in Range(r.checks) : Done(c, check_)
      BY <2>4 DEF Technical!Researched, Technical!Stored
    <3> HIDE DEF Done
    <3> QED
      BY <2>5, <3>1, <3>2
  <2> QED
    BY <1>1, <1>6, <2>6 DEF Researched
<1> QED
  BY <1>7, <1>9, <1>10 DEF Contributes

LEMMA TakesContributes ==
  ASSUME Base, Ground, Calling, TakesTask, NEW r, r = Current, NEW k, k = cursor.call
  PROVE  Contributes(r, k)
<1>1. /\ agent = "event" /\ k = 0 /\ obs' = obs
      /\ UNCHANGED <<agent, mode, target, seen>> /\ skipped' = IF Cardinality(Event!Fresh(r)) > Left THEN skipped \cup {r} ELSE skipped
      /\ IF Cardinality(Event!Fresh(r)) > Left THEN Ends ELSE Stays(cursor.data)
  BY DEF TakesTask, Calling
<1>2. \A p \in obs' : SoundAnswer(p)'
  BY <1>1, Remembers DEF Ground
<1>3. Sofar(r, k, cursor.data)' /\ \A data : Sofar(r, k, data)'
  <2>1. NamedSofar(r, k)'
    BY <1>1 DEF NamedSofar
  <2> QED
    BY <1>1, <2>1 DEF Sofar
<1>4. Ends => r \in skipped'
  <2>1. Ends => ~ Stays(cursor.data)
    BY TaskAtHand DEF Ends, Stays, Task, Calling
  <2> QED
    BY <1>1, <2>1
<1> QED
  BY <1>2, <1>3, <1>4 DEF Contributes

LEMMA CallsContribute ==
  ASSUME Base, Ground, CallStep, NEW r, r = Current, NEW k, k = cursor.call
  PROVE  Contributes(r, k)
BY NamedContributes, SentimentContributes, FetchContributes, CalculationContributes,
   TakesContributes DEF CallStep

LEMMA AnswersStaySound ==
  ASSUME obs' = obs, seen \subseteq seen', UNCHANGED <<agent, mode, target>>
  PROVE  \A o : SoundAnswer(o) => SoundAnswer(o)'
BY DEF SoundAnswer, Wanted, Confirmed

\* Nothing is known of a task before its first call.
LEMMA FreshTask ==
  ASSUME NEW r, Good(r), NEW k \in {-1, 0}, agent = "technical" => k = 0, UNCHANGED agent
  PROVE  Sofar(r, k, <<>>)'
<1>1. \A n : n \in 1..k => FALSE
  BY Z3
<1>2. NamedSofar(r, k)' /\ SentimentSofar(r, k)'
  BY <1>1 DEF NamedSofar, SentimentSofar
<1>3. agent = "technical" => TechnicalSofar(r, k, <<>>)'
  <2> SUFFICES ASSUME agent = "technical" PROVE TechnicalSofar(r, k, <<>>)'
    OBVIOUS
  <2>1. PICK n : n = Len(Technical!Contexts(r))
    OBVIOUS
  <2>2. k = 0 /\ n \in {1, 2} /\ <<>> \in Seq(obs') /\ Len(<<>>) = 0
    <3>1. n \in {1, 2}
      BY <2>1, ContextsOf
    <3>2. <<>> \in Seq(obs') /\ Len(<<>>) = 0
      OBVIOUS
    <3> QED
      BY <3>1, <3>2
  <2>3. (\A j \in 1..Len(<<>>) : FALSE) /\ (\A i \in n + 1..k : FALSE) /\ k <= n /\ ~ (k > 0)
    BY <2>2
  <2> QED
    BY <2>1, <2>2, <2>3 DEF TechnicalSofar
<1> QED
  BY <1>2, <1>3 DEF Sofar

LEMMA GroundInit ==
  ASSUME Init
  PROVE  Ground
BY Starting DEF Ground

\* Where a step through a round goes on.
LEMMA GoesOn ==
  ASSUME Base, CallStep, pc' = "call", NEW r, r = Current, NEW k, k = cursor.call
  PROVE  /\ pending' = pending /\ cursor'.task \in 1..Len(pending)
         /\ \/ Ends /\ cursor'.task = cursor.task + 1 /\ cursor'.call = First /\ cursor'.data = <<>>
            \/ /\ Stays(cursor'.data) /\ Current' = r /\ cursor'.call = k + 1
               /\ cursor'.task = cursor.task
<1>1. /\ cursor.task \in 1..Len(pending) /\ Len(pending) \in Nat
  BY TaskAtHand DEF CallStep, Calling
<1>2. CASE Ends
  <2>1. cursor.task # Len(pending) /\ cursor' = [task |-> cursor.task + 1, call |-> First, data |-> <<>>]
    BY <1>2 DEF Ends, Task
  <2>2. cursor'.task = cursor.task + 1 /\ cursor'.call = First /\ cursor'.data = <<>>
    BY <2>1
  <2>3. pending' = pending
    BY <1>2, <2>1 DEF Ends
  <2> QED
    BY <1>1, <1>2, <2>1, <2>2, <2>3
<1>3. CASE \E data : Stays(data)
  <2>1. PICK data : Stays(data)
    BY <1>3
  <2>2. cursor'.task = cursor.task /\ cursor'.call = k + 1 /\ cursor'.data = data /\ pending' = pending
    BY <2>1 DEF Stays
  <2>3. Current' = r
    BY <2>2 DEF Current
  <2> QED
    BY <1>1, <2>1, <2>2, <2>3
<1> QED
  BY <1>2, <1>3, Walks DEF Walk

LEMMA GroundNext ==
  ASSUME Base, Ground, AgentStep
  PROVE  Ground'
<1>0. /\ \A o \in obs : SoundAnswer(o)
      /\ Typed /\ Staged
  BY DEF Ground, Base
<1>1. CASE SnapshotStep
  <2>1. mode' = "DAILY" /\ pc' # "call"
    BY <1>0, <1>1 DEF Staged, SnapshotStep
  <2>2. \A o \in obs' : SoundAnswer(o)'
    BY <1>1, <2>1 DEF SnapshotStep, SoundAnswer
  <2> QED
    BY <2>1, <2>2 DEF Ground
<1>2. CASE PlanStep
  <2>1. pc' # "call" /\ obs' = obs /\ UNCHANGED <<agent, mode, target>> /\ seen = {}
    BY <1>0, <1>2 DEF PlanStep, Staged
  <2>2. \A o \in obs' : SoundAnswer(o)'
    BY <1>0, <2>1, AnswersStaySound
  <2> QED
    BY <2>1, <2>2 DEF Ground
<1>3. CASE RoundStep
  <2>1. PICK gone : StartStep(gone)
    BY <1>3 DEF RoundStep
  <2>2. \A o \in obs' : SoundAnswer(o)'
    BY <1>0, <2>1, AnswersStaySound DEF StartStep
  <2>3. ASSUME pc' = "call" PROVE Sofar(Current, cursor.call - 1, cursor.data)'
    <3>1. pending' # <<>> /\ pending' \in Seq(Range(pending))
          /\ cursor' = [task |-> 1, call |-> First, data |-> <<>>] /\ UNCHANGED agent
      BY <2>1, <2>3 DEF StartStep, Task
    <3>2. PICK r : r = pending'[1]
      OBVIOUS
    <3>3. r \in Range(pending)
      BY <3>1, <3>2
    <3>4. Good(r)
      BY <3>3, PendingTasks
    <3>5. First - 1 \in {-1, 0} /\ (agent = "technical" => First - 1 = 0)
      BY DEF First
    <3>6. Sofar(r, First - 1, <<>>)'
      <4>1. PICK k : k = First - 1
        OBVIOUS
      <4>2. First' = First
        BY <3>1 DEF First
      <4>3. Sofar(r, k, <<>>)'
        BY <3>1, <3>4, <3>5, <4>1, FreshTask
      <4> QED
        BY <4>1, <4>2, <4>3
    <3>7. Current' = r /\ cursor'.call = First /\ cursor'.data = <<>> /\ First' = First
      BY <3>1, <3>2 DEF Current, First
    <3> QED
      BY <3>6, <3>7
  <2> QED
    BY <2>2, <2>3 DEF Ground
<1>4. CASE CallStep
  <2>1. PICK r, k : r = Current /\ k = cursor.call
    OBVIOUS
  <2>2. Contributes(r, k)
    BY <1>4, <2>1, CallsContribute
  <2>3. UNCHANGED agent /\ pc = "call"
    BY <1>4 DEF CallStep, Calling
  <2>4. ASSUME pc' = "call" PROVE Sofar(Current, cursor.call - 1, cursor.data)'
    <3>1. CASE Ends /\ cursor'.task = cursor.task + 1 /\ cursor'.call = First /\ cursor'.data = <<>>
      <4>1. pending' = pending /\ cursor'.task \in 1..Len(pending)
        BY <1>4, <2>1, <2>4, GoesOn
      <4>2. PICK q, j : q = Current' /\ j = First - 1
        OBVIOUS
      <4>3. q \in Range(pending)
        BY <4>1, <4>2, PendingTasks DEF Current
      <4>4. Good(q)
        BY <4>3, PendingTasks
      <4>5. j \in {-1, 0} /\ (agent = "technical" => j = 0)
        BY <4>2 DEF First
      <4>6. Sofar(q, j, <<>>)'
        BY <2>3, <4>4, <4>5, FreshTask
      <4> QED
        BY <3>1, <4>2, <4>6
    <3>2. CASE Stays(cursor'.data) /\ Current' = r /\ cursor'.call = k + 1
      <4>1. PICK d : d = cursor'.data
        OBVIOUS
      <4>2. Sofar(r, k, d)'
        BY <2>2, <3>2, <4>1 DEF Contributes
      <4>3. (k + 1) - 1 = k
        BY <2>1, <2>3, TaskAtHand
      <4> QED
        BY <3>2, <4>1, <4>2, <4>3
    <3> QED
      BY <1>4, <2>1, <2>4, <3>1, <3>2, GoesOn
  <2> QED
    BY <2>2, <2>4 DEF Ground, Contributes
<1>5. CASE ReviewStep
  <2>1. pc' # "call"
    BY <1>5 DEF ReviewStep
  <2>2. \A o \in obs' : SoundAnswer(o)'
    BY <1>0, <1>5, AnswersStaySound DEF ReviewStep
  <2> QED
    BY <2>1, <2>2 DEF Ground
<1>6. CASE LastStep
  <2>1. PICK proved, recorded : FinalStep(proved, recorded)
    BY <1>6 DEF LastStep
  <2>2. pc' # "call"
    BY <2>1 DEF FinalStep
  <2>3. \A o \in obs' : SoundAnswer(o)'
    BY <1>0, <2>1, AnswersStaySound DEF FinalStep
  <2> QED
    BY <2>2, <2>3 DEF Ground
<1>7. CASE UNCHANGED vars
  <2>1. \A o \in obs' : SoundAnswer(o)'
    BY <1>0, <1>7, AnswersStaySound DEF vars
  <2>2. ASSUME pc' = "call" PROVE Sofar(Current, cursor.call - 1, cursor.data)'
    <3>1. PICK r, k, d : r = Current /\ k = cursor.call - 1 /\ d = cursor.data
      OBVIOUS
    <3>2. Sofar(r, k, d)
      BY <1>7, <2>2, <3>1 DEF Ground, vars
    <3>3. obs' = obs /\ UNCHANGED <<agent, mode, target, seen>>
      BY <1>7 DEF vars
    <3>4. /\ \A tool, stock : Asked(tool, stock) => Asked(tool, stock)'
          /\ \A stock : Confirmed(stock) => Confirmed(stock)'
          /\ \A check, data : Calculated(check, data) => Calculated(check, data)'
      BY <3>3, Remembers
    <3>5. NamedSofar(r, k) => NamedSofar(r, k)'
      BY <3>4 DEF NamedSofar
    <3>6. SentimentSofar(r, k) => SentimentSofar(r, k)'
      BY <3>4 DEF SentimentSofar
    <3>7. TechnicalSofar(r, k, d) => TechnicalSofar(r, k, d)'
      BY <3>3, <3>4 DEF TechnicalSofar
    <3>8. Sofar(r, k, d)'
      BY <3>2, <3>3, <3>5, <3>6, <3>7 DEF Sofar
    <3>9. Current' = r /\ cursor'.call - 1 = k /\ cursor'.data = d
      BY <1>7, <3>1 DEF vars, Current
    <3> QED
      BY <3>8, <3>9
  <2> QED
    BY <2>1, <2>2 DEF Ground
<1>8. CASE RaiseStep
  <2>1. pc' # "call"
    BY <1>8 DEF RaiseStep
  <2>2. \A o \in obs' : SoundAnswer(o)'
    BY <1>0, <1>8, AnswersStaySound DEF RaiseStep
  <2> QED
    BY <2>1, <2>2 DEF Ground
<1> QED
  BY <1>1, <1>2, <1>3, <1>4, <1>5, <1>6, <1>7, <1>8 DEF AgentStep

-----------------------------------------------------------------------------
(* Evidence is grounded.                                                   *)

Grounds(d) ==
  /\ d.cites \subseteq obs
  /\ \A o \in d.cites : (IF d.about = Sector THEN SectorIndex ELSE d.about) \in About(o)
  /\ agent = "event" => \A k \in d.keys :
       /\ k[1] \in d.cites /\ k[2] # "clue"
       /\ k[2] \in {"left", "right"} => {k[1]} \X {"left", "right"} \subseteq d.keys
  /\ mode = "VERIFICATION" =>
       \/ d.about = target
       \/ agent = "technical" /\ \E r \in seen : d.about \in {r.stock, r.bench}

\* What can be cited about a stock of an agent whose answers are about their own stock.
LEMMA CitedAnswer ==
  ASSUME agent # "technical", NEW o, SoundAnswer(o), NEW about,
         o.result \in {"answered", "empty"} \/ (o.tool = "snapshot" /\ o.result = "foreign"),
         IF o.tool = "snapshot" THEN about \in Listed \cup {Market} ELSE o.stock = about
  PROVE  about \in About(o) /\ (mode = "VERIFICATION" => about = target)
<1>1. CASE o.tool = "snapshot"
  <2>1. o.result = "answered" \/ o.result = "empty"
    BY <1>1 DEF SoundAnswer, SnapshotResults
  <2>2. about \in About(o)
    BY <1>1, <2>1 DEF About
  <2> QED
    BY <1>1, <2>2 DEF SoundAnswer
<1>2. CASE o.tool # "snapshot"
  <2>1. o.uses = {} /\ o.stock = about
    BY <1>2 DEF SoundAnswer
  <2>2. about \in About(o)
    BY <1>2, <2>1 DEF About
  <2> QED
    BY <2>1, <2>2 DEF SoundAnswer
<1> QED
  BY <1>1, <1>2

LEMMA OwnStock ==
  ASSUME Base, Ground, agent # "technical", NEW d, GoodDraft(d),
         \A o \in d.cites :
           /\ o.result \in {"answered", "empty"} \/ (o.tool = "snapshot" /\ o.result = "foreign")
           /\ IF o.tool = "snapshot" THEN d.about \in Listed \cup {Market} ELSE o.stock = d.about,
         agent = "event" => Event!RowsSupport(d)
  PROVE  Grounds(d)
<1>1. d.cites # {} /\ d.cites \subseteq obs /\ d.about \in Stock \cup {Market} /\ d.about # Sector
  BY SymbolsAssumption DEF GoodDraft, Abouts
<1>2. \A o \in d.cites : d.about \in About(o) /\ (mode = "VERIFICATION" => d.about = target)
  BY <1>1, CitedAnswer DEF Ground
<1>3. ASSUME agent = "event", NEW k \in d.keys
      PROVE  /\ k[1] \in d.cites /\ k[2] # "clue"
             /\ k[2] \in {"left", "right"} => {k[1]} \X {"left", "right"} \subseteq d.keys
  <2>1. k[1] \in d.cites /\ k \in Event!Rows(k[1])
    BY <1>3 DEF GoodDraft
  <2>2. k[1].tool # "snapshot" => k[2] \in {"fact", "clue"}
    BY <2>1 DEF Event!Rows, Event!QueryRows
  <2>3. /\ k[2] # "clue"
        /\ k[1].tool # "snapshot" \/ k[2] = "fact" \/ {k[1]} \X {"left", "right"} \subseteq d.keys
    BY <1>3 DEF Event!RowsSupport
  <2> QED
    BY <2>1, <2>2, <2>3
<1> QED
  BY <1>1, <1>2, <1>3 DEF Grounds

LEMMA FundamentalGrounds ==
  ASSUME Base, Ground, agent = "fundamental", NEW d \in Fundamental!Proved(drafts)
  PROVE  Grounds(d)
<1>1. /\ GoodDraft(d)
      /\ \A o \in d.cites : o.result \in {"answered", "foreign"} /\ Fundamental!Supports(o, d.about)
  BY DEF Fundamental!Proved, Fundamental!ReviewDrafts, Fundamental!Citable, Base, Typed, GoodDrafts
<1>2. ASSUME NEW o \in d.cites
      PROVE  /\ o.result \in {"answered", "empty"} \/ (o.tool = "snapshot" /\ o.result = "foreign")
             /\ IF o.tool = "snapshot" THEN d.about \in Listed \cup {Market} ELSE o.stock = d.about
  <2>1. CASE o.tool = "snapshot"
    BY <1>1, <2>1 DEF Fundamental!Supports, Fundamental!SnapshotTargets
  <2>2. CASE o.tool = "identity"
    BY <1>1, <2>2 DEF Fundamental!Supports
  <2>3. CASE o.tool # "snapshot" /\ o.tool # "identity"
    BY <1>1, <2>3 DEF Fundamental!Supports
  <2> QED
    BY <2>1, <2>2, <2>3
<1> QED
  BY <1>1, <1>2, OwnStock

LEMMA EventGrounds ==
  ASSUME Base, Ground, agent = "event", NEW d \in Event!Proved(drafts)
  PROVE  Grounds(d)
<1>1. /\ GoodDraft(d) /\ Event!RowsSupport(d)
      /\ \A o \in d.cites : o.result \in {"answered", "foreign"} /\ Event!Supports(o, d.about)
  BY DEF Event!Proved, Event!ReviewDrafts, Event!Citable, Base, Typed, GoodDrafts
<1>2. ASSUME NEW o \in d.cites
      PROVE  /\ o.result \in {"answered", "empty"} \/ (o.tool = "snapshot" /\ o.result = "foreign")
             /\ IF o.tool = "snapshot" THEN d.about \in Listed \cup {Market} ELSE o.stock = d.about
  <2>1. CASE o.tool = "snapshot"
    BY <1>1, <2>1 DEF Event!Supports, Event!SnapshotTargets
  <2>2. CASE o.tool = "identity"
    BY <1>1, <2>2 DEF Event!Supports
  <2>3. CASE o.tool # "snapshot" /\ o.tool # "identity"
    BY <1>1, <2>3 DEF Event!Supports
  <2> QED
    BY <2>1, <2>2, <2>3
<1> QED
  BY <1>1, <1>2, OwnStock

LEMMA SentimentGrounds ==
  ASSUME Base, Ground, agent = "sentiment_flow", NEW d \in Sentiment!Proved(drafts)
  PROVE  Grounds(d)
<1>1. /\ GoodDraft(d)
      /\ \A o \in d.cites : o.result \in {"answered", "empty", "foreign"}
                            /\ Sentiment!Supports(o, d.about)
  BY DEF Sentiment!Proved, Sentiment!ReviewDrafts, Sentiment!Citable, Base, Typed, GoodDrafts
<1>2. ASSUME NEW o \in d.cites
      PROVE  /\ o.result \in {"answered", "empty"} \/ (o.tool = "snapshot" /\ o.result = "foreign")
             /\ IF o.tool = "snapshot" THEN d.about \in Listed \cup {Market} ELSE o.stock = d.about
  BY <1>1 DEF Sentiment!Supports, Sentiment!SnapshotTargets
<1> QED
  BY <1>1, <1>2, OwnStock

\* What a draft of the technical agent says is said of instruments whose prices it used.
LEMMA PricedAnswer ==
  ASSUME agent = "technical", NEW o, SoundAnswer(o), o.result = "answered",
         NEW about \in Technical!Subjects(o)
  PROVE  about \in About(o) /\ (mode = "VERIFICATION" => Wanted(about))
<1>1. CASE o.tool = "snapshot"
  <2>1. about \in Listed \cup {target} \cup Range(Proxies)
    BY <1>1, TechnicalFrame DEF Technical!Subjects, Technical!SnapshotTargets, Technical!Benchmarks
  <2> QED
    BY <1>1, <2>1 DEF SoundAnswer, About
<1>2. CASE o.tool = "context"
  BY <1>2 DEF Technical!Subjects, SoundAnswer, About
<1>3. CASE o.tool # "snapshot" /\ o.tool # "context"
  <2>1. about \in {c.stock : c \in o.uses}
    BY <1>3 DEF Technical!Subjects
  <2>2. o.uses # {}
    BY <2>1
  <2>3. about \in About(o)
    BY <1>3, <2>1, <2>2 DEF About
  <2> QED
    BY <2>1, <2>3 DEF SoundAnswer
<1> QED
  BY <1>1, <1>2, <1>3

LEMMA TechnicalGrounds ==
  ASSUME Base, Ground, agent = "technical", NEW d \in Technical!Proved(drafts)
  PROVE  Grounds(Technical!Recorded(d))
<1>1. /\ GoodDraft(d)
      /\ \A o \in d.cites : o.result = "answered" /\ d.about \in Technical!Subjects(o)
  BY DEF Technical!Proved, Technical!ReviewDrafts, Technical!Citable, Base, Typed, GoodDrafts
<1>2. /\ d.cites # {} /\ d.cites \subseteq obs /\ d.about # Sector
      /\ "about" \in DOMAIN d /\ "cites" \in DOMAIN d
  BY <1>1, SymbolsAssumption DEF GoodDraft, Abouts
<1>3. \A o \in d.cites : d.about \in About(o) /\ (mode = "VERIFICATION" => Wanted(d.about))
  BY <1>1, <1>2, PricedAnswer DEF Ground
<1>4. CASE mode = "VERIFICATION" /\ target = Sector /\ d.about = SectorIndex /\ d.named
  <2>1. PICK e : e = [d EXCEPT !.about = Sector]
    OBVIOUS
  <2>2. e.about = Sector /\ e.cites = d.cites
    BY <1>2, <2>1
  <2>3. Grounds(e)
    BY <1>2, <1>3, <1>4, <2>2 DEF Grounds
  <2> QED
    BY <1>4, <2>1, <2>3 DEF Technical!Recorded
<1>5. CASE ~ (mode = "VERIFICATION" /\ target = Sector /\ d.about = SectorIndex /\ d.named)
  <2>1. Technical!Recorded(d) = d
    BY <1>5 DEF Technical!Recorded
  <2>2. Grounds(d)
    BY <1>2, <1>3 DEF Grounds, Wanted
  <2> QED
    BY <2>1, <2>2
<1> QED
  BY <1>4, <1>5

LEMMA LastStepGrounds ==
  ASSUME Base, Ground, LastStep
  PROVE  (\A d \in evidence' : Grounds(d)) /\ UNCHANGED <<agent, mode, target, seen, obs>>
<1>1. CASE agent = "fundamental" /\ FinalStep(Fundamental!Proved(drafts), [d \in drafts |-> d])
  BY <1>1, FundamentalGrounds DEF FinalStep, Fundamental!Proved, Fundamental!ReviewDrafts
<1>2. CASE agent = "event" /\ FinalStep(Event!Proved(drafts), [d \in drafts |-> d])
  BY <1>2, EventGrounds DEF FinalStep, Event!Proved, Event!ReviewDrafts
<1>3. CASE agent = "sentiment_flow" /\ FinalStep(Sentiment!Proved(drafts), [d \in drafts |-> d])
  BY <1>3, SentimentGrounds DEF FinalStep, Sentiment!Proved, Sentiment!ReviewDrafts
<1>4. CASE /\ agent = "technical"
           /\ FinalStep(Technical!Proved(drafts), [d \in drafts |-> Technical!Recorded(d)])
  BY <1>4, TechnicalGrounds DEF FinalStep, Technical!Proved, Technical!ReviewDrafts
<1> QED
  BY <1>1, <1>2, <1>3, <1>4 DEF LastStep

LEMMA GroundedBefore ==
  ASSUME Ground, \A d \in evidence : Grounds(d)
  PROVE  EvidenceGrounded
<1>1. agent \in {"fundamental", "event"} =>
        \A o \in obs : o.tool \notin {"snapshot", "identity"} =>
          \E i \in obs : i.tool = "identity" /\ i.stock = o.stock /\ i.result = "confirmed"
  BY DEF Ground, SoundAnswer, Named, Confirmed
<1> QED
  BY <1>1 DEF EvidenceGrounded, Grounds

Grounded == \A d \in evidence : Grounds(d)

LEMMA GroundedNext ==
  ASSUME Base, Ground, Grounded, Base', AgentStep
  PROVE  Grounded'
<1>1. CASE LastStep
  <2>1. (\A d \in evidence' : Grounds(d)) /\ UNCHANGED <<agent, mode, target, seen, obs>>
    BY <1>1, LastStepGrounds
  <2>2. \A d : Grounds(d) => Grounds(d)'
    BY <2>1 DEF Grounds, About
  <2> QED
    BY <2>1, <2>2 DEF Grounded
<1>2. CASE UNCHANGED vars
  <2>1. \A d : Grounds(d) => Grounds(d)'
    BY <1>2 DEF vars, Grounds, About
  <2> QED
    BY <1>2, <2>1 DEF Grounded, vars
<1>3. CASE SnapshotStep \/ PlanStep \/ RoundStep \/ CallStep \/ ReviewStep \/ RaiseStep
  <2>1. pc' # "done"
    <3>1. CASE SnapshotStep \/ PlanStep \/ ReviewStep \/ RaiseStep
      BY <3>1 DEF SnapshotStep, PlanStep, ReviewStep, RaiseStep
    <3>2. CASE RoundStep
      BY <3>2 DEF RoundStep, StartStep
    <3>3. CASE CallStep
      BY <3>3, Walks DEF Walk, Ends, Stays
    <3> QED
      BY <1>3, <3>1, <3>2, <3>3
  <2>2. evidence' = {}
    BY <2>1 DEF Base, Staged
  <2> QED
    BY <2>2 DEF Grounded
<1> QED
  BY <1>1, <1>2, <1>3 DEF AgentStep

-----------------------------------------------------------------------------
(* Tasks are accounted for.                                                *)

Settled(r) == Researched(r) \/ r \in skipped

Accounts ==
  /\ \A r \in seen : Settled(r) \/ r \in Range(pending)
  /\ pc = "call" => \A i \in 1..cursor.task - 1 : Settled(pending[i])
  /\ pc = "review" => \A r \in Range(pending) : Settled(r)
  /\ pc \in {"finalize", "done", "raised"} => pending = <<>> \/ count >= MaxCalls
  /\ mode = "VERIFICATION" => (exhausted <=> skipped # {})
  /\ pc = "done" => status = Closed(exhausted, evidence # {}, errors) /\ Valid(status, evidence)
  /\ pc = "raised" =>
       \/ mode = "VERIFICATION" /\ exhausted /\ drafts # {}
       \/ agent = "technical" /\ seen = {}

LEMMA ResearchStays ==
  ASSUME obs \subseteq obs', UNCHANGED agent, agent \in Agents
  PROVE  \A r : Researched(r) => Researched(r)'
<1> TAKE r
<1>1. Fundamental!Researched(r) => Fundamental!Researched(r)'
  BY DEF Fundamental!Researched
<1>2. Event!Researched(r) => Event!Researched(r)'
  BY DEF Event!Researched
<1>3. Sentiment!Researched(r) => Sentiment!Researched(r)'
  BY DEF Sentiment!Researched
<1>4. Technical!Researched(r) => Technical!Researched(r)'
  <2> SUFFICES ASSUME Technical!Researched(r) PROVE Technical!Researched(r)'
    OBVIOUS
  <2> DEFINE Fetched(s, O) == {o \in O : o.tool = "context" /\ o.stock = s}
             Did(check, uses, O) == \E o \in O : o.tool = check /\ o.uses = uses
             Done(check, c, O) ==
               IF check = "relative_strength"
               THEN \E b \in Fetched(r.bench, O) : ~ Technical!Stored(b) \/ Did(check, {c, b}, O)
               ELSE Did(check, {c}, O)
  <2>1. PICK c \in Fetched(r.stock, obs) :
          ~ Technical!Stored(c) \/ \A check \in Technical!Range(r.checks) : Done(check, c, obs)
    BY DEF Technical!Researched
  <2>2. \A check : Done(check, c, obs) => Done(check, c, obs')
    OBVIOUS
  <2>3. c \in Fetched(r.stock, obs')
    BY <2>1
  <2>4. Technical!Researched(r)' <=>
          \E d \in Fetched(r.stock, obs') :
            ~ Technical!Stored(d) \/ \A check \in Technical!Range(r.checks) : Done(check, d, obs')
    BY DEF Technical!Researched, Technical!Stored
  <2> HIDE DEF Fetched, Done
  <2> QED
    BY <2>1, <2>2, <2>3, <2>4
<1>5. CASE agent = "fundamental"
  BY <1>1, <1>5 DEF Researched
<1>6. CASE agent = "event"
  BY <1>2, <1>6 DEF Researched
<1>7. CASE agent = "sentiment_flow"
  BY <1>3, <1>7 DEF Researched
<1>8. CASE agent = "technical"
  BY <1>4, <1>8 DEF Researched
<1> QED
  BY <1>5, <1>6, <1>7, <1>8 DEF Agents

LEMMA SettledStays ==
  ASSUME obs \subseteq obs', skipped \subseteq skipped', UNCHANGED agent, agent \in Agents
  PROVE  \A r : Settled(r) => Settled(r)'
BY ResearchStays DEF Settled

LEMMA CallKeeps ==
  ASSUME Base, CallStep
  PROVE  /\ obs \subseteq obs' /\ skipped \subseteq skipped'
         /\ \/ UNCHANGED <<exhausted, skipped>>
            \/ exhausted' = TRUE /\ skipped' # {}
<1>1. obs \subseteq obs'
  BY Walks DEF Walk
<1>2. CASE TakesTask
  BY <1>1, <1>2 DEF TakesTask, Base, Typed
<1>3. CASE \E o : NamedCall(o) \/ SentimentCall(o) \/ TechnicalFetch(o) \/ TechnicalCalculation(o)
  BY <1>1, <1>3 DEF NamedCall, SentimentCall, TechnicalFetch, TechnicalCalculation
<1> QED
  BY <1>2, <1>3 DEF CallStep

LEMMA AccountsInit ==
  ASSUME Init
  PROVE  Accounts
BY Starting DEF Accounts

LEMMA AccountsNext ==
  ASSUME Base, Ground, Accounts, AgentStep
  PROVE  Accounts'
<1>0. /\ \A r \in seen : Settled(r) \/ r \in Range(pending)
      /\ pc = "call" => \A i \in 1..cursor.task - 1 : Settled(pending[i])
      /\ pc = "review" => \A r \in Range(pending) : Settled(r)
      /\ pc \in {"finalize", "done", "raised"} => pending = <<>> \/ count >= MaxCalls
      /\ mode = "VERIFICATION" => (exhausted <=> skipped # {})
      /\ pc = "done" => status = Closed(exhausted, evidence # {}, errors) /\ Valid(status, evidence)
      /\ pc = "raised" =>
           \/ mode = "VERIFICATION" /\ exhausted /\ drafts # {}
           \/ agent = "technical" /\ seen = {}
      /\ Typed /\ Staged /\ agent \in Agents
  BY DEF Accounts, Base, Typed
<1>1. CASE SnapshotStep
  <2>1. seen' = {} /\ pending' = <<>> /\ pc' \in {"analyze", "finalize"} /\ mode' = "DAILY"
    BY <1>0, <1>1 DEF SnapshotStep, Staged
  <2> QED
    BY <2>1 DEF Accounts
<1>2. CASE PlanStep
  <2>1. /\ seen' = Range(pending') /\ pc' = IF pending' = <<>> THEN "finalize" ELSE "execute"
        /\ UNCHANGED <<mode, exhausted, skipped>>
    BY <1>2 DEF PlanStep
  <2> QED
    BY <1>0, <2>1 DEF Accounts
<1>3. CASE RoundStep
  <2>1. PICK gone : StartStep(gone)
    BY <1>3 DEF RoundStep
  <2>2. /\ pc' = IF pending' = <<>> THEN "review" ELSE "call"
        /\ skipped' = skipped \cup gone /\ exhausted' = (exhausted \/ gone # {})
        /\ Range(pending) \subseteq Range(pending') \cup gone
        /\ UNCHANGED <<agent, mode, seen, obs>>
        /\ cursor' = [task |-> 1, call |-> First, data |-> <<>>]
    BY <2>1 DEF StartStep, Task
  <2>3. \A r \in seen' : Settled(r)' \/ r \in Range(pending')
    <3>1. \A r : Settled(r) => Settled(r)'
      BY <1>0, <2>2, SettledStays
    <3>2. \A r \in gone : Settled(r)'
      BY <2>2 DEF Settled
    <3> QED
      BY <1>0, <2>2, <3>1, <3>2
  <2>4. cursor'.task = 1 /\ \A i \in 1..1 - 1 : FALSE
    BY <2>2
  <2>5. pending' = <<>> => Range(pending') = {}
    BY NoTasks
  <2>6. mode' = "VERIFICATION" => (exhausted' <=> skipped' # {})
    BY <1>0, <2>2 DEF Typed
  <2> QED
    BY <2>2, <2>3, <2>4, <2>5, <2>6 DEF Accounts
<1>4. CASE CallStep
  <2>1. PICK r, k : r = Current /\ k = cursor.call
    OBVIOUS
  <2>2. Contributes(r, k)
    BY <1>4, <2>1, CallsContribute
  <2>3. /\ pc = "call" /\ UNCHANGED <<agent, mode, seen>>
        /\ obs \subseteq obs' /\ skipped \subseteq skipped'
        /\ (UNCHANGED <<exhausted, skipped>> \/ (exhausted' = TRUE /\ skipped' # {}))
    BY <1>4, CallKeeps DEF CallStep, Calling
  <2>4. \A q : Settled(q) => Settled(q)'
    BY <1>0, <2>3, SettledStays
  <2>5. Ends => Settled(r)'
    BY <2>2 DEF Contributes, Settled
  <2>6. cursor.task \in 1..Len(pending) /\ Len(pending) \in Nat
    BY <2>3, TaskAtHand
  <2>7. (Ends \/ \E data : Stays(data)) /\ pc' \in {"call", "review"}
    BY <1>4, Walks DEF Walk, Ends, Stays
  <2>8. pending' = pending \/ Range(pending') = Range(pending) \ skipped'
    BY <2>7 DEF Ends, Stays
  <2>9. \A q \in seen' : Settled(q)' \/ q \in Range(pending')
    <3>1. \A q \in Range(pending) : q \in Range(pending') \/ q \in skipped'
      BY <2>8
    <3> QED
      BY <1>0, <2>3, <2>4, <3>1 DEF Settled
  <2>10. ASSUME pc' = "call", NEW i \in 1..cursor'.task - 1
         PROVE  Settled(pending[i])'
    <3>1. /\ pending' = pending /\ cursor'.task \in 1..Len(pending)
          /\ \/ Ends /\ cursor'.task = cursor.task + 1
             \/ cursor'.task = cursor.task
      BY <1>4, <2>1, <2>10, GoesOn
    <3>2. i \in 1..cursor.task - 1 \/ (i = cursor.task /\ Ends)
      BY <2>6, <3>1
    <3>3. PICK q : q = pending[i]
      OBVIOUS
    <3>4. Settled(q)'
      BY <1>0, <2>1, <2>3, <2>4, <2>5, <3>2, <3>3 DEF Current
    <3>5. pending'[i] = q
      BY <3>1, <3>3
    <3> QED
      BY <3>4, <3>5
  <2>11. ASSUME pc' = "review", NEW q \in Range(pending')
         PROVE  Settled(q)'
    <3>1. Ends /\ cursor.task = Len(pending)
      BY <2>7, <2>11 DEF Ends, Stays
    <3>2. PICK i \in 1..Len(pending) : q = pending[i]
      BY <2>8, PendingTasks
    <3>3. i \in 1..cursor.task - 1 \/ i = cursor.task
      BY <2>6, <3>1
    <3> QED
      BY <1>0, <2>1, <2>3, <2>4, <2>5, <3>1, <3>2, <3>3 DEF Current
  <2>12. mode' = "VERIFICATION" => (exhausted' <=> skipped' # {})
    BY <1>0, <2>3
  <2> QED
    BY <2>7, <2>9, <2>10, <2>11, <2>12 DEF Accounts
<1>5. CASE ReviewStep
  <2>1. /\ pc = "review" /\ seen' = seen \cup Range(pending')
        /\ pc' \in {"execute", "finalize"} /\ (pc' = "finalize" /\ pending' # <<>> => count >= MaxCalls)
        /\ UNCHANGED <<agent, mode, obs, count, exhausted, skipped>>
    BY <1>5 DEF ReviewStep
  <2>2. \A q : Settled(q) => Settled(q)'
    BY <1>0, <2>1, SettledStays
  <2> QED
    BY <1>0, <2>1, <2>2 DEF Accounts
<1>6. CASE LastStep
  <2>1. PICK proved, recorded : FinalStep(proved, recorded)
    BY <1>6 DEF LastStep
  <2>2. /\ pc = "finalize" /\ pc' = "done" /\ status' = Closed(exhausted, evidence' # {}, errors')
        /\ Valid(status', evidence')
        /\ UNCHANGED <<agent, mode, pending, seen, obs, count, exhausted, skipped>>
    BY <2>1 DEF FinalStep
  <2>3. \A q : Settled(q) => Settled(q)'
    BY <1>0, <2>2, SettledStays
  <2>4. /\ Closed(exhausted, evidence' # {}, errors') = Closed(exhausted, evidence # {}, errors)'
        /\ Valid(status, evidence)'
    BY <2>2 DEF Closed, Valid
  <2> QED
    BY <1>0, <2>2, <2>3, <2>4 DEF Accounts
<1>7. CASE UNCHANGED vars
  <2>1. \A q : Settled(q) => Settled(q)'
    BY <1>0, <1>7, SettledStays DEF vars
  <2>2. /\ Closed(exhausted, evidence # {}, errors)' = Closed(exhausted, evidence # {}, errors)
        /\ Valid(status, evidence)' = Valid(status, evidence)
    BY <1>7 DEF vars, Closed, Valid
  <2>3. \A i : Settled(pending[i]) => Settled(pending[i])'
    <3> TAKE i
    <3>1. PICK q : q = pending[i]
      OBVIOUS
    <3>2. pending'[i] = q
      BY <1>7, <3>1 DEF vars
    <3> QED
      BY <2>1, <3>1, <3>2
  <2> QED
    BY <1>0, <1>7, <2>1, <2>2, <2>3 DEF vars, Accounts
<1>8. CASE RaiseStep
  <2>1. /\ pc' = "raised" /\ Raising
        /\ UNCHANGED <<agent, mode, pending, seen, obs, count, exhausted, skipped, drafts>>
    BY <1>8 DEF RaiseStep
  <2>2. \A q : Settled(q) => Settled(q)'
    BY <1>0, <2>1, SettledStays
  <2>3. pending' = <<>> \/ count' >= MaxCalls
    BY <1>0, <2>1 DEF Raising, Staged
  <2>4. \/ mode' = "VERIFICATION" /\ exhausted' /\ drafts' # {}
        \/ agent' = "technical" /\ seen' = {}
    BY <1>0, <2>1 DEF Raising, Staged
  <2> QED
    BY <1>0, <2>1, <2>2, <2>3, <2>4 DEF Accounts
<1> QED
  BY <1>1, <1>2, <1>3, <1>4, <1>5, <1>6, <1>7, <1>8 DEF AgentStep

LEMMA AccountsShow ==
  ASSUME Base, Accounts
  PROVE  EveryTaskAccounted
<1>1. \A r \in seen : Researched(r) \/ r \in skipped \/ r \in Range(pending)
  BY DEF Accounts, Settled
<1>2. pc \in {"finalize", "done", "raised"} =>
        \A r \in Range(pending) : Researched(r) \/ count >= MaxCalls
  BY NoTasks DEF Accounts
<1>3. mode = "VERIFICATION" /\ pc = "done" =>
        /\ status = "CANCELLED_BY_BUDGET" <=> skipped # {}
        /\ status = "COMPLETED" <=> evidence # {}
  BY DEF Accounts, Closed, Valid
<1>4. pc = "raised" => /\ evidence = {} /\ status = "none"
                       /\ \/ mode = "VERIFICATION" /\ skipped # {} /\ drafts # {}
                          \/ agent = "technical" /\ seen = {}
  BY DEF Accounts, Base, Staged
<1> QED
  BY <1>1, <1>2, <1>3, <1>4 DEF EveryTaskAccounted

-----------------------------------------------------------------------------
(* What a request is reported as.                                          *)

Excused(o) ==
  \/ agent = "event" /\ o.tool # "identity"
  \/ agent = "technical" /\ (o.tool = "context" => \E r \in seen : Compared(r, o.stock))

Searched == obs # {} \/ errors \/ exhausted

Reports ==
  mode = "VERIFICATION" =>
    /\ ~ errors => \A o \in obs : o.result = "failed" => Excused(o)
    /\ pc = "call" => Searched \/ (cursor.task = 1 /\ cursor.call \in {First, 1})
    /\ pc \in {"review", "finalize", "done"} => Searched

\* What a call leaves to be reported.
Leaves ==
  /\ (errors => errors') /\ (exhausted => exhausted') /\ obs \subseteq obs'
  /\ ~ errors' => \A p \in obs' : p \in obs \/ (p.result = "failed" => Excused(p)')
  /\ Searched' \/ (agent = "event" /\ cursor.call = 0 /\ Stays(cursor.data))

LEMMA NamedLeaves ==
  ASSUME Calling, NEW o, NamedCall(o)
  PROVE  Leaves
<1> DEFINE tool == PlannedOf(Current)[cursor.call]
<1>1. /\ agent \in Named /\ Gets(o, tool, Current.stock, {})
      /\ errors' = (errors \/ (tool = "identity" /\ o.result # "confirmed")
                           \/ (agent = "fundamental" /\ o.result = "failed"))
      /\ exhausted' = exhausted
  BY DEF NamedCall
<1>2. /\ obs \subseteq obs' /\ o \in obs' /\ o.tool = tool /\ \A p \in obs' : p \in obs \/ p = o
      /\ agent' = agent
  <2> HIDE DEF tool
  <2> QED
    BY <1>1, Grows
<1> HIDE DEF tool
<1>3. ~ errors' /\ o.result = "failed" => Excused(o)'
  BY <1>1, <1>2 DEF Excused, Named
<1> QED
  BY <1>1, <1>2, <1>3 DEF Leaves, Searched

LEMMA SentimentLeaves ==
  ASSUME Calling, NEW o, SentimentCall(o)
  PROVE  Leaves
<1> DEFINE check == Current.checks[cursor.call]
<1>1. /\ exhausted' = exhausted
      /\ \/ errors' = TRUE /\ obs' = obs
         \/ Gets(o, check, Current.stock, {}) /\ errors' = (errors \/ o.result = "failed")
  BY DEF SentimentCall
<1>2. CASE errors' = TRUE /\ obs' = obs
  BY <1>1, <1>2 DEF Leaves, Searched
<1>3. CASE Gets(o, check, Current.stock, {}) /\ errors' = (errors \/ o.result = "failed")
  <2>1. obs \subseteq obs' /\ o \in obs' /\ \A p \in obs' : p \in obs \/ p = o
    <3> HIDE DEF check
    <3> QED
      BY <1>3, Grows
  <2> QED
    BY <1>1, <1>3, <2>1 DEF Leaves, Searched
<1> QED
  BY <1>1, <1>2, <1>3

LEMMA FetchLeaves ==
  ASSUME Base, Calling, NEW o, TechnicalFetch(o)
  PROVE  Leaves
<1>0. PICK r, k : r = Current /\ k = cursor.call
  OBVIOUS
<1> DEFINE contexts == Technical!Contexts(r)
<1>1. /\ agent = "technical" /\ k <= Len(contexts) /\ Gets(o, "context", contexts[k], {})
      /\ IF k = 1 /\ o.result = "failed" THEN errors' = TRUE ELSE errors' = errors
      /\ exhausted' = exhausted
  BY <1>0 DEF TechnicalFetch, Contexts
<1>2. Good(r) /\ r \in seen /\ k \in Nat /\ k >= 1
  <2>1. Good(r) /\ r \in seen /\ k \in First..Steps(r) /\ k \in Nat /\ Steps(r) \in Nat /\ First = 1
    BY <1>0, <1>1, TaskAtHand DEF Calling, First
  <2> QED
    BY <2>1
<1>3. k = 1 \/ ("relative_strength" \in Range(r.checks) /\ contexts[k] = r.bench)
  <2>1. /\ Len(contexts) = IF "relative_strength" \in Range(r.checks) THEN 2 ELSE 1
        /\ "relative_strength" \in Range(r.checks) => contexts[2] = r.bench
    BY <1>2, ContextsOf
  <2>2. k = 1 \/ (k = 2 /\ Len(contexts) = 2)
    BY <1>1, <1>2, <2>1
  <2> QED
    BY <2>1, <2>2
<1>4. /\ obs \subseteq obs' /\ o \in obs' /\ o.stock = contexts[k] /\ UNCHANGED <<agent, seen>>
      /\ \A p \in obs' : p \in obs \/ p = o
  <2> HIDE DEF contexts
  <2> QED
    BY <1>1, Grows
<1> HIDE DEF contexts
<1>5. ~ errors' /\ o.result = "failed" => Excused(o)'
  <2>1. ~ errors' /\ o.result = "failed" => Compared(r, o.stock)
    BY <1>1, <1>3, <1>4 DEF Compared
  <2> QED
    BY <1>1, <1>2, <1>4, <2>1 DEF Excused
<1> QED
  BY <1>1, <1>4, <1>5 DEF Leaves, Searched

LEMMA CalculationLeaves ==
  ASSUME Base, Ground, Calling, NEW o, TechnicalCalculation(o)
  PROVE  Leaves
<1>0. PICK r, k, n, data : /\ r = Current /\ k = cursor.call /\ n = Len(Technical!Contexts(r))
                           /\ data = cursor.data
  OBVIOUS
<1> DEFINE check == r.checks[k - n]
           uses  == IF check = "relative_strength" THEN Range(data) ELSE {data[1]}
<1>1. /\ agent = "technical" /\ k > n /\ UNCHANGED <<exhausted, errors>>
      /\ obs' = obs \/ Gets(o, check, r.stock, uses)
  BY <1>0 DEF TechnicalCalculation, Contexts
<1>2. Good(r) /\ k \in Nat /\ Steps(r) = n + Len(r.checks) /\ k <= Steps(r)
  <2>1. Good(r) /\ k \in First..Steps(r) /\ k \in Nat /\ Steps(r) \in Nat /\ First \in Nat
    BY <1>0, TaskAtHand DEF Calling, First
  <2>2. Steps(r) = Technical!Calls(r)
    BY <1>1 DEF Steps, Named
  <2> QED
    BY <1>0, <2>1, <2>2, CallsOfTask
<1>3. TechnicalSofar(r, k - 1, data)
  BY <1>0, <1>1 DEF Ground, Sofar, Calling
<1>4. n \in {1, 2} /\ data[1] \in obs
  <2> HIDE DEF check, uses
  <2> QED
    BY <1>0, <1>1, <1>2, <1>3, DataAtHand
<1>5. check \notin {"snapshot", "identity", "context"}
  <2>1. k - n \in 1..Len(r.checks)
    <3>1. Len(r.checks) \in Nat
      BY <1>2, CallsOfTask
    <3> QED
      BY <1>1, <1>2, <1>4, <3>1
  <2> QED
    BY <1>2, <2>1, ChecksOf
<1>6. /\ obs \subseteq obs' /\ agent' = agent
      /\ \A p \in obs' : p \in obs \/ p.tool = check
  <2> HIDE DEF check, uses
  <2>1. CASE obs' = obs
    BY <2>1 DEF Calling
  <2>2. CASE Gets(o, check, r.stock, uses)
    BY <2>2, Grows
  <2> QED
    BY <1>1, <2>1, <2>2
<1> HIDE DEF check
<1>7. \A p : p.tool = check => Excused(p)'
  BY <1>1, <1>5, <1>6 DEF Excused
<1> QED
  BY <1>1, <1>4, <1>6, <1>7 DEF Leaves, Searched

LEMMA CallsLeave ==
  ASSUME Base, Ground, CallStep
  PROVE  Leaves
<1>1. CASE TakesTask
  BY <1>1 DEF TakesTask, Leaves, Searched
<1> QED
  BY <1>1, NamedLeaves, SentimentLeaves, FetchLeaves, CalculationLeaves DEF CallStep

LEMMA ReportsInit ==
  ASSUME Init
  PROVE  Reports
BY Starting DEF Reports, Searched

LEMMA ReportsNext ==
  ASSUME Base, Ground, Reports, AgentStep
  PROVE  Reports'
<1> SUFFICES ASSUME mode' = "VERIFICATION"
             PROVE  /\ ~ errors' => \A o \in obs' : o.result = "failed" => Excused(o)'
                    /\ pc' = "call" => Searched' \/ (cursor'.task = 1 /\ cursor'.call \in {First', 1})
                    /\ pc' \in {"review", "finalize", "done"} => Searched'
  BY DEF Reports
<1>0. Typed /\ Staged /\ mode' = mode /\ agent' = agent
  <2>1. UNCHANGED <<mode, agent>>
    <3>1. CASE SnapshotStep \/ PlanStep \/ ReviewStep
      BY <3>1 DEF SnapshotStep, PlanStep, ReviewStep
    <3>2. CASE RoundStep
      BY <3>2 DEF RoundStep, StartStep
    <3>3. CASE CallStep
      BY <3>3 DEF CallStep, Calling
    <3>4. CASE LastStep
      BY <3>4 DEF LastStep, FinalStep
    <3>5. CASE UNCHANGED vars
      BY <3>5 DEF vars
    <3>6. CASE RaiseStep
      BY <3>6 DEF RaiseStep
    <3> QED
      BY <3>1, <3>2, <3>3, <3>4, <3>5, <3>6 DEF AgentStep
  <2> QED
    BY <2>1 DEF Base
<1>1. /\ ~ errors => \A o \in obs : o.result = "failed" => Excused(o)
      /\ pc = "call" => Searched \/ (cursor.task = 1 /\ cursor.call \in {First, 1})
      /\ pc \in {"review", "finalize", "done"} => Searched
  BY <1>0 DEF Reports
<1>2. seen \subseteq seen' => \A o : Excused(o) => Excused(o)'
  BY <1>0 DEF Excused
<1>3. CASE SnapshotStep
  BY <1>0, <1>3 DEF SnapshotStep, Staged
<1>4. CASE PlanStep
  <2>1. obs' = {} /\ (pc' = "finalize" => errors') /\ pc' \in {"finalize", "execute"}
    BY <1>0, <1>4 DEF PlanStep, Staged
  <2> QED
    BY <2>1 DEF Searched
<1>5. CASE RoundStep
  <2>1. PICK gone : StartStep(gone)
    BY <1>5 DEF RoundStep
  <2>2. /\ pc' = IF pending' = <<>> THEN "review" ELSE "call"
        /\ cursor' = [task |-> 1, call |-> First, data |-> <<>>] /\ First' = First
        /\ obs' = obs /\ seen' = seen /\ errors' = (errors \/ gone # {})
        /\ exhausted' = (exhausted \/ gone # {})
        /\ Range(pending) \subseteq Range(pending') \cup gone /\ pending # <<>>
    BY <1>0, <2>1 DEF StartStep, Task, First, Staged
  <2>3. pending' = <<>> => gone # {}
    <3>1. pending \in Seq(Range(pending)) /\ \A i \in 1..Len(pending) : pending[i] \in Range(pending)
      BY PendingTasks DEF Base
    <3>2. 1 \in 1..Len(pending)
      BY <2>2, <3>1
    <3>3. pending[1] \in Range(pending)
      BY <3>1, <3>2
    <3> QED
      BY <2>2, <3>3, NoTasks
  <2> QED
    BY <1>1, <1>2, <2>2, <2>3 DEF Searched
<1>6. CASE CallStep
  <2>1. Leaves /\ pc = "call" /\ seen' = seen
    BY <1>6, CallsLeave DEF CallStep, Calling
  <2>2. ~ errors' => \A o \in obs' : o.result = "failed" => Excused(o)'
    BY <1>1, <1>2, <2>1 DEF Leaves
  <2>3. pc' = "call" \/ pc' = "review"
    BY <1>6, Walks DEF Walk, Ends, Stays
  <2>4. CASE Searched'
    BY <2>2, <2>3, <2>4
  <2>5. CASE agent = "event" /\ cursor.call = 0 /\ Stays(cursor.data)
    <3>1. pc' = "call" /\ cursor'.task = cursor.task /\ cursor'.call = 1
      BY <2>5 DEF Stays
    <3>2. Searched => Searched'
      BY <2>1 DEF Leaves, Searched
    <3> QED
      BY <1>1, <2>1, <2>2, <3>1, <3>2
  <2> QED
    BY <2>1, <2>4, <2>5 DEF Leaves
<1>7. CASE ReviewStep
  BY <1>1, <1>2, <1>7 DEF ReviewStep, Searched
<1>8. CASE LastStep
  <2>1. PICK proved, recorded : FinalStep(proved, recorded)
    BY <1>8 DEF LastStep
  <2> QED
    BY <1>1, <1>2, <2>1 DEF FinalStep, Searched
<1>9. CASE UNCHANGED vars
  BY <1>0, <1>1, <1>2, <1>9 DEF vars, Searched, First
<1>10. CASE RaiseStep
  BY <1>1, <1>2, <1>10 DEF RaiseStep
<1> QED
  BY <1>3, <1>4, <1>5, <1>6, <1>7, <1>8, <1>9, <1>10 DEF AgentStep

LEMMA ReportsShow ==
  ASSUME Base, Accounts, Reports
  PROVE  NothingFoundWasSearched
<1> SUFFICES ASSUME status = "NO_NEW_EVIDENCE" PROVE NothingFoundWasSearched
  BY DEF NothingFoundWasSearched
<1>1. pc = "done" /\ status = Closed(exhausted, evidence # {}, errors)
  BY DEF Base, Staged, Accounts
<1>2. mode = "VERIFICATION" /\ ~ exhausted /\ ~ errors
  BY <1>1 DEF Closed, Base, Typed
<1>3. skipped = {} /\ obs # {}
  BY <1>1, <1>2 DEF Accounts, Reports, Searched
<1>4. \A o \in obs : o.result = "failed" => Excused(o)
  BY <1>2 DEF Reports
<1> QED
  BY <1>2, <1>3, <1>4 DEF NothingFoundWasSearched, Excused

-----------------------------------------------------------------------------
(* Calls are not made again.                                               *)

Places == pc = "call" => \A o \in obs : o.round = round => o.position \in 1..cursor.task

NoRepeats == \A o, p \in obs : Repeats(o, p) => o.result \notin Reusable

\* A call that is made.
Made(o) ==
  /\ o.round = round /\ o.position = cursor.task
  /\ \A p \in obs : p.tool = o.tool /\ p.stock = o.stock /\ p.uses = o.uses => p.result \notin Reusable
  /\ obs' = obs \cup {o} /\ count' = count + 1

LEMMA GetsOrMakes ==
  ASSUME NEW o, NEW tool, NEW stock, NEW uses, Gets(o, tool, stock, uses)
  PROVE  UNCHANGED <<obs, count>> \/ Made(o)
BY DEF Gets, Made, Asks

LEMMA CallsMake ==
  ASSUME CallStep
  PROVE  UNCHANGED <<obs, count>> \/ \E o : Made(o)
<1>1. CASE TakesTask
  BY <1>1 DEF TakesTask
<1>2. ASSUME NEW o, NamedCall(o)
      PROVE  UNCHANGED <<obs, count>> \/ Made(o)
  <2>1. \E tool, stock, uses : Gets(o, tool, stock, uses)
    BY <1>2 DEF NamedCall
  <2> QED
    BY <2>1, GetsOrMakes
<1>3. ASSUME NEW o, SentimentCall(o)
      PROVE  UNCHANGED <<obs, count>> \/ Made(o)
  <2>1. UNCHANGED <<obs, count>> \/ \E tool, stock, uses : Gets(o, tool, stock, uses)
    BY <1>3 DEF SentimentCall
  <2> QED
    BY <2>1, GetsOrMakes
<1>4. ASSUME NEW o, TechnicalFetch(o)
      PROVE  UNCHANGED <<obs, count>> \/ Made(o)
  <2>1. \E tool, stock, uses : Gets(o, tool, stock, uses)
    BY <1>4 DEF TechnicalFetch
  <2> QED
    BY <2>1, GetsOrMakes
<1>5. ASSUME NEW o, TechnicalCalculation(o)
      PROVE  UNCHANGED <<obs, count>> \/ Made(o)
  <2>1. UNCHANGED <<obs, count>> \/ \E tool, stock, uses : Gets(o, tool, stock, uses)
    BY <1>5 DEF TechnicalCalculation
  <2> QED
    BY <2>1, GetsOrMakes
<1> QED
  BY <1>1, <1>2, <1>3, <1>4, <1>5 DEF CallStep

\* Steps that make no call leave the answers and the count.
Quiet ==
  \/ PlanStep \/ RoundStep \/ ReviewStep \/ LastStep \/ RaiseStep \/ UNCHANGED vars

LEMMA QuietSteps ==
  ASSUME Quiet
  PROVE  UNCHANGED <<agent, mode, obs, count>> /\ (pc' = "call" => RoundStep \/ UNCHANGED vars)
<1>1. CASE PlanStep \/ ReviewStep
  BY <1>1 DEF PlanStep, ReviewStep
<1>2. CASE RoundStep
  BY <1>2 DEF RoundStep, StartStep
<1>3. CASE LastStep
  BY <1>3 DEF LastStep, FinalStep
<1>4. CASE UNCHANGED vars
  BY <1>4 DEF vars
<1>5. CASE RaiseStep
  BY <1>5 DEF RaiseStep
<1> QED
  BY <1>1, <1>2, <1>3, <1>4, <1>5 DEF Quiet

LEMMA PlacesNext ==
  ASSUME Base, Places, AgentStep
  PROVE  Places'
<1> SUFFICES ASSUME pc' = "call", NEW p \in obs', p.round = round'
             PROVE  p.position \in 1..cursor'.task
  BY DEF Places
<1>1. CASE SnapshotStep
  BY <1>1 DEF SnapshotStep
<1>2. CASE RoundStep
  <2>1. obs' = obs /\ round' = round + 1
    BY <1>2 DEF RoundStep, StartStep
  <2>2. p.round \in 0..round /\ round \in Nat
    BY <2>1 DEF Base, Typed
  <2> QED
    BY <2>1, <2>2
<1>3. CASE UNCHANGED vars
  BY <1>3 DEF vars, Places
<1>4. CASE PlanStep \/ ReviewStep \/ LastStep \/ RaiseStep
  BY <1>4, QuietSteps DEF Quiet, PlanStep, ReviewStep, LastStep, FinalStep, RaiseStep
<1>5. CASE CallStep
  <2>1. /\ cursor.task \in 1..Len(pending) /\ Len(pending) \in Nat /\ round' = round /\ pc = "call"
    BY <1>5, TaskAtHand DEF CallStep, Calling
  <2>2. cursor'.task = cursor.task \/ cursor'.task = cursor.task + 1
    <3>1. PICK r, k : r = Current /\ k = cursor.call
      OBVIOUS
    <3> QED
      BY <1>5, <3>1, GoesOn
  <2>3. p \in obs \/ p.position = cursor.task
    BY <1>5, CallsMake DEF Made
  <2>4. p \in obs => p.position \in 1..cursor.task
    BY <2>1 DEF Places
  <2> QED
    BY <2>1, <2>2, <2>3, <2>4
<1> QED
  BY <1>1, <1>2, <1>3, <1>4, <1>5 DEF AgentStep

LEMMA NoRepeatsNext ==
  ASSUME Base, Places, NoRepeats, AgentStep
  PROVE  NoRepeats'
<1>1. CASE SnapshotStep
  BY <1>1 DEF SnapshotStep, NoRepeats, Repeats
<1>2. CASE Quiet
  BY <1>2, QuietSteps DEF NoRepeats, Repeats, Reusable
<1>3. CASE CallStep
  <2>1. Reusable' = Reusable /\ pc = "call"
    BY <1>3 DEF CallStep, Calling, Reusable
  <2>2. CASE UNCHANGED <<obs, count>>
    BY <2>1, <2>2 DEF NoRepeats, Repeats
  <2>3. CASE \E o : Made(o)
    <3>1. PICK o : Made(o)
      BY <2>3
    <3>2. ASSUME NEW q \in obs, Repeats(q, o) PROVE q.result \notin Reusable
      BY <3>1, <3>2 DEF Made, Repeats
    <3>3. ASSUME NEW q \in obs PROVE ~ Repeats(o, q)
      <4>1. q.round \in 0..round /\ round \in Nat /\ cursor.task \in Nat
        BY DEF Base, Typed
      <4>2. q.round = round => q.position \in 1..cursor.task
        BY <2>1 DEF Places
      <4> QED
        BY <3>1, <4>1, <4>2 DEF Made, Repeats
    <3>4. ~ Repeats(o, o)
      <4>1. round \in Nat /\ cursor.task \in Nat
        BY DEF Base, Typed
      <4> QED
        BY <3>1, <4>1 DEF Made, Repeats
    <3>5. \A q \in obs' : q \in obs \/ q = o
      BY <3>1 DEF Made
    <3> HIDE DEF Repeats
    <3>6. ASSUME NEW p \in obs', NEW q \in obs', Repeats(p, q) PROVE p.result \notin Reusable
      BY <3>2, <3>3, <3>4, <3>5, <3>6 DEF NoRepeats
    <3>7. \A p, q : Repeats(p, q)' <=> Repeats(p, q)
      BY DEF Repeats
    <3> QED
      BY <2>1, <3>6, <3>7 DEF NoRepeats
  <2> QED
    BY <1>3, <2>2, <2>3, CallsMake
<1> QED
  BY <1>1, <1>2, <1>3 DEF AgentStep, Quiet

-----------------------------------------------------------------------------
(* The budget, where tasks are reserved for all their calls.               *)

Reserving == {"sentiment_flow", "technical"}

\* What was reserved for the calls that are still to be made.
Holds(tasks, task, call, rest) ==
  /\ \E cost : Budget(tasks, cost, rest) /\ \A r \in Range(tasks) : cost[r] = Steps(r)
  /\ count + (Steps(tasks[task]) - call + 1) + rest[task] <= MaxCalls

ReservedSpends ==
  agent \in Reserving =>
    /\ count <= MaxCalls
    /\ pc = "call" => \E rest : Holds(pending, cursor.task, cursor.call, rest)

LEMMA ReservedRound ==
  ASSUME Base, Base', ReservedSpends, RoundStep
  PROVE  ReservedSpends'
<1> SUFFICES ASSUME agent \in Reserving, pc' = "call"
             PROVE  (\E rest : Holds(pending, cursor.task, cursor.call, rest))'
  <2>1. UNCHANGED <<agent, count>>
    BY DEF RoundStep, StartStep
  <2> QED
    BY <2>1 DEF ReservedSpends
<1>1. PICK tasks : tasks = pending'
  OBVIOUS
<1>2. /\ UNCHANGED <<agent, count>> /\ tasks # <<>> /\ tasks \in Seq(Range(pending))
      /\ cursor' = [task |-> 1, call |-> First, data |-> <<>>] /\ First = 1
  BY <1>1 DEF RoundStep, StartStep, Task, First, Reserving
<1>3. PICK cost, last : Affords(tasks, cost, Left, last) /\ \A r \in Range(tasks) : cost[r] = Steps(r)
  BY <1>1 DEF RoundStep, Within, Reserving, Fits
<1>4. PICK rest : Budget(tasks, cost, rest) /\ rest[0] = Left
  BY <1>3 DEF Affords
<1>5. 1 \in 1..Len(tasks) /\ tasks[1] \in Range(tasks) /\ tasks[1] \in Range(pending) /\ Len(tasks) \in Nat
  <2>1. Len(tasks) \in Nat /\ 1 \in 1..Len(tasks)
    BY <1>2
  <2> QED
    BY <1>2, <2>1, Ranged
<1>6. Steps(tasks[1]) \in Nat
  <2>1. PICK r : r = tasks[1]
    OBVIOUS
  <2>2. Good(r)
    BY <1>5, <2>1, PendingTasks
  <2>3. Steps(r) \in Nat
    BY <2>2, CallsOfTask DEF Steps
  <2> QED
    BY <2>1, <2>3
<1>7. Left = rest[1] + Steps(tasks[1]) /\ rest[1] \in Nat
  <2>1. 1 - 1 = 0 /\ 1 \in 0..Len(tasks)
    BY <1>5
  <2>2. rest[1 - 1] = rest[1] + cost[tasks[1]] /\ rest[1] \in Nat
    BY <1>4, <1>5, <2>1 DEF Budget
  <2> QED
    BY <1>3, <1>4, <1>5, <2>1, <2>2
<1>8. count + Left <= MaxCalls /\ count \in Nat
  BY AgentAssumption, <1>2 DEF Left, ReservedSpends, Base, Typed
<1>9. count + (Steps(tasks[1]) - 1 + 1) + rest[1] <= MaxCalls
  BY <1>6, <1>7, <1>8
<1>10. \A r : Steps(r)' = Steps(r)
  BY <1>2 DEF Steps, Named
<1>11. Holds(tasks, 1, 1, rest)'
  BY <1>2, <1>3, <1>4, <1>9, <1>10 DEF Holds
<1>12. pending' = tasks /\ cursor'.task = 1 /\ cursor'.call = 1
  BY <1>1, <1>2
<1> QED
  BY <1>11, <1>12

LEMMA ReservedCall ==
  ASSUME Base, ReservedSpends, CallStep
  PROVE  ReservedSpends'
<1>1. UNCHANGED agent /\ pc = "call"
  BY DEF CallStep, Calling
<1> SUFFICES ASSUME agent \in Reserving
             PROVE  /\ count' <= MaxCalls
                    /\ pc' = "call" => (\E rest : Holds(pending, cursor.task, cursor.call, rest))'
  BY <1>1 DEF ReservedSpends
<1>2. PICK tasks, t, k : tasks = pending /\ t = cursor.task /\ k = cursor.call
  OBVIOUS
<1>3. PICK rest : Holds(tasks, t, k, rest)
  BY <1>1, <1>2 DEF ReservedSpends
<1>4. PICK cost : Budget(tasks, cost, rest) /\ \A r \in Range(tasks) : cost[r] = Steps(r)
  BY <1>3 DEF Holds
<1>5. /\ t \in 1..Len(tasks) /\ Len(tasks) \in Nat /\ k \in 1..Steps(tasks[t]) /\ Steps(tasks[t]) \in Nat
      /\ count \in Nat /\ MaxCalls \in Nat /\ First = 1
  BY <1>1, <1>2, TaskAtHand, AgentAssumption DEF Current, First, Reserving, Base, Typed
<1>6. rest \in [0..Len(tasks) -> Nat] /\ rest[t] \in Nat
  <2>1. t \in 0..Len(tasks)
    BY <1>5
  <2> QED
    BY <1>4, <2>1 DEF Budget
<1>7. count' \in Nat /\ count' <= count + 1
  BY <1>5, CallsMake DEF Made
<1>8. count + (Steps(tasks[t]) - k + 1) + rest[t] <= MaxCalls
  BY <1>3 DEF Holds
<1>9. \A r : Steps(r)' = Steps(r)
  BY <1>1 DEF Steps, Named
<1>10. count' <= MaxCalls
  BY <1>5, <1>6, <1>7, <1>8, SMTT(30)
<1>11. ASSUME pc' = "call" PROVE (\E rs : Holds(pending, cursor.task, cursor.call, rs))'
  <2>1. PICK r : r = Current
    OBVIOUS
  <2>2. /\ pending' = tasks /\ cursor'.task \in 1..Len(tasks)
        /\ \/ cursor'.task = t + 1 /\ cursor'.call = 1
           \/ cursor'.call = k + 1 /\ cursor'.task = t /\ Stays(cursor'.data)
    BY <1>2, <1>5, <1>11, <2>1, GoesOn
  <2>3. CASE cursor'.task = t + 1 /\ cursor'.call = 1
    <3>1. PICK u : u = t + 1
      OBVIOUS
    <3>2. u \in 1..Len(tasks) /\ u - 1 = t /\ u \in 0..Len(tasks)
      BY <1>5, <2>2, <2>3, <3>1
    <3>3. tasks[u] \in Range(tasks) /\ Good(tasks[u])
      BY <1>2, <3>2, PendingTasks
    <3>4. Steps(tasks[u]) \in Nat
      <4>1. PICK q : q = tasks[u]
        OBVIOUS
      <4>2. Good(q)
        BY <3>3, <4>1
      <4>3. Steps(q) \in Nat
        BY <4>2, CallsOfTask DEF Steps
      <4> QED
        BY <4>1, <4>3
    <3>5. rest[t] = rest[u] + Steps(tasks[u]) /\ rest[u] \in Nat
      BY <1>4, <1>6, <3>2, <3>3 DEF Budget
    <3>6. count' + (Steps(tasks[u]) - 1 + 1) + rest[u] <= MaxCalls
      BY <1>5, <1>7, <1>8, <3>4, <3>5, SMTT(30)
    <3>7. Holds(tasks, u, 1, rest)'
      BY <1>4, <1>9, <3>6 DEF Holds
    <3> QED
      BY <2>2, <2>3, <3>1, <3>7
  <2>4. CASE cursor'.call = k + 1 /\ cursor'.task = t
    <3>1. count' + (Steps(tasks[t]) - (k + 1) + 1) + rest[t] <= MaxCalls
      BY <1>5, <1>6, <1>7, <1>8, SMTT(30)
    <3>2. Holds(tasks, t, k + 1, rest)'
      BY <1>4, <1>9, <3>1 DEF Holds
    <3> QED
      BY <2>2, <2>4, <3>2
  <2> QED
    BY <2>2, <2>3, <2>4
<1> QED
  BY <1>10, <1>11

LEMMA ReservedNext ==
  ASSUME Base, Base', ReservedSpends, AgentStep
  PROVE  ReservedSpends'
<1>1. CASE SnapshotStep
  BY <1>1 DEF SnapshotStep, ReservedSpends
<1>2. CASE RoundStep
  BY <1>2, ReservedRound
<1>3. CASE CallStep
  BY <1>3, ReservedCall
<1>4. CASE PlanStep \/ ReviewStep \/ LastStep \/ RaiseStep
  <2>1. pc' # "call" /\ UNCHANGED <<agent, count>>
    BY <1>4 DEF PlanStep, ReviewStep, LastStep, FinalStep, RaiseStep
  <2> QED
    BY <2>1 DEF ReservedSpends
<1>5. CASE UNCHANGED vars
  <2>1. \A r : Steps(r)' = Steps(r)
    BY <1>5 DEF vars, Steps, Named
  <2>2. ASSUME NEW tasks, NEW t, NEW k, NEW rest, Holds(tasks, t, k, rest)
        PROVE  Holds(tasks, t, k, rest)'
    BY <1>5, <2>1, <2>2 DEF vars, Holds
  <2>3. ASSUME agent \in Reserving, pc' = "call"
        PROVE  (\E rest : Holds(pending, cursor.task, cursor.call, rest))'
    <3>1. PICK tasks, t, k : tasks = pending /\ t = cursor.task /\ k = cursor.call
      OBVIOUS
    <3>2. PICK rest : Holds(tasks, t, k, rest)
      BY <1>5, <2>3, <3>1 DEF vars, ReservedSpends
    <3>3. Holds(tasks, t, k, rest)'
      BY <2>2, <3>2
    <3>4. pending' = tasks /\ cursor'.task = t /\ cursor'.call = k
      BY <1>5, <3>1 DEF vars
    <3> QED
      BY <3>3, <3>4
  <2> QED
    BY <1>5, <2>3 DEF vars, ReservedSpends
<1> QED
  BY <1>1, <1>2, <1>3, <1>4, <1>5 DEF AgentStep

-----------------------------------------------------------------------------
(* The budget, where a task is charged when it is taken.                   *)

Ahead(r, k) == {PlannedOf(r)[i] : i \in k..Len(PlannedOf(r))}
Owing(r, k) == Event!Fresh(r) \cap Ahead(r, k)

EventSpends ==
  agent = "event" =>
    /\ count <= MaxCalls
    /\ pc = "call" /\ cursor.call > 0 =>
         count + Cardinality(Owing(Current, cursor.call)) <= MaxCalls

LEMMA FreshCalls ==
  ASSUME NEW r, Good(r), agent = "event"
  PROVE  /\ IsFiniteSet(Event!Fresh(r))
         /\ \A t : t \in Event!Fresh(r) <=>
              /\ t \in Range(PlannedOf(r))
              /\ \A o \in obs : Asks(t, r.stock, {}, o) => o.result \notin Reusable
         /\ obs \subseteq obs' => Event!Fresh(r)' \subseteq Event!Fresh(r)
<1>1. Event!Planned(r) = PlannedOf(r) /\ IsFiniteSet(Range(PlannedOf(r)))
  BY PlannedCalls
<1>2. Event!Range(PlannedOf(r)) = Range(PlannedOf(r)) /\ Event!Reusable = Reusable
  BY EventFrame DEF Reusable
<1>3. \A t : t \in Event!Fresh(r) <=>
              /\ t \in Range(PlannedOf(r))
              /\ \A o \in obs : Asks(t, r.stock, {}, o) => o.result \notin Reusable
  BY <1>1, <1>2 DEF Event!Fresh, Event!Found, Asks
<1>4. Event!Fresh(r) \subseteq Range(PlannedOf(r))
  BY <1>3
<1>5. obs \subseteq obs' => Event!Fresh(r)' \subseteq Event!Fresh(r)
  BY DEF Event!Fresh, Event!Found
<1> QED
  BY <1>1, <1>3, <1>4, <1>5, FS_Subset

LEMMA EventCallSpends ==
  ASSUME Base, EventSpends, CallStep, agent = "event"
  PROVE  EventSpends'
<1>1. agent' = agent /\ pc = "call" /\ obs \subseteq obs'
  BY CallKeeps DEF CallStep, Calling
<1>2. PICK r, k : r = Current /\ k = cursor.call
  OBVIOUS
<1>3. /\ Good(r) /\ k \in 0..Len(PlannedOf(r)) /\ k \in Nat /\ Len(PlannedOf(r)) \in Nat
      /\ Len(PlannedOf(r)) = Steps(r) /\ count \in Nat /\ MaxCalls \in Nat /\ First = 0
  <2>1. Good(r) /\ k \in First..Steps(r) /\ k \in Nat /\ Steps(r) \in Nat
    BY <1>1, <1>2, TaskAtHand
  <2>2. Len(PlannedOf(r)) = Steps(r)
    BY <2>1, PlannedCalls DEF Steps, Named
  <2> QED
    BY <2>1, <2>2, AgentAssumption DEF First, Base, Typed
<1>4. /\ count <= MaxCalls /\ (k > 0 => count + Cardinality(Owing(r, k)) <= MaxCalls)
  BY <1>1, <1>2 DEF EventSpends
<1>5. /\ IsFiniteSet(Event!Fresh(r)) /\ Event!Fresh(r)' \subseteq Event!Fresh(r)
      /\ \A t : t \in Event!Fresh(r) <=>
              /\ t \in Range(PlannedOf(r))
              /\ \A p \in obs : Asks(t, r.stock, {}, p) => p.result \notin Reusable
  BY <1>1, <1>3, FreshCalls
<1>6. \A j : IsFiniteSet(Owing(r, j)) /\ Cardinality(Owing(r, j)) \in Nat
  BY <1>5, FS_Subset, FS_CardinalityType DEF Owing
<1>7. ASSUME count' <= MaxCalls,
             Stays(cursor.data) => count' + Cardinality(Owing(r, k + 1)') <= MaxCalls
      PROVE  EventSpends'
  <2> SUFFICES ASSUME pc' = "call", cursor'.call > 0
               PROVE  count' + Cardinality(Owing(Current, cursor.call)') <= MaxCalls
    BY <1>7 DEF EventSpends
  <2>1. Stays(cursor'.data) /\ Current' = r /\ cursor'.call = k + 1
    BY <1>2, <1>3, GoesOn
  <2>2. Stays(cursor.data)
    <3>1. CASE TakesTask
      <4>1. ~ Ends
        BY <1>1, <2>1, TaskAtHand DEF Ends, Stays, Task
      <4> QED
        BY <3>1, <4>1 DEF TakesTask
    <3>2. CASE \E o : NamedCall(o)
      <4>1. ~ Ends
        BY <1>1, <2>1, TaskAtHand DEF Ends, Stays, Task
      <4> QED
        BY <3>2, <4>1 DEF NamedCall, Moves
    <3> QED
      BY <3>1, <3>2 DEF CallStep, SentimentCall, TechnicalFetch, TechnicalCalculation
  <2>3. Owing(Current, cursor.call)' = Owing(r, k + 1)'
    BY <2>1 DEF Owing, Ahead
  <2> QED
    BY <1>7, <2>2, <2>3
<1>8. CASE TakesTask
  <2>1. /\ k = 0 /\ count' = count
        /\ Stays(cursor.data) => Cardinality(Event!Fresh(r)) <= Left
    <3>1. ~ (Ends /\ Stays(cursor.data))
      BY <1>1, TaskAtHand DEF Ends, Stays, Task
    <3>2. /\ k = 0 /\ count' = count
          /\ Cardinality(Event!Fresh(r)) > Left => Ends
      BY <1>2, <1>8 DEF TakesTask
    <3>3. Cardinality(Event!Fresh(r)) \in Nat /\ Left \in Nat
      BY <1>3, <1>5, FS_CardinalityType DEF Left
    <3> QED
      BY <3>1, <3>2, <3>3
  <2>2. Owing(r, k + 1)' \subseteq Event!Fresh(r)
    BY <1>5 DEF Owing
  <2>3. PICK owing : owing = Owing(r, k + 1)'
    OBVIOUS
  <2>4. Cardinality(owing) <= Cardinality(Event!Fresh(r)) /\ Cardinality(owing) \in Nat
        /\ Cardinality(Event!Fresh(r)) \in Nat
    BY <1>5, <2>2, <2>3, FS_Subset, FS_CardinalityType
  <2>5. Stays(cursor.data) => count + Cardinality(owing) <= MaxCalls
    BY <1>3, <1>4, <2>1, <2>4 DEF Left
  <2> QED
    BY <1>4, <1>7, <2>1, <2>3, <2>5
<1>9. CASE \E o : NamedCall(o)
  <2>1. PICK o : NamedCall(o)
    BY <1>9
  <2>2. PICK tool : tool = PlannedOf(r)[k]
    OBVIOUS
  <2>3. k > 0 /\ Gets(o, tool, r.stock, {})
    BY <1>2, <2>1, <2>2 DEF NamedCall
  <2>4. PICK owing, rest : owing = Owing(r, k) /\ rest = Owing(r, k + 1)'
    OBVIOUS
  <2>5. Ahead(r, k + 1) \subseteq Ahead(r, k) \ {tool}
    <3>1. \A i \in k + 1..Len(PlannedOf(r)) :
            i \in k..Len(PlannedOf(r)) /\ i \in 1..Len(PlannedOf(r)) /\ i # k
      BY <1>3
    <3>2. k \in 1..Len(PlannedOf(r))
      BY <1>3, <2>3
    <3>3. \A i \in k + 1..Len(PlannedOf(r)) : PlannedOf(r)[i] # tool
      BY <1>3, <2>2, <3>1, <3>2, PlannedCalls
    <3> QED
      BY <3>1, <3>3 DEF Ahead
  <2>6. rest \subseteq owing \ {tool}
    BY <1>5, <2>4, <2>5 DEF Owing, Ahead
  <2>7. IsFiniteSet(owing) /\ Cardinality(owing) \in Nat
    BY <1>6, <2>4
  <2>8. /\ IsFiniteSet(rest) /\ Cardinality(rest) \in Nat /\ Cardinality(rest) <= Cardinality(owing)
        /\ tool \in owing => Cardinality(rest) + 1 <= Cardinality(owing)
    <3>1. IsFiniteSet(owing \ {tool}) /\ Cardinality(owing \ {tool}) \in Nat
      BY <2>7, FS_RemoveElement, FS_CardinalityType
    <3>2. /\ Cardinality(owing \ {tool}) =
               IF tool \in owing THEN Cardinality(owing) - 1 ELSE Cardinality(owing)
      BY <2>7, FS_RemoveElement
    <3>3. IsFiniteSet(rest) /\ Cardinality(rest) <= Cardinality(owing \ {tool}) /\ Cardinality(rest) \in Nat
      BY <2>6, <3>1, FS_Subset, FS_CardinalityType
    <3> QED
      BY <2>7, <3>1, <3>2, <3>3
  <2>9. CASE count' = count
    BY <1>3, <1>4, <1>7, <2>3, <2>4, <2>7, <2>8, <2>9
  <2>10. CASE count' # count
    <3>1. /\ count' = count + 1
          /\ \A p \in obs : Asks(tool, r.stock, {}, p) => p.result \notin Reusable
      BY <2>3, <2>10 DEF Gets
    <3>2. tool \in Range(PlannedOf(r)) /\ tool \in Ahead(r, k)
      <4>1. k \in 1..Len(PlannedOf(r)) /\ k \in k..Len(PlannedOf(r))
        BY <1>3, <2>3
      <4>2. PlannedOf(r) \in Seq(Range(PlannedOf(r)))
        BY <1>3, PlannedCalls
      <4> QED
        BY <2>2, <4>1, <4>2, Ranged DEF Ahead
    <3>3. tool \in owing
      BY <1>5, <2>4, <3>1, <3>2 DEF Owing
    <3>4. count + 1 <= MaxCalls /\ count + 1 + Cardinality(rest) <= MaxCalls
      BY <1>3, <1>4, <2>3, <2>4, <2>7, <2>8, <3>3
    <3> QED
      BY <1>7, <2>4, <3>1, <3>4
  <2> QED
    BY <2>9, <2>10
<1> QED
  BY <1>8, <1>9 DEF CallStep, SentimentCall, TechnicalFetch, TechnicalCalculation

LEMMA EventSpendsNext ==
  ASSUME Base, EventSpends, AgentStep
  PROVE  EventSpends'
<1>1. CASE SnapshotStep
  BY <1>1 DEF SnapshotStep, EventSpends
<1>2. CASE CallStep
  <2>1. agent' = agent
    BY <1>2 DEF CallStep, Calling
  <2> QED
    BY <1>2, <2>1, EventCallSpends DEF EventSpends
<1>3. CASE RoundStep
  <2>1. UNCHANGED <<agent, count>> /\ cursor' = [task |-> 1, call |-> First, data |-> <<>>]
    BY <1>3 DEF RoundStep, StartStep, Task
  <2>2. agent = "event" => ~ (cursor'.call > 0)
    BY <2>1 DEF First
  <2> QED
    BY <2>1, <2>2 DEF EventSpends
<1>4. CASE PlanStep \/ ReviewStep \/ LastStep \/ RaiseStep
  <2>1. pc' # "call" /\ UNCHANGED <<agent, count>>
    BY <1>4 DEF PlanStep, ReviewStep, LastStep, FinalStep, RaiseStep
  <2> QED
    BY <2>1 DEF EventSpends
<1>5. CASE UNCHANGED vars
  <2>1. Owing(Current, cursor.call)' = Owing(Current, cursor.call)
    BY <1>5 DEF vars, Owing, Ahead, Current, Event!Fresh, Event!Found
  <2> QED
    BY <1>5, <2>1 DEF vars, EventSpends
<1> QED
  BY <1>1, <1>2, <1>3, <1>4, <1>5 DEF AgentStep

-----------------------------------------------------------------------------
(* The budget, where tasks share the calls that are reserved.              *)

Key(o) == [tool |-> o.tool, stock |-> o.stock]

\* The calls reserved for a round, those of them that were made, and the calls that had
\* to be made twice in a round.
Owed    == CallsFor(pending) \ {Key(o) : o \in {p \in obs : p.round < round /\ p.result \in Reusable}}
MadeNow == {Key(o) : o \in {p \in obs : p.round = round}}
Again   == {p \in obs : \E o \in obs : Repeats(o, p) /\ o.round = p.round}

FundamentalSpends ==
  agent = "fundamental" =>
    /\ count <= MaxCalls + Cardinality(Again)
    /\ pc = "call" =>
         /\ IsFiniteSet(CallsFor(pending))
         /\ count + Cardinality(Owed \ MadeNow) <= MaxCalls + Cardinality(Again)
         /\ \A o \in obs : o.round = round /\ o.position = cursor.task =>
              \E i \in 1..cursor.call - 1 : o.tool = PlannedOf(Current)[i]

LEMMA SharedRound ==
  ASSUME Base, FundamentalSpends, RoundStep, agent = "fundamental"
  PROVE  FundamentalSpends'
<1>1. /\ round' = round + 1 /\ UNCHANGED <<agent, obs, count>>
      /\ cursor' = [task |-> 1, call |-> First, data |-> <<>>]
      /\ IsFiniteSet(CallsFor(pending')) /\ Cardinality(CallsFor(pending') \ Answered) <= Left
  BY DEF RoundStep, StartStep, Within, Task
<1>2. \A o \in obs : o.round < round' /\ o.round # round'
  <2>1. (\A o \in obs : o.round \in 0..round) /\ round \in Nat
    BY DEF Base, Typed
  <2> QED
    BY <1>1, <2>1
<1>3. (Owed \ MadeNow)' = CallsFor(pending') \ Answered
  <2>1. MadeNow' = {}
    BY <1>1, <1>2 DEF MadeNow
  <2>2. Fundamental!Reusable = Reusable /\ Reusable' = Reusable
    BY <1>1 DEF Reusable
  <2>3. {Key(o) : o \in {p \in obs : p.round < round /\ p.result \in Reusable}}' = Answered
    <3>1. {p \in obs' : p.round < round' /\ p.result \in Reusable'} =
          {p \in obs : p.result \in Reusable}
      BY <1>1, <1>2, <2>2
    <3> QED
      BY <2>2, <3>1 DEF Answered, Key
  <2>4. CallsFor(pending)' = CallsFor(pending')
    BY DEF CallsFor
  <2> QED
    BY <2>1, <2>3, <2>4 DEF Owed
<1>4. Again' = Again /\ IsFiniteSet(Again) /\ Cardinality(Again) \in Nat
  <2>1. Again' = Again /\ Again \subseteq obs
    BY <1>1 DEF Again, Repeats
  <2> QED
    BY <2>1, FS_Subset, FS_CardinalityType DEF Base, Typed
<1>5. count' + Cardinality((Owed \ MadeNow)') <= MaxCalls + Cardinality(Again')
  <2>1. /\ count \in Nat /\ MaxCalls \in Nat /\ count' = count
        /\ count <= MaxCalls + Cardinality(Again)
    BY <1>1, AgentAssumption DEF Base, Typed, FundamentalSpends
  <2>2. PICK n : n = Cardinality(CallsFor(pending') \ Answered)
    OBVIOUS
  <2>3. n \in Nat /\ n <= Left
    BY <1>1, <2>2, FS_Subset, FS_CardinalityType
  <2>4. count + n <= MaxCalls + Cardinality(Again)
    BY <1>4, <2>1, <2>3 DEF Left
  <2> QED
    BY <1>3, <1>4, <2>1, <2>2, <2>4
<1>6. /\ count' <= MaxCalls + Cardinality(Again)' /\ IsFiniteSet(CallsFor(pending))'
      /\ \A o \in obs' : ~ (o.round = round')
  BY <1>1, <1>2, <1>4 DEF FundamentalSpends, CallsFor
<1> QED
  BY <1>1, <1>4, <1>5, <1>6 DEF FundamentalSpends

LEMMA SharedCall ==
  ASSUME Base, Ground, Places, FundamentalSpends, CallStep, agent = "fundamental"
  PROVE  FundamentalSpends'
<1>1. /\ pc = "call" /\ UNCHANGED <<agent, round>>
      /\ count <= MaxCalls + Cardinality(Again) /\ IsFiniteSet(CallsFor(pending))
      /\ count + Cardinality(Owed \ MadeNow) <= MaxCalls + Cardinality(Again)
      /\ \A q \in obs : q.round = round => q.position \in 1..cursor.task
  BY DEF CallStep, Calling, FundamentalSpends, Places
<1>2. PICK r, k, tool : r = Current /\ k = cursor.call /\ tool = PlannedOf(r)[k]
  OBVIOUS
<1>3. PICK o : Gets(o, tool, r.stock, {})
  BY <1>2 DEF CallStep, NamedCall, TakesTask, SentimentCall, TechnicalFetch, TechnicalCalculation
<1>4. /\ Good(r) /\ r \in Range(pending) /\ k \in 1..Len(PlannedOf(r)) /\ k \in Nat
      /\ Len(PlannedOf(r)) \in Nat /\ cursor.task \in Nat /\ cursor.task \in 1..Len(pending)
      /\ count \in Nat /\ MaxCalls \in Nat
  <2>1. /\ Good(r) /\ r \in Range(pending) /\ k \in First..Steps(r) /\ k \in Nat /\ Steps(r) \in Nat
        /\ cursor.task \in 1..Len(pending) /\ Len(pending) \in Nat
    BY <1>1, <1>2, TaskAtHand
  <2>2. Len(PlannedOf(r)) = Steps(r) /\ First = 1
    BY <2>1, PlannedCalls DEF Steps, Named, First
  <2> QED
    BY <2>1, <2>2, AgentAssumption DEF Base, Typed
<1>5. \A q \in obs : q.round = round /\ q.position = cursor.task =>
        \E i \in 1..k - 1 : q.tool = PlannedOf(r)[i]
  BY <1>1, <1>2 DEF FundamentalSpends
<1>6. tool \in Range(PlannedOf(r)) /\ tool # "snapshot" /\ \A i \in 1..k - 1 : PlannedOf(r)[i] # tool
  <2>1. PlannedOf(r) \in Seq(Range(PlannedOf(r)))
    BY <1>4, PlannedCalls
  <2>2. \A i \in 1..k - 1 : i \in 1..Len(PlannedOf(r)) /\ i # k
    BY <1>4
  <2>3. k = 1 \/ k \in 2..Len(PlannedOf(r))
    BY <1>4
  <2>4. tool # "snapshot"
    BY <1>2, <1>4, <2>3, PlannedCalls
  <2>5. \A i \in 1..k - 1 : PlannedOf(r)[i] # tool
    BY <1>2, <1>4, <2>2, PlannedCalls
  <2>6. tool \in Range(PlannedOf(r))
    BY <1>2, <1>4, <2>1, Ranged
  <2> QED
    BY <2>4, <2>5, <2>6
<1>7. /\ o.tool = tool /\ o.stock = r.stock /\ o.uses = {} /\ obs \subseteq obs'
      /\ \/ obs' = obs /\ count' = count
         \/ /\ o.round = round /\ o.position = cursor.task
            /\ \A p \in obs : Asks(tool, r.stock, {}, p) => p.result \notin Reusable
            /\ obs' = obs \cup {o} /\ count' = count + 1
  BY <1>3 DEF Gets, Asks
<1>8. /\ IsFiniteSet(Again) /\ Cardinality(Again) \in Nat
      /\ IsFiniteSet(Again') /\ Cardinality(Again') \in Nat
      /\ Again \subseteq Again' /\ Again \subseteq obs
  <2>1. Again \subseteq obs /\ Again \subseteq Again' /\ Again' \subseteq obs'
    BY <1>7 DEF Again, Repeats
  <2>2. IsFiniteSet(obs) /\ IsFiniteSet(obs \cup {o})
    BY FS_AddElement DEF Base, Typed
  <2>3. IsFiniteSet(obs')
    BY <1>7, <2>2
  <2> QED
    BY <2>1, <2>2, <2>3, FS_Subset, FS_CardinalityType
<1>9. PICK owed : owed = Owed \ MadeNow
  OBVIOUS
<1>10. IsFiniteSet(owed) /\ Cardinality(owed) \in Nat
  <2>1. owed \subseteq CallsFor(pending)
    BY <1>9 DEF Owed
  <2> QED
    BY <1>1, <2>1, FS_Subset, FS_CardinalityType
<1>11. PICK left : /\ left = CallsFor(pending) \ ({Key(p) : p \in {q \in obs' : q.round < round /\ q.result \in Reusable}}
                                                  \cup {Key(p) : p \in {q \in obs' : q.round = round}})
  OBVIOUS
<1>12. left \subseteq owed
  BY <1>7, <1>9, <1>11 DEF Owed, MadeNow
<1>13. IsFiniteSet(left) /\ Cardinality(left) \in Nat /\ Cardinality(left) <= Cardinality(owed)
  BY <1>10, <1>12, FS_Subset, FS_CardinalityType
<1>14. count' + Cardinality(left) <= MaxCalls + Cardinality(Again')
  <2>1. Cardinality(Again) <= Cardinality(Again')
    BY <1>8, FS_Subset
  <2>2. count + Cardinality(owed) <= MaxCalls + Cardinality(Again)
    BY <1>1, <1>9
  <2>3. CASE obs' = obs /\ count' = count
    BY <1>4, <1>8, <1>10, <1>13, <2>1, <2>2, <2>3
  <2>4. CASE /\ o.round = round /\ o.position = cursor.task
             /\ \A p \in obs : Asks(tool, r.stock, {}, p) => p.result \notin Reusable
             /\ obs' = obs \cup {o} /\ count' = count + 1
    <3>1. PICK key : key = Key(o)
      OBVIOUS
    <3>2. \A p \in obs : Key(p) = key => p.tool = tool /\ p.stock = r.stock /\ p.uses = {}
      BY <1>7, <3>1 DEF Key, Ground, SoundAnswer
    <3>3. key \in CallsFor(pending)
      <4>1. /\ Fundamental!Planned(r) = PlannedOf(r)
            /\ Fundamental!Range(PlannedOf(r)) = Range(PlannedOf(r))
        BY <1>4, PlannedCalls, FundamentalFrame
      <4>2. key \in Fundamental!Calls(r)
        BY <1>6, <1>7, <3>1, <4>1 DEF Fundamental!Calls, Key
      <4> QED
        BY <1>4, <4>2 DEF CallsFor
    <3>4. key \notin left
      <4>1. o \in {q \in obs' : q.round = round}
        BY <2>4
      <4> QED
        BY <1>11, <3>1, <4>1
    <3>5. CASE key \notin MadeNow
      <4>1. key \in owed
        <5>1. ASSUME NEW p \in obs, p.result \in Reusable PROVE Key(p) # key
          <6>1. ~ Asks(tool, r.stock, {}, p)
            BY <2>4, <5>1
          <6> QED
            BY <3>2, <6>1 DEF Asks
        <5>2. key \notin {Key(p) : p \in {q \in obs : q.round < round /\ q.result \in Reusable}}
          BY <5>1
        <5> QED
          BY <1>9, <3>3, <3>5, <5>2 DEF Owed
      <4>2. left \subseteq owed \ {key}
        BY <1>12, <3>4
      <4>3. /\ IsFiniteSet(owed \ {key}) /\ Cardinality(owed \ {key}) = Cardinality(owed) - 1
        BY <1>10, <4>1, FS_RemoveElement
      <4>4. Cardinality(left) <= Cardinality(owed \ {key})
        BY <4>2, <4>3, FS_Subset
      <4> QED
        BY <1>4, <1>8, <1>10, <1>13, <2>1, <2>2, <2>4, <4>3, <4>4
    <3>6. CASE key \in MadeNow
      <4>1. PICK q \in obs : q.round = round /\ Key(q) = key
        BY <3>6 DEF MadeNow
      <4>2. q.tool = tool /\ q.stock = r.stock /\ q.uses = {}
        BY <3>2, <4>1
      <4>3. q.position # cursor.task /\ o \notin obs
        BY <1>5, <1>6, <1>7, <2>4, <4>1, <4>2
      <4>4. q.position < cursor.task
        <5>1. q.position \in 1..cursor.task
          BY <1>1, <4>1
        <5> QED
          BY <1>4, <4>3, <5>1
      <4>5. Repeats(q, o)
        BY <1>6, <1>7, <2>4, <4>1, <4>2, <4>4 DEF Repeats
      <4>6. o \in Again' /\ o \notin Again
        <5>1. o \in obs' /\ q \in obs' /\ Repeats(q, o)' /\ q.round = o.round
          BY <2>4, <4>1, <4>5 DEF Repeats
        <5> QED
          BY <1>8, <4>3, <5>1 DEF Again
      <4>7. Cardinality(Again) + 1 <= Cardinality(Again')
        <5>1. Again \cup {o} \subseteq Again'
          BY <1>8, <4>6
        <5>2. IsFiniteSet(Again \cup {o}) /\ Cardinality(Again \cup {o}) = Cardinality(Again) + 1
          BY <1>8, <4>6, FS_AddElement
        <5>3. Cardinality(Again \cup {o}) <= Cardinality(Again')
          BY <1>8, <5>1, FS_Subset
        <5> QED
          BY <5>2, <5>3
      <4> QED
        BY <1>4, <1>8, <1>10, <1>13, <2>2, <2>4, <4>7
    <3> QED
      BY <3>5, <3>6
  <2> QED
    BY <1>7, <2>3, <2>4
<1>15. count' <= MaxCalls + Cardinality(Again')
  <2>1. count' \in Nat
    BY <1>4, <1>7
  <2> QED
    BY <1>4, <1>8, <1>13, <1>14, <2>1
<1>16. ASSUME pc' = "call"
       PROVE  /\ IsFiniteSet(CallsFor(pending))'
              /\ count' + Cardinality((Owed \ MadeNow)') <= MaxCalls + Cardinality(Again')
              /\ \A p \in obs' : p.round = round' /\ p.position = cursor'.task =>
                   \E i \in 1..cursor'.call - 1 : p.tool = PlannedOf(Current')[i]
  <2>1. /\ pending' = pending
        /\ \/ cursor'.task = cursor.task + 1
           \/ Current' = r /\ cursor'.call = k + 1 /\ cursor'.task = cursor.task
    BY <1>2, <1>16, GoesOn
  <2>2. (Owed \ MadeNow)' = left
    BY <1>1, <1>11, <2>1 DEF Owed, MadeNow, CallsFor, Reusable
  <2>3. IsFiniteSet(CallsFor(pending))'
    BY <1>1, <2>1 DEF CallsFor
  <2>4. ASSUME NEW p \in obs', p.round = round', p.position = cursor'.task
        PROVE  \E i \in 1..cursor'.call - 1 : p.tool = PlannedOf(Current')[i]
    <3>1. p \in obs \/ (p = o /\ p.position = cursor.task)
      BY <1>7
    <3>2. p.position \in 1..cursor.task
      BY <1>1, <1>4, <2>4, <3>1
    <3>3. Current' = r /\ cursor'.call = k + 1 /\ cursor'.task = cursor.task
      BY <1>4, <2>1, <2>4, <3>2
    <3>4. \A i : i \in 1..k - 1 => i \in 1..(k + 1) - 1
      BY <1>4
    <3>5. CASE p \in obs
      BY <1>1, <1>5, <2>4, <3>3, <3>4, <3>5
    <3>6. CASE p = o
      <4>1. k \in 1..(k + 1) - 1
        BY <1>4
      <4> QED
        BY <1>2, <1>7, <3>3, <3>6, <4>1
    <3> QED
      BY <3>1, <3>5, <3>6
  <2> QED
    BY <1>14, <2>2, <2>3, <2>4
<1> QED
  BY <1>15, <1>16 DEF FundamentalSpends, PlannedOf

LEMMA FundamentalSpendsNext ==
  ASSUME Base, Ground, Places, FundamentalSpends, AgentStep
  PROVE  FundamentalSpends'
<1>1. CASE SnapshotStep
  <2>1. IsFiniteSet(obs') /\ count' <= MaxCalls /\ count' \in Nat /\ pc' # "call" /\ MaxCalls \in Nat
    BY <1>1, AgentAssumption DEF SnapshotStep
  <2>2. Again' \subseteq obs'
    BY DEF Again
  <2>3. Cardinality(Again') \in Nat
    BY <2>1, <2>2, FS_Subset, FS_CardinalityType
  <2>4. count' <= MaxCalls + Cardinality(Again')
    BY <2>1, <2>3
  <2> QED
    BY <2>1, <2>4 DEF FundamentalSpends
<1>2. CASE RoundStep
  <2>1. agent' = agent
    BY <1>2 DEF RoundStep, StartStep
  <2> QED
    BY <1>2, <2>1, SharedRound DEF FundamentalSpends
<1>3. CASE CallStep
  <2>1. agent' = agent
    BY <1>3 DEF CallStep, Calling
  <2> QED
    BY <1>3, <2>1, SharedCall DEF FundamentalSpends
<1>4. CASE PlanStep \/ ReviewStep \/ LastStep \/ RaiseStep
  <2>1. pc' # "call" /\ UNCHANGED <<agent, count, obs>>
    BY <1>4 DEF PlanStep, ReviewStep, LastStep, FinalStep, RaiseStep
  <2>2. Again' = Again
    BY <2>1 DEF Again, Repeats
  <2> QED
    BY <2>1, <2>2 DEF FundamentalSpends
<1>5. CASE UNCHANGED vars
  <2>1. /\ (Owed \ MadeNow)' = Owed \ MadeNow /\ Again' = Again
        /\ CallsFor(pending)' = CallsFor(pending) /\ Current' = Current
    BY <1>5 DEF vars, Owed, MadeNow, Again, Repeats, CallsFor, Current, Reusable
  <2> QED
    BY <1>5, <2>1 DEF vars, FundamentalSpends, PlannedOf
<1> QED
  BY <1>1, <1>2, <1>3, <1>4, <1>5 DEF AgentStep

-----------------------------------------------------------------------------
(* The invariant and what it gives.                                        *)

\* What holds in every state: the types and what belongs to each node, what the calls
\* have shown so far, the records that were made, the accounts of the tasks and of the
\* errors, and what the calls may still cost each kind of agent.
Inv ==
  /\ Base /\ Ground /\ Grounded
  /\ Accounts /\ Reports
  /\ Places /\ NoRepeats /\ ReservedSpends /\ EventSpends /\ FundamentalSpends

LEMMA SpendsInit ==
  ASSUME Init
  PROVE  Places /\ NoRepeats /\ ReservedSpends /\ EventSpends /\ FundamentalSpends
<1>1. obs = {} /\ count = 0 /\ pc # "call" /\ MaxCalls \in Nat /\ 0 <= MaxCalls
  BY Starting, AgentAssumption
<1>2. Again = {} /\ Cardinality(Again) = 0
  <2>1. Again = {}
    BY <1>1 DEF Again
  <2> QED
    BY <2>1, FS_EmptySet
<1>3. Places /\ NoRepeats
  BY <1>1 DEF Places, NoRepeats
<1>4. ReservedSpends /\ EventSpends
  BY <1>1 DEF ReservedSpends, EventSpends
<1>5. FundamentalSpends
  BY <1>1, <1>2 DEF FundamentalSpends
<1> QED
  BY <1>3, <1>4, <1>5

LEMMA InvInit ==
  ASSUME Init
  PROVE  Inv
<1>1. Grounded
  BY Starting DEF Grounded
<1> QED
  BY <1>1, BaseInit, GroundInit, AccountsInit, ReportsInit, SpendsInit DEF Inv

LEMMA InvNext ==
  ASSUME Inv, [Next]_vars
  PROVE  Inv'
<1>1. Base /\ Ground /\ Grounded /\ Accounts /\ Reports
  BY DEF Inv
<1>2. Places /\ NoRepeats /\ ReservedSpends /\ EventSpends /\ FundamentalSpends
  BY DEF Inv
<1>3. AgentStep
  BY <1>1, EveryStep
<1>4. Base'
  BY <1>1, <1>3, BaseNext
<1>5. Ground' /\ Grounded'
  BY <1>1, <1>3, <1>4, GroundNext, GroundedNext
<1>6. Accounts' /\ Reports'
  BY <1>1, <1>3, AccountsNext, ReportsNext
<1>7. Places' /\ NoRepeats'
  BY <1>1, <1>2, <1>3, PlacesNext, NoRepeatsNext
<1>8. ReservedSpends' /\ EventSpends' /\ FundamentalSpends'
  BY <1>1, <1>2, <1>3, <1>4, ReservedNext, EventSpendsNext, FundamentalSpendsNext
<1> QED
  BY <1>4, <1>5, <1>6, <1>7, <1>8 DEF Inv

LEMMA SpendsShow ==
  ASSUME Inv
  PROVE  BudgetKept
<1>1. agent \in Agents /\ count \in Nat /\ MaxCalls \in Nat
  BY AgentAssumption DEF Inv, Base, Typed
<1>2. CASE agent = "fundamental"
  <2>1. count <= MaxCalls + Cardinality(Again)
    BY <1>2 DEF Inv, FundamentalSpends
  <2> QED
    BY <1>2, <2>1 DEF Inv, NoRepeats, BudgetKept, Again
<1>3. CASE agent # "fundamental"
  <2>1. count <= MaxCalls
    BY <1>1, <1>3 DEF Inv, ReservedSpends, EventSpends, Reserving, Agents
  <2>2. count <= MaxCalls + 0
    BY <1>1, <2>1
  <2> QED
    BY <1>3, <2>2 DEF Inv, NoRepeats, BudgetKept
<1> QED
  BY <1>2, <1>3

\* In every state the invariant holds.
THEOREM AgentsInvariant == Spec => []Inv
<1>1. Init => Inv
  BY InvInit
<1>2. Inv /\ [Next]_vars => Inv'
  BY InvNext
<1> QED
  BY <1>1, <1>2, PTL DEF Spec

\* Whatever a model writes, what is recorded rests on answers of this run about its
\* target, and a stock was identified before it is queried (finalize and
\* _find_observation of the agents).
THEOREM RecordsAreGrounded == Spec => []EvidenceGrounded
<1>1. Inv => EvidenceGrounded
  BY GroundedBefore DEF Inv, Grounded
<1> QED
  BY <1>1, AgentsInvariant, PTL

\* No accepted task is lost: it is waiting, researched or skipped.  A request is closed as
\* cancelled exactly when a task was skipped and as completed exactly when there is
\* evidence, and a run that raises skipped a task and had a draft, or is one of the
\* technical agent that has no task yet (execute_verification, finalize and
\* _complete_research_request of the agents).
THEOREM TasksAreAccounted == Spec => []EveryTaskAccounted
<1>1. Inv => EveryTaskAccounted
  BY AccountsShow DEF Inv
<1> QED
  BY <1>1, AgentsInvariant, PTL

\* No answer that can be used is asked for again and the limit of calls is kept, but
\* for the calls the fundamental agent repeats (execute_verification of the agents).
THEOREM BudgetIsKept == Spec => []BudgetKept
<1>1. Inv => BudgetKept
  BY SpendsShow
<1> QED
  BY <1>1, AgentsInvariant, PTL

\* A request is closed without new evidence only after a search that answered
\* (_complete_research_request of the agents).
THEOREM NothingFoundTellsTheSearch == Spec => []NothingFoundWasSearched
<1>1. Inv => NothingFoundWasSearched
  BY ReportsShow DEF Inv
<1> QED
  BY <1>1, AgentsInvariant, PTL

=============================================================================

--------------------------- MODULE ResearchProofs ---------------------------
(***************************************************************************)
(* Theorems about Research, for any items, sources, agents, similarities   *)
(* and thresholds: what is stored is well formed, evidence keeps to the    *)
(* kinds of its source, structural verdicts are earned, duplicates are     *)
(* folded with their evidence, groups hold together, and what is decided   *)
(* stays decided.                                                          *)
(***************************************************************************)
EXTENDS Research, FiniteSetTheorems, SequenceTheorems, WellFoundedInduction,
        NaturalsInduction, TLAPS

-----------------------------------------------------------------------------
(* Folds *)

LEMMA SmallestOf ==
    ASSUME NEW T, T \subseteq Nat, T # {}
    PROVE  \E i \in T : \A j \in T : i <= j
  <1> DEFINE R == {ss \in Nat \X Nat : ss[1] < ss[2]}
  <1>1. IsWellFoundedOn(R, Nat)
    BY NatLessThanWellFounded DEF OpToRel
  <1>2. PICK i \in T : \A j \in T : <<j, i>> \notin R
    BY <1>1, WFMin
  <1>3. ASSUME NEW j \in T PROVE i <= j
    <2>1. <<j, i>> \in Nat \X Nat /\ <<j, i>>[1] = j /\ <<j, i>>[2] = i
      OBVIOUS
    <2>2. <<j, i>> \notin R
      BY <1>2
    <2>3. ~ (j < i)
      BY <2>1, <2>2
    <2> QED BY <2>1, <2>3
  <1> QED BY <1>3

LEMMA MinOf ==
    ASSUME NEW T, T \subseteq Nat, T # {}
    PROVE  Min(T) \in T /\ \A j \in T : Min(T) <= j
  <1>1. \E i \in T : \A j \in T : i <= j
    BY SmallestOf
  <1> QED BY <1>1 DEF Min

LEMMA MaxOf ==
    ASSUME NEW n \in Nat, NEW T, T \subseteq 1 .. n, T # {}
    PROVE  Max(T) \in T /\ T \ {Max(T)} \subseteq 1 .. n - 1 /\ n # 0
  <1> DEFINE R == {k \in Nat : n - k \in T}
  <1>1. PICK t \in T : TRUE
    OBVIOUS
  <1>2. n - t \in R
    BY <1>1
  <1>3. PICK k \in R : \A j \in R : k <= j
    BY <1>2, SmallestOf
  <1>4. \A j \in T : n - j \in R
    OBVIOUS
  <1>5. n - k \in T /\ \A j \in T : n - k >= j
    BY <1>3, <1>4
  <1>6. \E x \in T : \A y \in T : x >= y
    BY <1>5
  <1>7. Max(T) \in T /\ \A y \in T : Max(T) >= y
    BY <1>6 DEF Max
  <1> HIDE DEF R
  <1>8. \A y \in T : y \in 1 .. n /\ y \in Int
    OBVIOUS
  <1>9. ASSUME NEW mx \in T, \A y \in T : mx >= y, NEW y \in T, y # mx
        PROVE  y \in 1 .. n - 1
    <2>1. mx \in 1 .. n /\ y \in 1 .. n /\ mx >= y
      BY <1>9
    <2> QED BY <1>9, <2>1
  <1>10. T \ {Max(T)} \subseteq 1 .. n - 1
    BY <1>7, <1>9
  <1>11. n # 0
    BY <1>1, <1>8
  <1> QED BY <1>7, <1>10, <1>11

LEMMA MaxOfAll ==
    ASSUME NEW n \in Nat \ {0}
    PROVE  Max(1 .. n) = n /\ (1 .. n) \ {n} = 1 .. n - 1
  <1>1. Max(1 .. n) \in 1 .. n /\ (1 .. n) \ {Max(1 .. n)} \subseteq 1 .. n - 1
    <2>1. 1 .. n \subseteq 1 .. n /\ 1 .. n # {}
      OBVIOUS
    <2> QED BY <2>1, MaxOf
  <1>2. n \in 1 .. n /\ n \notin 1 .. n - 1
    OBVIOUS
  <1>3. Max(1 .. n) = n
    BY <1>1, <1>2
  <1> QED BY <1>3

\* What a fold computes, a step for every element: for each fold of the model, since the
\* provers cannot take its operator as a parameter.
LEMMA ThoseSteps ==
    ASSUME NEW set, NEW seq, NEW n \in Nat, DOMAIN seq = 1 .. n
    PROVE  \E f : /\ f[0] = <<>> /\ f[n] = Those(seq, set)
                  /\ \A k \in 1 .. n :
                         f[k] = IF seq[k] \in set THEN Append(f[k - 1], seq[k]) ELSE f[k - 1]
  <1> DEFINE Step(acc, x) == IF x \in set THEN Append(acc, x) ELSE acc
             Is(iter, m) == iter = [s \in SUBSET (1 .. m) |->
                                       IF s = {} THEN <<>>
                                       ELSE Step(iter[s \ {Max(s)}], seq[Max(s)])]
  <1>1. \A m \in Nat : \E iter : Is(iter, m)
    <2> DEFINE Bad == {m \in Nat : ~ \E iter : Is(iter, m)}
    <2>1. ASSUME NEW m \in Bad, \A k \in Bad : m <= k PROVE FALSE
      <3>1. CASE m = 0
        <4>1. Is([s \in SUBSET (1 .. 0) |-> <<>>], 0)
          OBVIOUS
        <4> QED BY <3>1, <4>1
      <3>2. CASE m # 0
        <4>1. m - 1 \in Nat /\ m - 1 \notin Bad
          <5>1. m \in Nat
            OBVIOUS
          <5> HIDE DEF Bad
          <5> QED BY <2>1, <3>2, <5>1
        <4>2. PICK g : Is(g, m - 1)
          BY <4>1
        <4> DEFINE iter == [s \in SUBSET (1 .. m) |->
                               IF s = {} THEN <<>>
                               ELSE Step(g[s \ {Max(s)}], seq[Max(s)])]
        <4>3. ASSUME NEW s \in SUBSET (1 .. m), s # {}
              PROVE  iter[s \ {Max(s)}] = g[s \ {Max(s)}]
          <5>1. s \ {Max(s)} \in SUBSET (1 .. m - 1) /\ s \ {Max(s)} \in SUBSET (1 .. m)
            BY <4>3, MaxOf
          <5> QED BY <4>2, <5>1
        <4>4. \A s \in SUBSET (1 .. m) : iter[s] = IF s = {} THEN <<>>
                                          ELSE Step(iter[s \ {Max(s)}], seq[Max(s)])
          BY <4>3
        <4>5. iter = [s \in SUBSET (1 .. m) |-> iter[s]]
          OBVIOUS
        <4> HIDE DEF iter
        <4>6. Is(iter, m)
          BY <4>4, <4>5
        <4> QED BY <2>1, <4>6
      <3> QED BY <3>1, <3>2
    <2>2. Bad \subseteq Nat
      OBVIOUS
    <2>3. Bad = {}
      BY <2>1, <2>2, SmallestOf
    <2> QED BY <2>3
  <1> DEFINE iter == CHOOSE iter : iter = [s \in SUBSET (DOMAIN seq) |->
                         IF s = {} THEN <<>>
                         ELSE IF seq[Max(s)] \in set THEN Append(iter[s \ {Max(s)}], seq[Max(s)]) ELSE iter[s \ {Max(s)}]]
  <1>2. Those(seq, set) = iter[DOMAIN seq]
    BY DEF Those, FoldLeft, MapThenFoldSet
  <1>3. Is(iter, n)
    BY <1>1
  <1> HIDE DEF iter
  <1> DEFINE f == [k \in 0 .. n |-> iter[1 .. k]]
  <1>4. f[0] = <<>> /\ f[n] = Those(seq, set)
    <2>1. 1 .. 0 = {} /\ 0 \in 0 .. n /\ n \in 0 .. n /\ {} \in SUBSET (1 .. n)
      OBVIOUS
    <2>2. iter[{}] = <<>>
      BY <1>3, <2>1
    <2> QED BY <1>2, <2>1, <2>2
  <1>5. ASSUME NEW k \in 1 .. n
        PROVE  f[k] = Step(f[k - 1], seq[k])
    <2>1. 1 .. k \in SUBSET (1 .. n) /\ 1 .. k # {} /\ Max(1 .. k) = k
          /\ (1 .. k) \ {k} = 1 .. k - 1 /\ k - 1 \in 0 .. n
      BY MaxOfAll
    <2>2. iter[1 .. k] = Step(iter[1 .. k - 1], seq[k])
      BY <1>3, <2>1
    <2> QED BY <2>1, <2>2
  <1> QED BY <1>4, <1>5

Considered(twins, kept, i) ==
    IF \E j \in DOMAIN kept : <<kept[j], i>> \in twins THEN kept ELSE Append(kept, i)

KeptBy(f, twins, order, n) ==
    /\ f[0] = <<>> /\ f[n] = Kept(order, twins)
    /\ \A k \in 1 .. n : f[k] = Considered(twins, f[k - 1], order[k])

LEMMA KeptSteps ==
    ASSUME NEW twins, NEW order, NEW n \in Nat, DOMAIN order = 1 .. n
    PROVE  \E f : KeptBy(f, twins, order, n)
  <1> DEFINE Step(acc, x) == IF \E j \in DOMAIN acc : <<acc[j], x>> \in twins THEN acc ELSE Append(acc, x)
             Is(iter, m) == iter = [s \in SUBSET (1 .. m) |->
                                       IF s = {} THEN <<>>
                                       ELSE Step(iter[s \ {Max(s)}], order[Max(s)])]
  <1>1. \A m \in Nat : \E iter : Is(iter, m)
    <2> DEFINE Bad == {m \in Nat : ~ \E iter : Is(iter, m)}
    <2>1. ASSUME NEW m \in Bad, \A k \in Bad : m <= k PROVE FALSE
      <3>1. CASE m = 0
        <4>1. Is([s \in SUBSET (1 .. 0) |-> <<>>], 0)
          OBVIOUS
        <4> QED BY <3>1, <4>1
      <3>2. CASE m # 0
        <4>1. m - 1 \in Nat /\ m - 1 \notin Bad
          <5>1. m \in Nat
            OBVIOUS
          <5> HIDE DEF Bad
          <5> QED BY <2>1, <3>2, <5>1
        <4>2. PICK g : Is(g, m - 1)
          BY <4>1
        <4> DEFINE iter == [s \in SUBSET (1 .. m) |->
                               IF s = {} THEN <<>>
                               ELSE Step(g[s \ {Max(s)}], order[Max(s)])]
        <4>3. ASSUME NEW s \in SUBSET (1 .. m), s # {}
              PROVE  iter[s \ {Max(s)}] = g[s \ {Max(s)}]
          <5>1. s \ {Max(s)} \in SUBSET (1 .. m - 1) /\ s \ {Max(s)} \in SUBSET (1 .. m)
            BY <4>3, MaxOf
          <5> QED BY <4>2, <5>1
        <4>4. \A s \in SUBSET (1 .. m) : iter[s] = IF s = {} THEN <<>>
                                          ELSE Step(iter[s \ {Max(s)}], order[Max(s)])
          BY <4>3
        <4>5. iter = [s \in SUBSET (1 .. m) |-> iter[s]]
          OBVIOUS
        <4> HIDE DEF iter
        <4>6. Is(iter, m)
          BY <4>4, <4>5
        <4> QED BY <2>1, <4>6
      <3> QED BY <3>1, <3>2
    <2>2. Bad \subseteq Nat
      OBVIOUS
    <2>3. Bad = {}
      BY <2>1, <2>2, SmallestOf
    <2> QED BY <2>3
  <1> DEFINE iter == CHOOSE iter : iter = [s \in SUBSET (DOMAIN order) |->
                         IF s = {} THEN <<>>
                         ELSE IF \E j \in DOMAIN iter[s \ {Max(s)}] : <<iter[s \ {Max(s)}][j], order[Max(s)]>> \in twins THEN iter[s \ {Max(s)}] ELSE Append(iter[s \ {Max(s)}], order[Max(s)])]
  <1>2. Kept(order, twins) = iter[DOMAIN order]
    BY DEF Kept, FoldLeft, MapThenFoldSet
  <1>3. Is(iter, n)
    BY <1>1
  <1> HIDE DEF iter
  <1> DEFINE f == [k \in 0 .. n |-> iter[1 .. k]]
  <1>4. f[0] = <<>> /\ f[n] = Kept(order, twins)
    <2>1. 1 .. 0 = {} /\ 0 \in 0 .. n /\ n \in 0 .. n /\ {} \in SUBSET (1 .. n)
      OBVIOUS
    <2>2. iter[{}] = <<>>
      BY <1>3, <2>1
    <2> QED BY <1>2, <2>1, <2>2
  <1>5. ASSUME NEW k \in 1 .. n
        PROVE  f[k] = Step(f[k - 1], order[k])
    <2>1. 1 .. k \in SUBSET (1 .. n) /\ 1 .. k # {} /\ Max(1 .. k) = k
          /\ (1 .. k) \ {k} = 1 .. k - 1 /\ k - 1 \in 0 .. n
      BY MaxOfAll
    <2>2. iter[1 .. k] = Step(iter[1 .. k - 1], order[k])
      BY <1>3, <2>1
    <2> QED BY <2>1, <2>2
  <1> QED BY <1>4, <1>5 DEF Considered, KeptBy

FitBy(f, rows, embedded, item, cluster, n) ==
    /\ f[0] = 0 /\ f[n] = Fit(rows, embedded, item, cluster)
    /\ \A k \in 1 .. n : f[k] = f[k - 1] + Affinity(rows, embedded, item, cluster[k])

LEMMA FitSteps ==
    ASSUME NEW rows, NEW embedded, NEW item, NEW cluster, NEW n \in Nat, DOMAIN cluster = 1 .. n
    PROVE  \E f : FitBy(f, rows, embedded, item, cluster, n)
  <1> DEFINE Step(acc, x) == acc + Affinity(rows, embedded, item, x)
             Is(iter, m) == iter = [s \in SUBSET (1 .. m) |->
                                       IF s = {} THEN 0
                                       ELSE Step(iter[s \ {Max(s)}], cluster[Max(s)])]
  <1>1. \A m \in Nat : \E iter : Is(iter, m)
    <2> DEFINE Bad == {m \in Nat : ~ \E iter : Is(iter, m)}
    <2>1. ASSUME NEW m \in Bad, \A k \in Bad : m <= k PROVE FALSE
      <3>1. CASE m = 0
        <4>1. Is([s \in SUBSET (1 .. 0) |-> 0], 0)
          OBVIOUS
        <4> QED BY <3>1, <4>1
      <3>2. CASE m # 0
        <4>1. m - 1 \in Nat /\ m - 1 \notin Bad
          <5>1. m \in Nat
            OBVIOUS
          <5> HIDE DEF Bad
          <5> QED BY <2>1, <3>2, <5>1
        <4>2. PICK g : Is(g, m - 1)
          BY <4>1
        <4> DEFINE iter == [s \in SUBSET (1 .. m) |->
                               IF s = {} THEN 0
                               ELSE Step(g[s \ {Max(s)}], cluster[Max(s)])]
        <4>3. ASSUME NEW s \in SUBSET (1 .. m), s # {}
              PROVE  iter[s \ {Max(s)}] = g[s \ {Max(s)}]
          <5>1. s \ {Max(s)} \in SUBSET (1 .. m - 1) /\ s \ {Max(s)} \in SUBSET (1 .. m)
            BY <4>3, MaxOf
          <5> QED BY <4>2, <5>1
        <4>4. \A s \in SUBSET (1 .. m) : iter[s] = IF s = {} THEN 0
                                          ELSE Step(iter[s \ {Max(s)}], cluster[Max(s)])
          BY <4>3
        <4>5. iter = [s \in SUBSET (1 .. m) |-> iter[s]]
          OBVIOUS
        <4> HIDE DEF iter
        <4>6. Is(iter, m)
          BY <4>4, <4>5
        <4> QED BY <2>1, <4>6
      <3> QED BY <3>1, <3>2
    <2>2. Bad \subseteq Nat
      OBVIOUS
    <2>3. Bad = {}
      BY <2>1, <2>2, SmallestOf
    <2> QED BY <2>3
  <1> DEFINE iter == CHOOSE iter : iter = [s \in SUBSET (DOMAIN cluster) |->
                         IF s = {} THEN 0
                         ELSE iter[s \ {Max(s)}] + Affinity(rows, embedded, item, cluster[Max(s)])]
  <1>2. Fit(rows, embedded, item, cluster) = iter[DOMAIN cluster]
    BY DEF Fit, FoldLeft, MapThenFoldSet
  <1>3. Is(iter, n)
    BY <1>1
  <1> HIDE DEF iter
  <1> DEFINE f == [k \in 0 .. n |-> iter[1 .. k]]
  <1>4. f[0] = 0 /\ f[n] = Fit(rows, embedded, item, cluster)
    <2>1. 1 .. 0 = {} /\ 0 \in 0 .. n /\ n \in 0 .. n /\ {} \in SUBSET (1 .. n)
      OBVIOUS
    <2>2. iter[{}] = 0
      BY <1>3, <2>1
    <2> QED BY <1>2, <2>1, <2>2
  <1>5. ASSUME NEW k \in 1 .. n
        PROVE  f[k] = Step(f[k - 1], cluster[k])
    <2>1. 1 .. k \in SUBSET (1 .. n) /\ 1 .. k # {} /\ Max(1 .. k) = k
          /\ (1 .. k) \ {k} = 1 .. k - 1 /\ k - 1 \in 0 .. n
      BY MaxOfAll
    <2>2. iter[1 .. k] = Step(iter[1 .. k - 1], cluster[k])
      BY <1>3, <2>1
    <2> QED BY <2>1, <2>2
  <1> QED BY <1>4, <1>5 DEF FitBy

SortedBy(f, rows, order, n) ==
    /\ f[0] = <<>> /\ f[n] = ByConcepts(order, rows)
    /\ \A k \in 1 .. n : f[k] = Inserted(f[k - 1], order[k], rows)

LEMMA SortSteps ==
    ASSUME NEW rows, NEW order, NEW n \in Nat, DOMAIN order = 1 .. n
    PROVE  \E f : SortedBy(f, rows, order, n)
  <1> DEFINE Step(acc, x) == Inserted(acc, x, rows)
             Is(iter, m) == iter = [s \in SUBSET (1 .. m) |->
                                       IF s = {} THEN <<>>
                                       ELSE Step(iter[s \ {Max(s)}], order[Max(s)])]
  <1>1. \A m \in Nat : \E iter : Is(iter, m)
    <2> DEFINE Bad == {m \in Nat : ~ \E iter : Is(iter, m)}
    <2>1. ASSUME NEW m \in Bad, \A k \in Bad : m <= k PROVE FALSE
      <3>1. CASE m = 0
        <4>1. Is([s \in SUBSET (1 .. 0) |-> <<>>], 0)
          OBVIOUS
        <4> QED BY <3>1, <4>1
      <3>2. CASE m # 0
        <4>1. m - 1 \in Nat /\ m - 1 \notin Bad
          <5>1. m \in Nat
            OBVIOUS
          <5> HIDE DEF Bad
          <5> QED BY <2>1, <3>2, <5>1
        <4>2. PICK g : Is(g, m - 1)
          BY <4>1
        <4> DEFINE iter == [s \in SUBSET (1 .. m) |->
                               IF s = {} THEN <<>>
                               ELSE Step(g[s \ {Max(s)}], order[Max(s)])]
        <4>3. ASSUME NEW s \in SUBSET (1 .. m), s # {}
              PROVE  iter[s \ {Max(s)}] = g[s \ {Max(s)}]
          <5>1. s \ {Max(s)} \in SUBSET (1 .. m - 1) /\ s \ {Max(s)} \in SUBSET (1 .. m)
            BY <4>3, MaxOf
          <5> QED BY <4>2, <5>1
        <4>4. \A s \in SUBSET (1 .. m) : iter[s] = IF s = {} THEN <<>>
                                          ELSE Step(iter[s \ {Max(s)}], order[Max(s)])
          BY <4>3
        <4>5. iter = [s \in SUBSET (1 .. m) |-> iter[s]]
          OBVIOUS
        <4> HIDE DEF iter
        <4>6. Is(iter, m)
          BY <4>4, <4>5
        <4> QED BY <2>1, <4>6
      <3> QED BY <3>1, <3>2
    <2>2. Bad \subseteq Nat
      OBVIOUS
    <2>3. Bad = {}
      BY <2>1, <2>2, SmallestOf
    <2> QED BY <2>3
  <1> DEFINE iter == CHOOSE iter : iter = [s \in SUBSET (DOMAIN order) |->
                         IF s = {} THEN <<>>
                         ELSE Inserted(iter[s \ {Max(s)}], order[Max(s)], rows)]
  <1>2. ByConcepts(order, rows) = iter[DOMAIN order]
    BY DEF ByConcepts, FoldLeft, MapThenFoldSet
  <1>3. Is(iter, n)
    BY <1>1
  <1> HIDE DEF iter
  <1> DEFINE f == [k \in 0 .. n |-> iter[1 .. k]]
  <1>4. f[0] = <<>> /\ f[n] = ByConcepts(order, rows)
    <2>1. 1 .. 0 = {} /\ 0 \in 0 .. n /\ n \in 0 .. n /\ {} \in SUBSET (1 .. n)
      OBVIOUS
    <2>2. iter[{}] = <<>>
      BY <1>3, <2>1
    <2> QED BY <1>2, <2>1, <2>2
  <1>5. ASSUME NEW k \in 1 .. n
        PROVE  f[k] = Step(f[k - 1], order[k])
    <2>1. 1 .. k \in SUBSET (1 .. n) /\ 1 .. k # {} /\ Max(1 .. k) = k
          /\ (1 .. k) \ {k} = 1 .. k - 1 /\ k - 1 \in 0 .. n
      BY MaxOfAll
    <2>2. iter[1 .. k] = Step(iter[1 .. k - 1], order[k])
      BY <1>3, <2>1
    <2> QED BY <2>1, <2>2
  <1> QED BY <1>4, <1>5 DEF SortedBy

GroupedBy(f, rows, embedded, order, n) ==
    /\ f[0] = <<>> /\ f[n] = Grouped(order, rows, embedded)
    /\ \A k \in 1 .. n : f[k] = Placed(f[k - 1], rows, embedded, order[k])

LEMMA GroupSteps ==
    ASSUME NEW rows, NEW embedded, NEW order, NEW n \in Nat, DOMAIN order = 1 .. n
    PROVE  \E f : GroupedBy(f, rows, embedded, order, n)
  <1> DEFINE Step(acc, x) == Placed(acc, rows, embedded, x)
             Is(iter, m) == iter = [s \in SUBSET (1 .. m) |->
                                       IF s = {} THEN <<>>
                                       ELSE Step(iter[s \ {Max(s)}], order[Max(s)])]
  <1>1. \A m \in Nat : \E iter : Is(iter, m)
    <2> DEFINE Bad == {m \in Nat : ~ \E iter : Is(iter, m)}
    <2>1. ASSUME NEW m \in Bad, \A k \in Bad : m <= k PROVE FALSE
      <3>1. CASE m = 0
        <4>1. Is([s \in SUBSET (1 .. 0) |-> <<>>], 0)
          OBVIOUS
        <4> QED BY <3>1, <4>1
      <3>2. CASE m # 0
        <4>1. m - 1 \in Nat /\ m - 1 \notin Bad
          <5>1. m \in Nat
            OBVIOUS
          <5> HIDE DEF Bad
          <5> QED BY <2>1, <3>2, <5>1
        <4>2. PICK g : Is(g, m - 1)
          BY <4>1
        <4> DEFINE iter == [s \in SUBSET (1 .. m) |->
                               IF s = {} THEN <<>>
                               ELSE Step(g[s \ {Max(s)}], order[Max(s)])]
        <4>3. ASSUME NEW s \in SUBSET (1 .. m), s # {}
              PROVE  iter[s \ {Max(s)}] = g[s \ {Max(s)}]
          <5>1. s \ {Max(s)} \in SUBSET (1 .. m - 1) /\ s \ {Max(s)} \in SUBSET (1 .. m)
            BY <4>3, MaxOf
          <5> QED BY <4>2, <5>1
        <4>4. \A s \in SUBSET (1 .. m) : iter[s] = IF s = {} THEN <<>>
                                          ELSE Step(iter[s \ {Max(s)}], order[Max(s)])
          BY <4>3
        <4>5. iter = [s \in SUBSET (1 .. m) |-> iter[s]]
          OBVIOUS
        <4> HIDE DEF iter
        <4>6. Is(iter, m)
          BY <4>4, <4>5
        <4> QED BY <2>1, <4>6
      <3> QED BY <3>1, <3>2
    <2>2. Bad \subseteq Nat
      OBVIOUS
    <2>3. Bad = {}
      BY <2>1, <2>2, SmallestOf
    <2> QED BY <2>3
  <1> DEFINE iter == CHOOSE iter : iter = [s \in SUBSET (DOMAIN order) |->
                         IF s = {} THEN <<>>
                         ELSE Placed(iter[s \ {Max(s)}], rows, embedded, order[Max(s)])]
  <1>2. Grouped(order, rows, embedded) = iter[DOMAIN order]
    BY DEF Grouped, FoldLeft, MapThenFoldSet
  <1>3. Is(iter, n)
    BY <1>1
  <1> HIDE DEF iter
  <1> DEFINE f == [k \in 0 .. n |-> iter[1 .. k]]
  <1>4. f[0] = <<>> /\ f[n] = Grouped(order, rows, embedded)
    <2>1. 1 .. 0 = {} /\ 0 \in 0 .. n /\ n \in 0 .. n /\ {} \in SUBSET (1 .. n)
      OBVIOUS
    <2>2. iter[{}] = <<>>
      BY <1>3, <2>1
    <2> QED BY <1>2, <2>1, <2>2
  <1>5. ASSUME NEW k \in 1 .. n
        PROVE  f[k] = Step(f[k - 1], order[k])
    <2>1. 1 .. k \in SUBSET (1 .. n) /\ 1 .. k # {} /\ Max(1 .. k) = k
          /\ (1 .. k) \ {k} = 1 .. k - 1 /\ k - 1 \in 0 .. n
      BY MaxOfAll
    <2>2. iter[1 .. k] = Step(iter[1 .. k - 1], order[k])
      BY <1>3, <2>1
    <2> QED BY <2>1, <2>2
  <1> QED BY <1>4, <1>5 DEF GroupedBy

-----------------------------------------------------------------------------
(* What the folds return *)

\* A sequence with one element more.
LEMMA OneMore ==
    ASSUME NEW S, NEW s \in Seq(S), NEW x \in S
    PROVE  /\ Append(s, x) \in Seq(S) /\ Len(Append(s, x)) = Len(s) + 1
           /\ DOMAIN Append(s, x) = 1 .. Len(s) + 1 /\ Len(s) \in Nat /\ DOMAIN s = 1 .. Len(s)
           /\ \A j \in 1 .. Len(s) : Append(s, x)[j] = s[j]
           /\ Append(s, x)[Len(s) + 1] = x
           /\ ToSet(Append(s, x)) = ToSet(s) \cup {x}
           /\ IsInjective(s) /\ x \notin ToSet(s) => IsInjective(Append(s, x))
  <1> DEFINE t == Append(s, x)
  <1>1. /\ Len(s) \in Nat /\ DOMAIN s = 1 .. Len(s)
        /\ t \in Seq(S) /\ Len(t) = Len(s) + 1 /\ DOMAIN t = 1 .. Len(s) + 1
    OBVIOUS
  <1>2. /\ \A j \in 1 .. Len(s) : t[j] = s[j]
        /\ t[Len(s) + 1] = x
    OBVIOUS
  <1> HIDE DEF t
  <1>3. 1 .. Len(s) + 1 = (1 .. Len(s)) \cup {Len(s) + 1}
    BY <1>1
  <1>4. ToSet(t) = ToSet(s) \cup {x}
    BY <1>1, <1>2, <1>3 DEF ToSet
  <1>5. IsInjective(s) /\ x \notin ToSet(s) => IsInjective(t)
    BY <1>1, <1>2, <1>3 DEF ToSet, IsInjective
  <1> QED BY <1>1, <1>2, <1>4, <1>5 DEF t

LEMMA TwoInARow ==
    ASSUME NEW S, NEW s \in Seq(S), NEW t \in Seq(S)
    PROVE  /\ s \o t \in Seq(S)
           /\ ToSet(s \o t) = ToSet(s) \cup ToSet(t)
           /\ IsInjective(s) /\ IsInjective(t) /\ ToSet(s) \cap ToSet(t) = {}
              => IsInjective(s \o t)
  <1> DEFINE u == s \o t
  <1>1. /\ u \in Seq(S) /\ Len(u) = Len(s) + Len(t)
        /\ \A i \in 1 .. Len(s) + Len(t) :
               u[i] = IF i <= Len(s) THEN s[i] ELSE t[i - Len(s)]
    BY ConcatProperties
  <1>2. /\ DOMAIN s = 1 .. Len(s) /\ DOMAIN t = 1 .. Len(t) /\ DOMAIN u = 1 .. Len(u)
        /\ Len(s) \in Nat /\ Len(t) \in Nat
    BY <1>1, LenProperties
  <1> HIDE DEF u
  <1>3. ASSUME NEW i \in DOMAIN u
        PROVE  \/ i \in DOMAIN s /\ u[i] = s[i]
               \/ i - Len(s) \in DOMAIN t /\ u[i] = t[i - Len(s)]
    BY <1>1, <1>2
  <1>4. \A i \in DOMAIN s : i \in DOMAIN u /\ u[i] = s[i]
    BY <1>1, <1>2
  <1>5. ASSUME NEW i \in DOMAIN t
        PROVE  i + Len(s) \in DOMAIN u /\ u[i + Len(s)] = t[i]
    <2>1. i + Len(s) \in 1 .. Len(s) + Len(t) /\ ~(i + Len(s) <= Len(s))
          /\ (i + Len(s)) - Len(s) = i
      BY <1>2
    <2> QED BY <1>1, <1>2, <2>1
  <1>6. ToSet(u) = ToSet(s) \cup ToSet(t)
    BY <1>3, <1>4, <1>5 DEF ToSet
  <1>7. ASSUME IsInjective(s), IsInjective(t), ToSet(s) \cap ToSet(t) = {}
        PROVE  IsInjective(u)
    <2>1. ASSUME NEW i \in DOMAIN u, NEW j \in DOMAIN u, u[i] = u[j] PROVE i = j
      <3>1. CASE i \in DOMAIN s /\ u[i] = s[i] /\ j \in DOMAIN s /\ u[j] = s[j]
        BY <1>7, <2>1, <3>1 DEF IsInjective
      <3>2. CASE /\ i - Len(s) \in DOMAIN t /\ u[i] = t[i - Len(s)]
                 /\ j - Len(s) \in DOMAIN t /\ u[j] = t[j - Len(s)]
        <4>1. i - Len(s) = j - Len(s)
          BY <1>7, <2>1, <3>2 DEF IsInjective
        <4> QED BY <1>2, <4>1
      <3>3. \A k \in DOMAIN s, m \in DOMAIN t : s[k] # t[m]
        BY <1>7 DEF ToSet
      <3> QED BY <1>3, <2>1, <3>1, <3>2, <3>3
    <2> QED BY <2>1 DEF IsInjective
  <1> QED BY <1>1, <1>6, <1>7 DEF u

\* The elements of a sequence that are in a set.
LEMMA ThoseAre ==
    ASSUME NEW S, NEW seq \in Seq(S), NEW set
    PROVE  /\ Those(seq, set) \in Seq(S)
           /\ ToSet(Those(seq, set)) = ToSet(seq) \cap set
           /\ IsInjective(seq) => IsInjective(Those(seq, set))
  <1> DEFINE n == Len(seq)
             seen(k) == {seq[m] : m \in 1 .. k}
  <1>1. n \in Nat /\ DOMAIN seq = 1 .. n /\ \A k \in 1 .. n : seq[k] \in S
    BY LenProperties, ElementOfSeq
  <1>2. PICK f : /\ f[0] = <<>> /\ f[n] = Those(seq, set)
                 /\ \A k \in 1 .. n : f[k] = IF seq[k] \in set THEN Append(f[k - 1], seq[k])
                                             ELSE f[k - 1]
    BY <1>1, ThoseSteps
  <1> DEFINE Fine(k) == /\ f[k] \in Seq(S) /\ ToSet(f[k]) = seen(k) \cap set
                        /\ IsInjective(seq) => IsInjective(f[k])
             Bad == {k \in 0 .. n : ~Fine(k)}
  <1> HIDE DEF n
  <1>3. ASSUME NEW k \in 0 .. n, ~Fine(k), \A j \in 0 .. n : ~Fine(j) => k <= j PROVE FALSE
    <2>1. CASE k = 0
      <3>1. seen(0) = {} /\ ToSet(<<>>) = {} /\ IsInjective(<<>>) /\ <<>> \in Seq(S)
        BY EmptySeq DEF ToSet, IsInjective
      <3> QED BY <1>2, <1>3, <2>1, <3>1
    <2>2. CASE k # 0
      <3>1. k \in 1 .. n /\ k - 1 \in 0 .. n /\ ~(k <= k - 1)
        BY <1>1, <2>2
      <3>2. Fine(k - 1)
        BY <1>3, <3>1
      <3>3. f[k] = IF seq[k] \in set THEN Append(f[k - 1], seq[k]) ELSE f[k - 1]
        BY <1>2, <3>1
      <3>4. seen(k) = seen(k - 1) \cup {seq[k]}
        <4>1. 1 .. k = (1 .. k - 1) \cup {k}
          BY <3>1
        <4> QED BY <4>1
      <3>5. IsInjective(seq) => seq[k] \notin seen(k - 1)
        BY <1>1, <3>1 DEF IsInjective
      <3> HIDE DEF seen
      <3>6. CASE seq[k] \in set
        <4> DEFINE s == f[k - 1]
        <4>1. s \in Seq(S) /\ seq[k] \in S /\ f[k] = Append(s, seq[k])
          BY <1>1, <3>1, <3>2, <3>3, <3>6
        <4>2. ToSet(s) = seen(k - 1) \cap set /\ (IsInjective(seq) => IsInjective(s))
          BY <3>2
        <4> HIDE DEF s
        <4>3. /\ Append(s, seq[k]) \in Seq(S)
              /\ ToSet(Append(s, seq[k])) = ToSet(s) \cup {seq[k]}
              /\ IsInjective(s) /\ seq[k] \notin ToSet(s) => IsInjective(Append(s, seq[k]))
          BY <4>1, OneMore
        <4> QED BY <1>3, <3>4, <3>5, <3>6, <4>1, <4>2, <4>3
      <3>7. CASE seq[k] \notin set
        BY <1>3, <3>2, <3>3, <3>4, <3>7
      <3> QED BY <3>6, <3>7
    <2> QED BY <2>1, <2>2
  <1>4. Bad \subseteq Nat
    BY <1>1
  <1>5. Bad = {}
    BY <1>3, <1>4, SmallestOf
  <1>6. n \in 0 .. n /\ n \notin Bad
    <2>1. n \in 0 .. n
      BY <1>1
    <2> HIDE DEF Bad
    <2> QED BY <1>5, <2>1
  <1>7. seen(n) = ToSet(seq)
    BY <1>1 DEF ToSet
  <1> QED BY <1>2, <1>6, <1>7

\* A pass keeps items in their order, no two of them twins, and drops twins of these alone.
LEMMA KeptAre ==
    ASSUME NEW S, NEW order \in Seq(S), NEW twins
    PROVE  /\ Kept(order, twins) \in Seq(S)
           /\ ToSet(Kept(order, twins)) \subseteq ToSet(order)
           /\ IsInjective(order) => IsInjective(Kept(order, twins))
           /\ \A a, b \in DOMAIN Kept(order, twins) :
                  a < b => <<Kept(order, twins)[a], Kept(order, twins)[b]>> \notin twins
           /\ \A i \in ToSet(order) \ ToSet(Kept(order, twins)) :
                  \E a \in DOMAIN Kept(order, twins) : <<Kept(order, twins)[a], i>> \in twins
  <1> DEFINE n == Len(order)
             seen(k) == {order[m] : m \in 1 .. k}
  <1>1. n \in Nat /\ DOMAIN order = 1 .. n /\ \A k \in 1 .. n : order[k] \in S
    BY LenProperties, ElementOfSeq
  <1> HIDE DEF n
  <1>2. PICK f : KeptBy(f, twins, order, n)
    BY <1>1, KeptSteps
  <1> DEFINE Apart(s) == \A a, b \in DOMAIN s : a < b => <<s[a], s[b]>> \notin twins
             Covers(s, k) == \A i \in seen(k) \ ToSet(s) : \E a \in DOMAIN s : <<s[a], i>> \in twins
             Fine(k) == /\ f[k] \in Seq(S) /\ ToSet(f[k]) \subseteq seen(k)
                        /\ IsInjective(order) => IsInjective(f[k])
                        /\ Apart(f[k]) /\ Covers(f[k], k)
             Bad == {k \in 0 .. n : ~Fine(k)}
  <1>3. ASSUME NEW k \in 0 .. n, ~Fine(k), \A j \in 0 .. n : ~Fine(j) => k <= j PROVE FALSE
    <2>1. CASE k = 0
      <3>1. seen(0) = {} /\ ToSet(<<>>) = {} /\ IsInjective(<<>>) /\ <<>> \in Seq(S)
        BY EmptySeq DEF ToSet, IsInjective
      <3>2. Apart(<<>>) /\ Covers(<<>>, 0)
        BY <3>1
      <3> HIDE DEF Apart, Covers, seen
      <3> QED BY <1>2, <1>3, <2>1, <3>1, <3>2 DEF KeptBy
    <2>2. CASE k # 0
      <3> DEFINE s == f[k - 1]
      <3>1. k \in 1 .. n /\ k - 1 \in 0 .. n /\ ~(k <= k - 1)
        BY <1>1, <2>2
      <3>2. Fine(k - 1)
        BY <1>3, <3>1
      <3>3. f[k] = IF \E j \in DOMAIN s : <<s[j], order[k]>> \in twins
                   THEN s ELSE Append(s, order[k])
        BY <1>2, <3>1 DEF KeptBy, Considered
      <3>4. seen(k) = seen(k - 1) \cup {order[k]}
        <4>1. 1 .. k = (1 .. k - 1) \cup {k}
          BY <3>1
        <4> QED BY <4>1
      <3>5. IsInjective(order) => order[k] \notin seen(k - 1)
        BY <1>1, <3>1 DEF IsInjective
      <3>6. /\ s \in Seq(S) /\ ToSet(s) \subseteq seen(k - 1)
            /\ IsInjective(order) => IsInjective(s)
            /\ Apart(s) /\ Covers(s, k - 1) /\ order[k] \in S
        BY <1>1, <3>1, <3>2
      <3> HIDE DEF s, seen
      <3>7. CASE \E j \in DOMAIN s : <<s[j], order[k]>> \in twins
        <4>1. f[k] = s
          BY <3>3, <3>7
        <4>2. Covers(s, k)
          BY <3>4, <3>6, <3>7
        <4>3. ToSet(s) \subseteq seen(k)
          BY <3>4, <3>6
        <4> HIDE DEF Apart, Covers
        <4> QED BY <1>3, <3>6, <4>1, <4>2, <4>3
      <3>8. CASE ~ \E j \in DOMAIN s : <<s[j], order[k]>> \in twins
        <4> DEFINE t == Append(s, order[k])
        <4>1. f[k] = t
          BY <3>3, <3>8
        <4>2. /\ t \in Seq(S) /\ DOMAIN t = 1 .. Len(s) + 1
              /\ Len(s) \in Nat /\ DOMAIN s = 1 .. Len(s)
              /\ \A j \in 1 .. Len(s) : t[j] = s[j]
              /\ t[Len(s) + 1] = order[k]
              /\ ToSet(t) = ToSet(s) \cup {order[k]}
              /\ IsInjective(s) /\ order[k] \notin ToSet(s) => IsInjective(t)
          BY <3>6, OneMore
        <4> HIDE DEF t
        <4>3. Apart(t)
          <5>1. ASSUME NEW a \in DOMAIN t, NEW b \in DOMAIN t, a < b
                PROVE  <<t[a], t[b]>> \notin twins
            <6>1. a \in DOMAIN s /\ t[a] = s[a]
              BY <4>2, <5>1
            <6>2. CASE b \in DOMAIN s
              BY <3>6, <4>2, <5>1, <6>1, <6>2
            <6>3. CASE b \notin DOMAIN s
              <7>1. b = Len(s) + 1
                BY <4>2, <6>3
              <7> QED BY <3>8, <4>2, <6>1, <7>1
            <6> QED BY <6>2, <6>3
          <5> QED BY <5>1
        <4>4. Covers(t, k)
          <5>1. ASSUME NEW i \in seen(k) \ ToSet(t)
                PROVE  \E a \in DOMAIN t : <<t[a], i>> \in twins
            <6>1. i \in seen(k - 1) \ ToSet(s)
              BY <3>4, <4>2
            <6>2. PICK a \in DOMAIN s : <<s[a], i>> \in twins
              BY <3>6, <6>1
            <6>3. a \in DOMAIN t /\ t[a] = s[a]
              BY <4>2
            <6> QED BY <6>2, <6>3
          <5> QED BY <5>1
        <4>5. ToSet(t) \subseteq seen(k) /\ (IsInjective(order) => IsInjective(t))
          BY <3>4, <3>5, <3>6, <4>2
        <4> HIDE DEF Apart, Covers
        <4> QED BY <1>3, <4>1, <4>2, <4>3, <4>4, <4>5
      <3> QED BY <3>7, <3>8
    <2> QED BY <2>1, <2>2
  <1>4. Bad \subseteq Nat
    BY <1>1
  <1>5. Bad = {}
    BY <1>3, <1>4, SmallestOf
  <1>6. n \in 0 .. n /\ n \notin Bad
    <2>1. n \in 0 .. n
      BY <1>1
    <2> HIDE DEF Bad
    <2> QED BY <1>5, <2>1
  <1>7. seen(n) = ToSet(order)
    BY <1>1 DEF ToSet
  <1> HIDE DEF seen
  <1>8. Fine(n)
    BY <1>6
  <1> QED BY <1>2, <1>7, <1>8 DEF KeptBy

-----------------------------------------------------------------------------
(* Kinds *)

LEMMA KindsAre ==
    Kinds = {"anecdotal_practical", "community", "author_claim", "adoption",
             "practical", "independent_verification", "scientific"}
  <1>1. DOMAIN KindRank = 1..7
    BY DEF KindRank
  <1>2. /\ KindRank[1] = "anecdotal_practical" /\ KindRank[2] = "community"
        /\ KindRank[3] = "author_claim" /\ KindRank[4] = "adoption"
        /\ KindRank[5] = "practical" /\ KindRank[6] = "independent_verification"
        /\ KindRank[7] = "scientific"
    BY DEF KindRank
  <1>3. 1..7 = {1, 2, 3, 4, 5, 6, 7}
    OBVIOUS
  <1> QED BY <1>2, <1>3 DEF Kinds

\* The weakest of some kinds is one of them.
LEMMA WeakestIsOneOfThem ==
    ASSUME NEW kinds, kinds \subseteq Kinds, kinds # {}
    PROVE  Weakest(kinds) \in kinds
  <1> DEFINE ranks == {n \in 1..7 : KindRank[n] \in kinds}
  <1>1. PICK n \in ranks : TRUE
    BY DEF Kinds
  <1>2. ranks \subseteq Nat
    OBVIOUS
  <1>3. \E n0 \in ranks : \A m \in ranks : n0 <= m
    <2>1. CASE 1 \in ranks
      BY <2>1
    <2>2. CASE 1 \notin ranks /\ 2 \in ranks
      BY <2>2
    <2>3. CASE 1 \notin ranks /\ 2 \notin ranks /\ 3 \in ranks
      BY <2>3
    <2>4. CASE 1 \notin ranks /\ 2 \notin ranks /\ 3 \notin ranks /\ 4 \in ranks
      BY <2>4
    <2>5. CASE /\ 1 \notin ranks /\ 2 \notin ranks /\ 3 \notin ranks /\ 4 \notin ranks
               /\ 5 \in ranks
      BY <2>5
    <2>6. CASE /\ 1 \notin ranks /\ 2 \notin ranks /\ 3 \notin ranks /\ 4 \notin ranks
               /\ 5 \notin ranks /\ 6 \in ranks
      BY <2>6
    <2>7. CASE /\ 1 \notin ranks /\ 2 \notin ranks /\ 3 \notin ranks /\ 4 \notin ranks
               /\ 5 \notin ranks /\ 6 \notin ranks
      BY <1>1, <2>7
    <2> QED BY <2>1, <2>2, <2>3, <2>4, <2>5, <2>6, <2>7
  <1>4. (CHOOSE n0 \in ranks : \A m \in ranks : n0 <= m) \in ranks
    BY <1>3
  <1> QED BY <1>1, <1>4 DEF Weakest

\* Every source can support something.
LEMMA SourcesSupportKinds ==
    ASSUME NEW source
    PROVE  SourceKinds(source) \subseteq Kinds /\ SourceKinds(source) # {}
  BY KindsAre DEF SourceKinds

\* What an agent may use of a source is something the source can support.
LEMMA AllowedAreSupported ==
    ASSUME NEW source, NEW declared
    PROVE  /\ AllowedKinds(source, declared) \subseteq SourceKinds(source)
           /\ AllowedKinds(source, declared) # {}
  BY SourcesSupportKinds DEF AllowedKinds

\* A piece of an item of that source, whatever kind is stated, is of a kind it supports.
LEMMA PiecesAreClamped ==
    ASSUME NEW item, NEW about, NEW kind, NEW strength, NEW sources,
           NEW source, NEW declared
    PROVE  LET e == ForSource(item, about, kind, strength,
                              AllowedKinds(source, declared), sources)
           IN  e.of = item /\ e.kind \in SourceKinds(source) /\ e.sources = sources
  <1>1. AllowedKinds(source, declared) \subseteq Kinds
    BY AllowedAreSupported, SourcesSupportKinds
  <1>2. Weakest(AllowedKinds(source, declared)) \in SourceKinds(source)
    BY <1>1, WeakestIsOneOfThem, AllowedAreSupported
  <1> QED BY <1>2, AllowedAreSupported DEF ForSource

-----------------------------------------------------------------------------
(* Maturity *)

Sources == {Origin[i] : i \in Item} \cup {"hackernews", "github_discussion"}

\* A piece as the agents write it.
GoodPiece(e) ==
    e.of \in Item /\ e.kind \in SourceKinds(Origin[e.of]) /\ e.sources \subseteq Sources

\* A maturity that opens structural changes is computed of such evidence alone.
LEMMA ComputedIsEarned ==
    ASSUME NEW evidence, NEW size, \A e \in evidence : GoodPiece(e),
           ComputeMaturity(evidence, size) \in {"consolidating", "mature"}
    PROVE  Earned(evidence)
  <1>1. IsFiniteSet(Sources)
    <2> DEFINE Origins == {Origin[i] : i \in Item}
    <2>1. [i \in Item |-> Origin[i]] \in Surjection(Item, Origins)
      BY DEF Surjection
    <2>2. IsFiniteSet(Item)
      BY ResearchAssumption
    <2>3. IsFiniteSet(Origins)
      BY <2>1, <2>2, FS_Surjection
    <2>4. IsFiniteSet({"hackernews", "github_discussion"})
      <3>1. /\ IsFiniteSet({"hackernews"}) /\ IsFiniteSet({"github_discussion"})
            /\ {"hackernews", "github_discussion"} = {"hackernews"} \cup {"github_discussion"}
        BY FS_Singleton
      <3> QED BY <3>1, FS_Union
    <2>5. Sources = Origins \cup {"hackernews", "github_discussion"}
      BY DEF Sources
    <2> HIDE DEF Origins
    <2> QED BY <2>3, <2>4, <2>5, FS_Union
  <1>2. SourcesOf(evidence) \subseteq Sources
    BY DEF SourcesOf, GoodPiece
  <1>3. Cardinality(SourcesOf(evidence)) \in Nat
    BY <1>1, <1>2, FS_Subset, FS_CardinalityType
  <1>4. ComputeMaturity(evidence, size) \in {"emerging", "speculative"} \/
           /\ Has(evidence, {"scientific"})
           /\ \/ Has(evidence, {"independent_verification"})
              \/ Has(evidence, {"practical", "adoption"})
           /\ Cardinality(SourcesOf(evidence)) >= 3
    BY <1>3 DEF ComputeMaturity
  <1> QED BY <1>4 DEF Earned, Has

LEMMA ComputedIsALevel ==
    ASSUME NEW evidence, NEW size
    PROVE  ComputeMaturity(evidence, size) \in
               {"speculative", "emerging", "consolidating", "mature"}
  BY DEF ComputeMaturity

LEMMA LevelsAre ==
    /\ Level("speculative") = 1 /\ Level("emerging") = 2
    /\ Level("consolidating") = 3 /\ Level("mature") = 4
  <1>1. /\ MaturityOrder[1] = "speculative" /\ MaturityOrder[2] = "emerging"
        /\ MaturityOrder[3] = "consolidating" /\ MaturityOrder[4] = "mature"
    BY DEF MaturityOrder
  <1>2. 1..4 = {1, 2, 3, 4}
    OBVIOUS
  <1>3. Level("speculative") = 1
    <2>1. \A n \in 1..4 : MaturityOrder[n] = "speculative" <=> n = 1
      BY <1>1, <1>2
    <2> QED BY <2>1 DEF Level
  <1>4. Level("emerging") = 2
    <2>1. \A n \in 1..4 : MaturityOrder[n] = "emerging" <=> n = 2
      BY <1>1, <1>2
    <2> QED BY <2>1 DEF Level
  <1>5. Level("consolidating") = 3
    <2>1. \A n \in 1..4 : MaturityOrder[n] = "consolidating" <=> n = 3
      BY <1>1, <1>2
    <2> QED BY <2>1 DEF Level
  <1>6. Level("mature") = 4
    <2>1. \A n \in 1..4 : MaturityOrder[n] = "mature" <=> n = 4
      BY <1>1, <1>2
    <2> QED BY <2>1 DEF Level
  <1> QED BY <1>3, <1>4, <1>5, <1>6

\* What a model states does not lift the maturity over what was computed.
LEMMA MaturityIsCapped ==
    ASSUME NEW stated \in Maturities,
           NEW computed \in {"speculative", "emerging", "consolidating", "mature"},
           MinMaturity(stated, computed) \in {"consolidating", "mature"}
    PROVE  computed \in {"consolidating", "mature"}
  BY LevelsAre DEF MinMaturity, Maturities

-----------------------------------------------------------------------------
(* Deduplication *)

LEMMA OrdersAre ==
    ASSUME NEW D, IsFiniteSet(D), NEW order \in SetToSeqs(D)
    PROVE  order \in Seq(D) /\ IsInjective(order) /\ ToSet(order) = D
  <1> DEFINE n == Cardinality(D)
  <1>1. n \in Nat
    BY FS_CardinalityType
  <1>2. order \in [1 .. n -> D] /\ \A i, j \in 1 .. n : i # j => order[i] # order[j]
    BY DEF SetToSeqs
  <1>3. order \in Injection(1 .. n, D)
    BY <1>2 DEF Injection, IsInjective
  <1>4. Cardinality(1 .. n) = n
    <2>1. 1 \in Int /\ n \in Int
      BY <1>1
    <2> HIDE DEF n
    <2>2. Cardinality(1 .. n) = IF 1 > n THEN 0 ELSE n - 1 + 1
      BY <2>1, FS_Interval
    <2> QED BY <1>1, <2>2
  <1>5. order \in Surjection(1 .. n, D)
    BY <1>3, <1>4, FS_Injection
  <1>6. ToSet(order) = D
    BY <1>2, <1>5 DEF Surjection, ToSet
  <1>7. order \in Seq(D)
    BY <1>1, <1>2
  <1>8. IsInjective(order)
    BY <1>2 DEF IsInjective
  <1> QED BY <1>6, <1>7, <1>8

\* The evidence of some rows.
EvidenceOf(rows, items) == UNION {rows[i].evidence : i \in items}

FiniteRows(rows) ==
    IsFiniteSet(DOMAIN rows) /\ \A i \in DOMAIN rows : IsFiniteSet(rows[i].concepts)

LEMMA MergedIsFinite ==
    ASSUME NEW rows, FiniteRows(rows), NEW keeper \in DOMAIN rows, NEW others \in SUBSET DOMAIN rows
    PROVE  IsFiniteSet(Merged(rows, keeper, others).concepts)
  <1> DEFINE X == others \cup {keeper}
             C == {rows[i].concepts : i \in X}
             g == [i \in X |-> rows[i].concepts]
  <1>1. IsFiniteSet(X)
    <2>1. X \in SUBSET DOMAIN rows
      OBVIOUS
    <2> HIDE DEF X
    <2> QED BY <2>1, FS_Subset DEF FiniteRows
  <1>2. g \in Surjection(X, C)
    BY DEF Surjection
  <1>3. IsFiniteSet(C)
    <2> HIDE DEF g, C, X
    <2> QED BY <1>1, <1>2, FS_Surjection
  <1>4. \A T \in C : IsFiniteSet(T)
    BY DEF FiniteRows
  <1>5. IsFiniteSet(UNION C)
    <2> HIDE DEF C
    <2> QED BY <1>3, <1>4, FS_UNION
  <1> QED BY <1>5 DEF Merged

\* A pass folds rows into rows that stay: nothing that counts is lost.
LEMMA PassIs ==
    ASSUME NEW S, NEW order \in Seq(S), NEW rows, S \subseteq DOMAIN rows, NEW twins
    PROVE  /\ Pass(order, rows, twins).kept = Kept(order, twins)
           /\ DOMAIN Pass(order, rows, twins).rows = DOMAIN rows
           /\ \A i \in DOMAIN rows :
                  Pass(order, rows, twins).rows[i].identity = rows[i].identity
           /\ EvidenceOf(Pass(order, rows, twins).rows, ToSet(Kept(order, twins)))
              = EvidenceOf(rows, ToSet(order))
           /\ FiniteRows(rows) => FiniteRows(Pass(order, rows, twins).rows)
  <1> DEFINE kept == Kept(order, twins)
             among(i) == {n \in DOMAIN kept : <<kept[n], i>> \in twins}
             folded(j) == {i \in DOMAIN rows : /\ i \in ToSet(order) \ ToSet(kept)
                                              /\ kept[Min(among(i))] = j}
             left == [j \in DOMAIN rows |-> Merged(rows, j, folded(j))]
  <1>1. Pass(order, rows, twins) = [kept |-> kept, rows |-> left]
    BY DEF Pass
  <1>2. /\ kept \in Seq(S) /\ ToSet(kept) \subseteq ToSet(order)
        /\ \A i \in ToSet(order) \ ToSet(kept) : among(i) # {}
    <2>1. \A i \in ToSet(order) \ ToSet(kept) : \E a \in DOMAIN kept : <<kept[a], i>> \in twins
      BY KeptAre
    <2>2. kept \in Seq(S) /\ ToSet(kept) \subseteq ToSet(order)
      BY KeptAre
    <2> QED BY <2>1, <2>2
  <1>3. DOMAIN kept \subseteq Nat /\ ToSet(order) \subseteq DOMAIN rows
    <2>1. DOMAIN kept = 1 .. Len(kept)
      BY <1>2
    <2>2. DOMAIN order = 1 .. Len(order) /\ \A k \in 1 .. Len(order) : order[k] \in S
      BY LenProperties, ElementOfSeq
    <2> QED BY <2>1, <2>2 DEF ToSet
  <1> HIDE DEF kept
  <1>4. ASSUME NEW i \in ToSet(order) \ ToSet(kept)
        PROVE  kept[Min(among(i))] \in ToSet(kept)
    <2>1. among(i) # {} /\ among(i) \subseteq Nat
      BY <1>2, <1>3
    <2>2. Min(among(i)) \in among(i)
      <3> HIDE DEF among
      <3> QED BY <2>1, MinOf
    <2> QED BY <2>2 DEF ToSet
  <1>5. \A j \in DOMAIN rows : left[j].evidence = EvidenceOf(rows, folded(j) \cup {j})
    BY DEF Merged, EvidenceOf
  <1>6. \A j \in DOMAIN rows : folded(j) \subseteq ToSet(order)
    OBVIOUS
  <1>7. \A i \in ToSet(order) \ ToSet(kept) : i \in folded(kept[Min(among(i))])
    BY <1>3
  <1>8. DOMAIN left = DOMAIN rows /\ \A i \in DOMAIN rows : left[i].identity = rows[i].identity
    BY DEF Merged
  <1>9. FiniteRows(rows) => FiniteRows(left)
    <2>1. \A j \in DOMAIN rows : folded(j) \in SUBSET DOMAIN rows /\ left[j] = Merged(rows, j, folded(j))
      OBVIOUS
    <2> HIDE DEF left, folded
    <2>2. ASSUME FiniteRows(rows), NEW j \in DOMAIN rows
          PROVE  IsFiniteSet(left[j].concepts)
      BY <2>1, <2>2, MergedIsFinite
    <2> QED BY <1>8, <2>2 DEF FiniteRows
  <1> HIDE DEF left, folded, among
  <1>10. EvidenceOf(left, ToSet(kept)) = EvidenceOf(rows, ToSet(order))
    <2>1. ASSUME NEW e, NEW j \in ToSet(kept), e \in left[j].evidence
          PROVE  e \in EvidenceOf(rows, ToSet(order))
      <3>1. j \in DOMAIN rows /\ folded(j) \cup {j} \subseteq ToSet(order)
        BY <1>2, <1>3, <1>6
      <3>2. e \in EvidenceOf(rows, folded(j) \cup {j})
        BY <1>5, <2>1, <3>1
      <3> QED BY <3>1, <3>2 DEF EvidenceOf
    <2>2. ASSUME NEW e, NEW i \in ToSet(order), e \in rows[i].evidence
          PROVE  e \in EvidenceOf(left, ToSet(kept))
      <3>1. CASE i \in ToSet(kept)
        <4>1. i \in DOMAIN rows /\ e \in EvidenceOf(rows, folded(i) \cup {i})
          BY <1>3, <2>2 DEF EvidenceOf
        <4>2. e \in left[i].evidence
          BY <1>5, <4>1
        <4> QED BY <3>1, <4>2 DEF EvidenceOf
      <3>2. CASE i \notin ToSet(kept)
        <4> DEFINE j == kept[Min(among(i))]
        <4>1. j \in ToSet(kept) /\ j \in DOMAIN rows /\ i \in folded(j)
          BY <1>2, <1>3, <1>4, <1>7, <3>2
        <4> HIDE DEF j
        <4>2. e \in EvidenceOf(rows, folded(j) \cup {j})
          BY <2>2, <4>1 DEF EvidenceOf
        <4>3. e \in left[j].evidence
          BY <1>5, <4>1, <4>2
        <4> QED BY <4>1, <4>3 DEF EvidenceOf
      <3> QED BY <3>1, <3>2
    <2>3. \A e : e \in EvidenceOf(left, ToSet(kept)) <=> \E j \in ToSet(kept) : e \in left[j].evidence
      BY DEF EvidenceOf
    <2>4. \A e : e \in EvidenceOf(rows, ToSet(order)) <=> \E i \in ToSet(order) : e \in rows[i].evidence
      BY DEF EvidenceOf
    <2> QED BY <2>1, <2>2, <2>3, <2>4
  <1> QED BY <1>1, <1>8, <1>9, <1>10 DEF kept

\* Of one paper one item is left, with the evidence of the others.
LEMMA DeduplicatedIs ==
    ASSUME NEW rows, IsFiniteSet(DOMAIN rows), NEW order \in SetToSeqs(DOMAIN rows), NEW embedded
    PROVE  LET unique == Deduplicated(order, rows, embedded)
           IN  /\ DOMAIN unique.rows = DOMAIN rows
               /\ unique.kept \in Seq(DOMAIN rows) /\ IsInjective(unique.kept)
               /\ \A i, j \in ToSet(unique.kept) : SamePaper(rows, i, j) => i = j
               /\ EvidenceOf(unique.rows, ToSet(unique.kept)) = EvidenceOf(rows, DOMAIN rows)
               /\ FiniteRows(rows) => FiniteRows(unique.rows)
  <1> DEFINE D == DOMAIN rows
             papers == Pass(order, rows, Papers(rows))
             named == {i \in D : rows[i].identity # ""}
             first == Those(papers.kept, named)
             second == Those(papers.kept, D \ named)
             sorted == first \o second
             unique == Pass(sorted, papers.rows, Alike(rows, embedded))
  <1>1. Deduplicated(order, rows, embedded) = unique
    BY DEF Deduplicated
  <1>2. order \in Seq(D) /\ IsInjective(order) /\ ToSet(order) = D
    BY OrdersAre
  <1>3. /\ papers.kept = Kept(order, Papers(rows)) /\ DOMAIN papers.rows = D
        /\ EvidenceOf(papers.rows, ToSet(papers.kept)) = EvidenceOf(rows, D)
        /\ FiniteRows(rows) => FiniteRows(papers.rows)
    BY <1>2, PassIs
  <1>4. papers.kept \in Seq(D) /\ IsInjective(papers.kept) /\ ToSet(papers.kept) \subseteq D
    BY <1>2, <1>3, KeptAre
  <1>5. ASSUME NEW i \in ToSet(papers.kept), NEW j \in ToSet(papers.kept), SamePaper(rows, i, j)
        PROVE  i = j
    <2> DEFINE s == papers.kept
    <2>1. PICK a \in DOMAIN s, b \in DOMAIN s : i = s[a] /\ j = s[b]
      BY DEF ToSet
    <2>2. \A m, n \in DOMAIN s : m < n => <<s[m], s[n]>> \notin Papers(rows)
      BY <1>2, <1>3, KeptAre
    <2>3. SamePaper(rows, s[a], s[b]) /\ SamePaper(rows, s[b], s[a]) /\ s[a] \in D /\ s[b] \in D
      BY <1>4, <1>5, <2>1 DEF SamePaper
    <2>4. DOMAIN s = 1 .. Len(s) /\ Len(s) \in Nat
      BY <1>4
    <2> HIDE DEF s
    <2>5. <<s[a], s[b]>> \in Papers(rows) /\ <<s[b], s[a]>> \in Papers(rows)
      BY <2>3 DEF Papers
    <2>6. ~(a < b) /\ ~(b < a)
      BY <2>2, <2>5
    <2>7. a = b
      BY <2>4, <2>6
    <2> QED BY <2>1, <2>7
  <1> HIDE DEF papers
  <1>6. /\ first \in Seq(D) /\ ToSet(first) = ToSet(papers.kept) \cap named /\ IsInjective(first)
        /\ second \in Seq(D) /\ ToSet(second) = ToSet(papers.kept) \cap (D \ named)
        /\ IsInjective(second)
    <2> HIDE DEF named
    <2> QED BY <1>4, ThoseAre
  <1> HIDE DEF first, second
  <1>7. sorted \in Seq(D) /\ IsInjective(sorted) /\ ToSet(sorted) = ToSet(papers.kept)
    <2>1. ToSet(first) \cap ToSet(second) = {}
      BY <1>6
    <2>2. first \in Seq(D) /\ second \in Seq(D) /\ IsInjective(first) /\ IsInjective(second)
      BY <1>6
    <2>3. ToSet(first) \cup ToSet(second) = ToSet(papers.kept)
      BY <1>4, <1>6
    <2> HIDE DEF D
    <2>4. first \o second \in Seq(D)
      BY <2>2, TwoInARow
    <2>5. ToSet(first \o second) = ToSet(first) \cup ToSet(second)
      BY <2>2, TwoInARow
    <2>6. IsInjective(first \o second)
      BY <2>1, <2>2, TwoInARow
    <2> QED BY <2>3, <2>4, <2>5, <2>6
  <1> HIDE DEF sorted
  <1>8. /\ unique.kept = Kept(sorted, Alike(rows, embedded)) /\ DOMAIN unique.rows = D
        /\ EvidenceOf(unique.rows, ToSet(unique.kept)) = EvidenceOf(papers.rows, ToSet(sorted))
        /\ FiniteRows(papers.rows) => FiniteRows(unique.rows)
    <2>1. D \subseteq DOMAIN papers.rows
      BY <1>3
    <2> HIDE DEF D
    <2> QED BY <1>3, <1>7, <2>1, PassIs
  <1>9. unique.kept \in Seq(D) /\ IsInjective(unique.kept) /\ ToSet(unique.kept) \subseteq ToSet(sorted)
    BY <1>7, <1>8, KeptAre
  <1> HIDE DEF unique
  <1> QED BY <1>1, <1>3, <1>5, <1>7, <1>8, <1>9

-----------------------------------------------------------------------------
(* Sums over pairs *)

\* The sum takes the pairs one by one, in an order of its own.
SumsOver(f, rows, embedded, P) ==
    \A s \in SUBSET P :
        f[s] = IF s = {} THEN 0
               ELSE Closeness(rows, embedded, CHOOSE p \in s : TRUE)
                    + f[s \ {CHOOSE p \in s : TRUE}]

LEMMA SmallerSubset ==
    ASSUME NEW P, IsFiniteSet(P), NEW s \in SUBSET P, NEW x \in s
    PROVE  /\ s \ {x} \in SUBSET P /\ Cardinality(s \ {x}) \in Nat
           /\ Cardinality(s) \in Nat /\ Cardinality(s \ {x}) = Cardinality(s) - 1
           /\ Cardinality(s) # 0
  <1>1. IsFiniteSet(s)
    BY FS_Subset
  <1>2. IsFiniteSet(s \ {x}) /\ Cardinality(s \ {x}) = Cardinality(s) - 1
    BY <1>1, FS_RemoveElement
  <1>3. Cardinality(s) \in Nat /\ Cardinality(s \ {x}) \in Nat
    BY <1>1, <1>2, FS_CardinalityType
  <1> QED BY <1>2, <1>3

LEMMA CohesionSums ==
    ASSUME NEW rows, NEW embedded, NEW P, IsFiniteSet(P)
    PROVE  \E f : SumsOver(f, rows, embedded, P) /\ f[P] = Cohesion(rows, embedded, P)
  <1> DEFINE Rec(f, s) == IF s = {} THEN 0
                          ELSE Closeness(rows, embedded, CHOOSE p \in s : TRUE)
                               + f[s \ {CHOOSE p \in s : TRUE}]
             Is(f, m) == \A s \in SUBSET P : Cardinality(s) <= m => f[s] = Rec(f, s)
             Bad == {m \in Nat : ~ \E f : Is(f, m)}
  <1>1. ASSUME NEW m \in Bad, \A k \in Bad : m <= k PROVE FALSE
    <2>1. \A s \in SUBSET P : s # {} => (CHOOSE p \in s : TRUE) \in s
      OBVIOUS
    <2>2. CASE m = 0
      <3>1. Is([s \in SUBSET P |-> 0], 0)
        <4>1. ASSUME NEW s \in SUBSET P, Cardinality(s) <= 0 PROVE s = {}
          <5>1. SUFFICES ASSUME NEW x \in s PROVE FALSE
            OBVIOUS
          <5>2. Cardinality(s) \in Nat /\ Cardinality(s) # 0
            BY SmallerSubset
          <5> QED BY <4>1, <5>2
        <4> QED BY <4>1
      <3> QED BY <2>2, <3>1
    <2>3. CASE m # 0
      <3>1. m - 1 \in Nat /\ m - 1 \notin Bad
        <4>1. m \in Nat
          OBVIOUS
        <4> HIDE DEF Bad
        <4> QED BY <1>1, <2>3, <4>1
      <3>2. PICK g : Is(g, m - 1)
        BY <3>1
      <3> DEFINE h == [s \in SUBSET P |-> Rec(g, s)]
      <3>3. ASSUME NEW s \in SUBSET P, Cardinality(s) <= m PROVE h[s] = Rec(h, s)
        <4>1. CASE s = {}
          BY <4>1
        <4>2. CASE s # {}
          <5> DEFINE x == CHOOSE p \in s : TRUE
          <5>1. x \in s
            BY <4>2
          <5> HIDE DEF x
          <5>2. s \ {x} \in SUBSET P /\ Cardinality(s \ {x}) <= m - 1
            <6>1. /\ s \ {x} \in SUBSET P /\ Cardinality(s \ {x}) \in Nat
                  /\ Cardinality(s) \in Nat /\ Cardinality(s \ {x}) = Cardinality(s) - 1
              BY <5>1, SmallerSubset
            <6> QED BY <3>1, <3>3, <6>1
          <5>3. h[s \ {x}] = g[s \ {x}]
            BY <3>2, <5>2
          <5> QED BY <4>2, <5>3 DEF x
        <4> QED BY <4>1, <4>2
      <3> HIDE DEF h
      <3>4. Is(h, m)
        BY <3>3
      <3> HIDE DEF Is
      <3> QED BY <1>1, <3>4
    <2> QED BY <2>2, <2>3
  <1>2. Bad \subseteq Nat
    OBVIOUS
  <1>3. Bad = {}
    BY <1>1, <1>2, SmallestOf
  <1>4. \E f : f = [s \in SUBSET P |-> Rec(f, s)]
    <2>1. Cardinality(P) \in Nat
      BY FS_CardinalityType
    <2>2. PICK g : Is(g, Cardinality(P))
      <3> HIDE DEF Is
      <3> QED BY <1>3, <2>1
    <2>3. \A s \in SUBSET P : Cardinality(s) <= Cardinality(P)
      BY FS_Subset
    <2> DEFINE f == [s \in SUBSET P |-> g[s]]
    <2>4. ASSUME NEW s \in SUBSET P PROVE f[s] = Rec(f, s)
      <3>1. g[s] = Rec(g, s)
        BY <2>2, <2>3
      <3>2. s \ {CHOOSE p \in s : TRUE} \in SUBSET P
        OBVIOUS
      <3> QED BY <3>1, <3>2
    <2>5. f = [s \in SUBSET P |-> f[s]]
      OBVIOUS
    <2> HIDE DEF f
    <2>6. f = [s \in SUBSET P |-> Rec(f, s)]
      BY <2>4, <2>5
    <2> QED BY <2>6
  <1> DEFINE iter == CHOOSE iter : iter = [s \in SUBSET P |->
                         IF s = {} THEN 0
                         ELSE Closeness(rows, embedded, CHOOSE x \in s : TRUE)
                              + iter[s \ {CHOOSE x \in s : TRUE}]]
  <1>5. Cohesion(rows, embedded, P) = iter[P]
    BY DEF Cohesion, MapThenSumSet, MapThenFoldSet
  <1>6. iter = [s \in SUBSET P |-> Rec(iter, s)]
    BY <1>4
  <1> HIDE DEF iter
  <1>7. SumsOver(iter, rows, embedded, P)
    BY <1>6 DEF SumsOver
  <1> QED BY <1>5, <1>7

AnyFirst(f, rows, embedded, P) ==
    \A s \in SUBSET P : \A p \in s : f[s] = Closeness(rows, embedded, p) + f[s \ {p}]

\* Sums over sets that contain one another agree, and any pair may be taken first.
LEMMA SumsAre ==
    ASSUME NEW rows, NEW embedded, NEW P, IsFiniteSet(P),
           \A p \in P : Closeness(rows, embedded, p) \in Int,
           NEW f, SumsOver(f, rows, embedded, P)
    PROVE  /\ \A s \in SUBSET P : f[s] \in Int
           /\ AnyFirst(f, rows, embedded, P)
  <1> DEFINE C(p) == Closeness(rows, embedded, p)
             Fine(s) == f[s] \in Int /\ \A p \in s : f[s] = C(p) + f[s \ {p}]
             Bad == {k \in Nat : \E s \in SUBSET P : Cardinality(s) = k /\ ~Fine(s)}
  <1>1. ASSUME NEW k \in Bad, \A j \in Bad : k <= j PROVE FALSE
    <2>1. PICK s \in SUBSET P : Cardinality(s) = k /\ ~Fine(s)
      OBVIOUS
    <2>2. k \in Nat
      OBVIOUS
    <2>3. ASSUME NEW t \in SUBSET P, Cardinality(t) \in Nat, Cardinality(t) < k
          PROVE  Fine(t)
      <3>1. Cardinality(t) \notin Bad
        <4> HIDE DEF Bad
        <4> QED BY <1>1, <2>2, <2>3
      <3> HIDE DEF Fine
      <3> QED BY <2>3, <3>1
    <2>4. CASE s = {}
      <3>1. f[s] = 0
        BY <2>4 DEF SumsOver
      <3> QED BY <2>1, <2>4, <3>1
    <2>5. CASE s # {}
      <3> DEFINE x == CHOOSE p \in s : TRUE
      <3>1. x \in s /\ f[s] = C(x) + f[s \ {x}]
        BY <2>5 DEF SumsOver
      <3> HIDE DEF x
      <3>2. \A y \in s : /\ s \ {y} \in SUBSET P /\ Cardinality(s \ {y}) \in Nat
                         /\ Cardinality(s \ {y}) < k
        BY <2>1, <2>2, SmallerSubset
      <3>3. \A y \in s : Fine(s \ {y})
        <4> HIDE DEF Fine
        <4> QED BY <2>3, <3>2
      <3>4. C(x) \in Int /\ f[s \ {x}] \in Int /\ f[s] \in Int
        <4>1. C(x) \in Int
          BY <3>1
        <4>2. f[s \ {x}] \in Int
          BY <3>1, <3>3
        <4> HIDE DEF C
        <4> QED BY <3>1, <4>1, <4>2
      <3>5. ASSUME NEW y \in s PROVE f[s] = C(y) + f[s \ {y}]
        <4>1. CASE y = x
          BY <3>1, <4>1
        <4>2. CASE y # x
          <5> DEFINE r == s \ {x, y}
          <5>1. (s \ {x}) \ {y} = r /\ (s \ {y}) \ {x} = r /\ y \in s \ {x} /\ x \in s \ {y}
            BY <3>1, <4>2
          <5>2. f[s \ {x}] = C(y) + f[(s \ {x}) \ {y}]
            BY <3>1, <3>3, <5>1
          <5>3. f[s \ {y}] = C(x) + f[(s \ {y}) \ {x}]
            BY <3>3, <5>1
          <5>4. f[(s \ {x}) \ {y}] \in Int
            <6>1. (s \ {x}) \ {y} \in SUBSET P
              OBVIOUS
            <6>2. Cardinality((s \ {x}) \ {y}) \in Nat /\ Cardinality((s \ {x}) \ {y}) < k
              <7>1. s \ {x} \in SUBSET P /\ Cardinality(s \ {x}) < k
                BY <3>1, <3>2
              <7>2. /\ Cardinality((s \ {x}) \ {y}) \in Nat
                    /\ Cardinality(s \ {x}) \in Nat
                    /\ Cardinality((s \ {x}) \ {y}) = Cardinality(s \ {x}) - 1
                <8> DEFINE t == s \ {x}
                <8>1. t \in SUBSET P /\ y \in t
                  BY <5>1, <7>1
                <8> HIDE DEF t
                <8>2. /\ Cardinality(t \ {y}) \in Nat
                      /\ Cardinality(t) \in Nat
                      /\ Cardinality(t \ {y}) = Cardinality(t) - 1
                  BY <8>1, SmallerSubset
                <8> QED BY <8>2 DEF t
              <7> QED BY <2>2, <7>1, <7>2
            <6> QED BY <2>3, <6>1, <6>2
          <5>5. C(y) \in Int
            OBVIOUS
          <5>6. f[(s \ {x}) \ {y}] = f[(s \ {y}) \ {x}]
            BY <5>1
          <5> HIDE DEF C
          <5> QED BY <3>1, <3>4, <5>2, <5>3, <5>4, <5>5, <5>6
        <4> QED BY <4>1, <4>2
      <3> QED BY <2>1, <3>4, <3>5
    <2> QED BY <2>4, <2>5
  <1>2. Bad \subseteq Nat
    OBVIOUS
  <1>3. Bad = {}
    BY <1>1, <1>2, SmallestOf
  <1>4. ASSUME NEW s \in SUBSET P PROVE Fine(s)
    <2>1. Cardinality(s) \in Nat
      BY FS_Subset, FS_CardinalityType
    <2> HIDE DEF Fine
    <2> QED BY <1>3, <2>1
  <1> QED BY <1>4 DEF AnyFirst

LEMMA CohesionGrows ==
    ASSUME NEW rows, NEW embedded, NEW P, IsFiniteSet(P), NEW q, q \notin P,
           \A p \in P \cup {q} : Closeness(rows, embedded, p) \in Int
    PROVE  /\ Cohesion(rows, embedded, P) \in Int
           /\ Cohesion(rows, embedded, P \cup {q})
              = Cohesion(rows, embedded, P) + Closeness(rows, embedded, q)
  <1> DEFINE Q == P \cup {q}
             C(p) == Closeness(rows, embedded, p)
  <1>1. IsFiniteSet(Q)
    BY FS_AddElement
  <1>2. PICK f : SumsOver(f, rows, embedded, P) /\ f[P] = Cohesion(rows, embedded, P)
    BY CohesionSums
  <1>3. PICK g : SumsOver(g, rows, embedded, Q) /\ g[Q] = Cohesion(rows, embedded, Q)
    <2> HIDE DEF Q
    <2> QED BY <1>1, CohesionSums
  <1>4. /\ \A s \in SUBSET P : f[s] \in Int
        /\ AnyFirst(f, rows, embedded, P)
    <2>1. \A p \in P : Closeness(rows, embedded, p) \in Int
      OBVIOUS
    <2> HIDE DEF Q
    <2> QED BY <1>2, <2>1, SumsAre
  <1>5. /\ \A s \in SUBSET Q : g[s] \in Int
        /\ AnyFirst(g, rows, embedded, Q)
    <2>1. \A p \in Q : Closeness(rows, embedded, p) \in Int
      OBVIOUS
    <2> HIDE DEF Q
    <2> QED BY <1>1, <1>3, <2>1, SumsAre
  <1>6. \A s \in SUBSET P : f[s] = g[s]
    <2> DEFINE Bad == {k \in Nat : \E s \in SUBSET P : Cardinality(s) = k /\ f[s] # g[s]}
    <2>1. ASSUME NEW k \in Bad, \A j \in Bad : k <= j PROVE FALSE
      <3>1. PICK s \in SUBSET P : Cardinality(s) = k /\ f[s] # g[s]
        OBVIOUS
      <3>2. CASE s = {}
        BY <1>2, <1>3, <3>1, <3>2 DEF SumsOver
      <3>3. CASE s # {}
        <4>1. PICK x \in s : TRUE
          BY <3>3
        <4>2. f[s] = C(x) + f[s \ {x}] /\ g[s] = C(x) + g[s \ {x}]
          <5>1. f[s] = C(x) + f[s \ {x}]
            BY <1>4 DEF AnyFirst
          <5>2. g[s] = C(x) + g[s \ {x}]
            BY <1>5 DEF AnyFirst
          <5> QED BY <5>1, <5>2
        <4>3. /\ s \ {x} \in SUBSET P /\ Cardinality(s \ {x}) \in Nat
              /\ ~(k <= Cardinality(s \ {x}))
          BY <3>1, <4>1, SmallerSubset
        <4>4. Cardinality(s \ {x}) \notin Bad
          <5> HIDE DEF Bad
          <5> QED BY <2>1, <4>3
        <4>5. f[s \ {x}] = g[s \ {x}]
          BY <4>3, <4>4
        <4> QED BY <3>1, <4>2, <4>5
      <3> QED BY <3>2, <3>3
    <2>2. Bad \subseteq Nat
      OBVIOUS
    <2>3. Bad = {}
      BY <2>1, <2>2, SmallestOf
    <2>4. ASSUME NEW s \in SUBSET P PROVE f[s] = g[s]
      <3>1. Cardinality(s) \in Nat
        BY FS_Subset, FS_CardinalityType
      <3> QED BY <2>3, <3>1
    <2> QED BY <2>4
  <1>7. f[P] \in Int /\ f[P] = g[P]
    BY <1>4, <1>6
  <1>8. Q \ {q} = P /\ q \in Q
    OBVIOUS
  <1>9. g[Q] = C(q) + g[P]
    <2>1. g[Q] = C(q) + g[Q \ {q}]
      BY <1>5, <1>8 DEF AnyFirst
    <2> QED BY <1>8, <2>1
  <1>10. C(q) \in Int
    OBVIOUS
  <1> HIDE DEF C, Q
  <1>11. Cohesion(rows, embedded, Q) = Cohesion(rows, embedded, P) + C(q)
    BY <1>2, <1>3, <1>7, <1>9, <1>10
  <1> QED BY <1>2, <1>7, <1>11 DEF C, Q

LEMMA CohesionOfNone ==
    ASSUME NEW rows, NEW embedded
    PROVE  Cohesion(rows, embedded, {}) = 0
  <1>1. IsFiniteSet({})
    BY FS_EmptySet
  <1>2. PICK f : SumsOver(f, rows, embedded, {}) /\ f[{}] = Cohesion(rows, embedded, {})
    BY <1>1, CohesionSums
  <1> QED BY <1>2 DEF SumsOver

-----------------------------------------------------------------------------
(* Clustering *)

LEMMA TwoElements ==
    ASSUME NEW x \in Int, NEW y \in Int
    PROVE  Min({x, y}) \in {x, y} /\ Max({x, y}) \in {x, y} /\ Min({x, y}) = Min({y, x})
  <1>1. \E m \in {x, y} : \A n \in {x, y} : m <= n
    OBVIOUS
  <1>2. \E m \in {x, y} : \A n \in {x, y} : m >= n
    OBVIOUS
  <1>3. {x, y} = {y, x}
    OBVIOUS
  <1> QED BY <1>1, <1>2, <1>3 DEF Min, Max

\* Two items are as close as they are the other way round.
LEMMA AffinityIs ==
    ASSUME NEW rows, FiniteRows(rows), DOMAIN rows \subseteq Item, NEW embedded,
           NEW i \in DOMAIN rows, NEW j \in DOMAIN rows
    PROVE  /\ Affinity(rows, embedded, i, j) \in Int
           /\ Affinity(rows, embedded, i, j) = Affinity(rows, embedded, j, i)
  <1> DEFINE ci == rows[i].concepts
             cj == rows[j].concepts
             overlap(least) == IF least = 0 THEN 0
                               ELSE (100 * Cardinality(ci \cap cj)) \div least
             cosine == IF embedded THEN Cosine[{i, j}] ELSE 0
             least == Min({Cardinality(ci), Cardinality(cj)})
  <1>1. Cardinality(ci) \in Nat /\ Cardinality(cj) \in Nat /\ Cardinality(ci \cap cj) \in Nat
    <2>1. IsFiniteSet(ci) /\ IsFiniteSet(cj)
      BY DEF FiniteRows
    <2>2. IsFiniteSet(ci \cap cj)
      BY <2>1, FS_Intersection
    <2> QED BY <2>1, <2>2, FS_CardinalityType
  <1>2. cosine \in Int
    BY ResearchAssumption
  <1>3. least \in Nat /\ Min({Cardinality(cj), Cardinality(ci)}) = least
    <2> DEFINE x == Cardinality(ci)
               y == Cardinality(cj)
    <2>1. x \in Nat /\ y \in Nat /\ x \in Int /\ y \in Int
      BY <1>1
    <2> HIDE DEF x, y
    <2>2. Min({x, y}) \in {x, y} /\ Min({x, y}) = Min({y, x})
      BY <2>1, TwoElements
    <2>3. Min({x, y}) \in Nat /\ Min({y, x}) = Min({x, y})
      BY <2>1, <2>2
    <2> QED BY <2>3 DEF x, y
  <1>4. overlap(least) \in Int
    <2> DEFINE c == Cardinality(ci \cap cj)
    <2>1. c \in Nat /\ least \in Nat
      BY <1>1, <1>3
    <2> HIDE DEF c, least
    <2>2. CASE least = 0
      BY <2>2
    <2>3. CASE least # 0
      <3>1. least \in Int /\ least > 0 /\ 100 * c \in Int
        BY <2>1, <2>3
      <3>2. (100 * c) \div least \in Int
        BY <3>1
      <3> QED BY <2>3, <3>2 DEF c
    <2> QED BY <2>2, <2>3
  <1>5. Affinity(rows, embedded, i, j) = Max({overlap(least), cosine})
    BY DEF Affinity
  <1>6. Affinity(rows, embedded, j, i) = Max({overlap(least), cosine})
    <2>1. {i, j} = {j, i} /\ ci \cap cj = cj \cap ci
      OBVIOUS
    <2>2. Affinity(rows, embedded, j, i)
          = Max({IF Min({Cardinality(cj), Cardinality(ci)}) = 0 THEN 0
                 ELSE (100 * Cardinality(cj \cap ci)) \div Min({Cardinality(cj), Cardinality(ci)}),
                 IF embedded THEN Cosine[{j, i}] ELSE 0})
      BY DEF Affinity
    <2> HIDE DEF least
    <2> QED BY <1>3, <2>1, <2>2
  <1> HIDE DEF overlap, cosine
  <1>7. Max({overlap(least), cosine}) \in {overlap(least), cosine}
    BY <1>2, <1>4, TwoElements
  <1> QED BY <1>2, <1>4, <1>5, <1>6, <1>7

LEMMA ClosenessIs ==
    ASSUME NEW rows, FiniteRows(rows), DOMAIN rows \subseteq Item, NEW embedded,
           NEW i \in DOMAIN rows, NEW j \in DOMAIN rows, i # j
    PROVE  Closeness(rows, embedded, {i, j}) = Affinity(rows, embedded, i, j)
  <1> DEFINE a == CHOOSE a \in {i, j} : TRUE
             b == CHOOSE b \in {i, j} : b # a
  <1>1. a \in {i, j}
    OBVIOUS
  <1> HIDE DEF a
  <1>2. b \in {i, j} /\ b # a
    <2>1. \E c \in {i, j} : c # a
      BY <1>1
    <2> QED BY <2>1
  <1> HIDE DEF b
  <1>3. Closeness(rows, embedded, {i, j}) = Affinity(rows, embedded, a, b)
    BY DEF Closeness, a, b
  <1>4. (a = i /\ b = j) \/ (a = j /\ b = i)
    BY <1>1, <1>2
  <1>5. Affinity(rows, embedded, i, j) = Affinity(rows, embedded, j, i)
    BY AffinityIs
  <1> QED BY <1>3, <1>4, <1>5

LEMMA PairsAre ==
    ASSUME NEW G, IsFiniteSet(G)
    PROVE  \A q : q \in kSubset(2, G) <=> \E a, b \in G : a # b /\ q = {a, b}
  <1>1. ASSUME NEW a \in G, NEW b \in G, a # b PROVE {a, b} \in kSubset(2, G)
    <2>1. IsFiniteSet({a}) /\ Cardinality({a}) = 1
      BY FS_Singleton
    <2>2. Cardinality({a} \cup {b}) = Cardinality({a}) + 1
      BY <1>1, <2>1, FS_AddElement
    <2>3. {a} \cup {b} = {a, b}
      OBVIOUS
    <2> QED BY <2>1, <2>2, <2>3 DEF kSubset
  <1>2. ASSUME NEW q \in kSubset(2, G) PROVE \E a, b \in G : a # b /\ q = {a, b}
    <2>1. q \subseteq G /\ Cardinality(q) = 2
      BY DEF kSubset
    <2>2. IsFiniteSet(q)
      BY <2>1, FS_Subset
    <2>3. q # {}
      BY <2>1, FS_EmptySet
    <2>4. PICK a \in q : TRUE
      BY <2>3
    <2>5. IsFiniteSet(q \ {a}) /\ Cardinality(q \ {a}) = 1
      BY <2>1, <2>2, FS_RemoveElement
    <2>6. PICK b : q \ {a} = {b}
      BY <2>5, FS_Singleton
    <2>7. b \in q /\ b # a /\ q = {a, b}
      BY <2>4, <2>6
    <2> QED BY <2>1, <2>7
  <1> QED BY <1>1, <1>2

LEMMA OneHoldsTogether ==
    ASSUME NEW rows, NEW embedded, NEW i
    PROVE  HoldsTogether(rows, embedded, {i})
  <1>1. kSubset(2, {i}) = {}
    <2>1. IsFiniteSet({i})
      BY FS_Singleton
    <2>2. \A q : q \in kSubset(2, {i}) <=> \E a, b \in {i} : a # b /\ q = {a, b}
      BY <2>1, PairsAre
    <2> QED BY <2>2
  <1>2. Cardinality({}) = 0 /\ JoinAt * 0 = 0
    BY FS_EmptySet, ResearchAssumption
  <1>3. Cohesion(rows, embedded, {}) = 0
    BY CohesionOfNone
  <1> QED BY <1>1, <1>2, <1>3 DEF HoldsTogether

\* An item that fits a cluster on average leaves it together.
LEMMA JoiningHolds ==
    ASSUME NEW rows, FiniteRows(rows), DOMAIN rows \subseteq Item, NEW embedded,
           NEW c \in Seq(DOMAIN rows), IsInjective(c),
           NEW i \in DOMAIN rows, i \notin ToSet(c),
           HoldsTogether(rows, embedded, ToSet(c)),
           Fit(rows, embedded, i, c) >= JoinAt * Len(c)
    PROVE  HoldsTogether(rows, embedded, ToSet(c) \cup {i})
  <1> DEFINE n == Len(c)
             G == ToSet(c)
             P(k) == kSubset(2, G) \cup {{i, c[m]} : m \in 1 .. k}
             total(k) == Cohesion(rows, embedded, P(k))
  <1>1. /\ n \in Nat /\ DOMAIN c = 1 .. n
        /\ \A k \in 1 .. n : c[k] \in DOMAIN rows /\ c[k] \in G
    <2>1. n \in Nat /\ DOMAIN c = 1 .. n /\ \A k \in 1 .. n : c[k] \in DOMAIN rows
      BY LenProperties, ElementOfSeq
    <2> QED BY <2>1 DEF ToSet
  <1>2. G \subseteq DOMAIN rows /\ IsFiniteSet(G) /\ IsFiniteSet(G \cup {i})
    <2>1. G \subseteq DOMAIN rows
      BY <1>1 DEF ToSet
    <2> HIDE DEF G
    <2>2. IsFiniteSet(G)
      BY <2>1, FS_Subset DEF FiniteRows
    <2> QED BY <2>1, <2>2, FS_AddElement
  <1>f. PICK f : FitBy(f, rows, embedded, i, c, n)
    BY <1>1, FitSteps
  <1>3. /\ f[0] = 0 /\ f[n] = Fit(rows, embedded, i, c)
        /\ \A k \in 1 .. n : f[k] = f[k - 1] + Affinity(rows, embedded, i, c[k])
    BY <1>f DEF FitBy
  <1> HIDE DEF n
  <1>4. ASSUME NEW q \in kSubset(2, G)
        PROVE  i \notin q /\ Closeness(rows, embedded, q) \in Int
    <2>1. PICK a \in G, b \in G : a # b /\ q = {a, b}
      <3> HIDE DEF G
      <3> QED BY <1>2, <1>4, PairsAre
    <2>2. a \in DOMAIN rows /\ b \in DOMAIN rows
      BY <1>2, <2>1
    <2>3. Closeness(rows, embedded, {a, b}) = Affinity(rows, embedded, a, b)
      BY <2>1, <2>2, ClosenessIs
    <2>4. Affinity(rows, embedded, a, b) \in Int
      BY <2>2, AffinityIs
    <2> QED BY <2>1, <2>3, <2>4
  <1>5. ASSUME NEW k \in 1 .. n
        PROVE  /\ Closeness(rows, embedded, {i, c[k]}) = Affinity(rows, embedded, i, c[k])
               /\ Affinity(rows, embedded, i, c[k]) \in Int
    <2>1. c[k] \in DOMAIN rows /\ i # c[k]
      BY <1>1
    <2> QED BY <2>1, ClosenessIs, AffinityIs
  <1>6. \A k \in 0 .. n : \A q \in P(k) : Closeness(rows, embedded, q) \in Int
    <2>1. ASSUME NEW k \in 0 .. n, NEW q \in P(k) PROVE Closeness(rows, embedded, q) \in Int
      <3>1. CASE q \in kSubset(2, G)
        BY <1>4, <3>1
      <3>2. CASE q \notin kSubset(2, G)
        <4>1. PICK m \in 1 .. k : q = {i, c[m]}
          BY <3>2
        <4>2. m \in 1 .. n
          BY <1>1
        <4> QED BY <1>5, <4>1, <4>2
      <3> QED BY <3>1, <3>2
    <2> QED BY <2>1
  <1>7. ASSUME NEW k \in 1 .. n
        PROVE  P(k) = P(k - 1) \cup {{i, c[k]}} /\ {i, c[k]} \notin P(k - 1)
    <2>1. 1 .. k = (1 .. k - 1) \cup {k} /\ k - 1 \in 0 .. n
      BY <1>1
    <2>2. ASSUME NEW m \in 1 .. k - 1 PROVE {i, c[m]} # {i, c[k]}
      <3>1. m \in 1 .. n /\ m # k
        BY <1>1
      <3>2. c[m] # c[k] /\ c[m] # i /\ c[k] # i
        BY <1>1, <3>1 DEF IsInjective
      <3> QED BY <3>2
    <2>3. {i, c[k]} \notin kSubset(2, G)
      BY <1>4
    <2> QED BY <2>1, <2>2, <2>3
  <1>8. P(0) = kSubset(2, G)
    OBVIOUS
  <1>9. IsFiniteSet(kSubset(2, G))
    <2>1. IsFiniteSet(SUBSET G)
      <3> HIDE DEF G
      <3> QED BY <1>2, FS_SUBSET
    <2>2. kSubset(2, G) \in SUBSET (SUBSET G)
      BY DEF kSubset
    <2> HIDE DEF G
    <2> QED BY <2>1, <2>2, FS_Subset
  <1> DEFINE Counts(k) == /\ IsFiniteSet(P(k)) /\ f[k] \in Int /\ total(k) \in Int
                          /\ Cardinality(P(k)) = Cardinality(P(0)) + k
                          /\ total(k) = total(0) + f[k]
             Bad == {k \in 0 .. n : ~Counts(k)}
  <1>10. Cardinality(P(0)) \in Nat /\ total(0) \in Int
    <2>1. Cardinality(kSubset(2, G)) \in Nat
      BY <1>9, FS_CardinalityType
    <2> DEFINE Q == kSubset(2, G)
    <2>2. PICK q : q = {i} /\ q \notin Q
      BY <1>4
    <2>3. total(0) \in Int
      <3>1. PICK g : SumsOver(g, rows, embedded, Q) /\ g[Q] = Cohesion(rows, embedded, Q)
        BY <1>9, CohesionSums
      <3>2. \A p \in Q : Closeness(rows, embedded, p) \in Int
        BY <1>4
      <3>3. \A s \in SUBSET Q : g[s] \in Int
        <4> HIDE DEF Q
        <4>1. IsFiniteSet(Q)
          BY <1>9 DEF Q
        <4> QED BY <3>1, <3>2, <4>1, SumsAre
      <3>4. g[Q] \in Int
        BY <3>3
      <3> QED BY <1>8, <3>1, <3>4
    <2> QED BY <1>8, <2>1, <2>3
  <1> HIDE DEF P
  <1>11. ASSUME NEW k \in 0 .. n, ~Counts(k), \A j \in 0 .. n : ~Counts(j) => k <= j
         PROVE  FALSE
    <2>1. CASE k = 0
      BY <1>3, <1>8, <1>9, <1>10, <1>11, <2>1
    <2>2. CASE k # 0
      <3>1. k \in 1 .. n /\ k - 1 \in 0 .. n /\ ~(k <= k - 1) /\ k \in Int
        BY <1>1, <2>2
      <3>2. Counts(k - 1)
        <4> HIDE DEF Counts
        <4> QED BY <1>11, <3>1
      <3> DEFINE R == P(k - 1)
                 q == {i, c[k]}
      <3>3. P(k) = R \cup {q} /\ q \notin R /\ IsFiniteSet(R)
        BY <1>7, <3>1, <3>2
      <3>4. \A p \in R \cup {q} : Closeness(rows, embedded, p) \in Int
        BY <1>6, <3>3
      <3>5. Closeness(rows, embedded, q) = Affinity(rows, embedded, i, c[k])
            /\ Affinity(rows, embedded, i, c[k]) \in Int
        BY <1>5, <3>1
      <3>6. f[k] = f[k - 1] + Affinity(rows, embedded, i, c[k])
        BY <1>3, <3>1
      <3>7. /\ f[k - 1] \in Int /\ total(k - 1) = total(0) + f[k - 1]
            /\ Cardinality(R) = Cardinality(P(0)) + (k - 1)
        BY <3>2
      <3> HIDE DEF R, q
      <3>8. /\ IsFiniteSet(R \cup {q})
            /\ Cardinality(R \cup {q}) = Cardinality(R) + 1
        BY <3>3, FS_AddElement
      <3>9. Cohesion(rows, embedded, R \cup {q})
            = Cohesion(rows, embedded, R) + Closeness(rows, embedded, q)
        BY <3>3, <3>4, CohesionGrows
      <3>10. total(k) = total(k - 1) + Affinity(rows, embedded, i, c[k])
        BY <3>3, <3>5, <3>9 DEF R
      <3>11. f[k] \in Int /\ total(k) = total(0) + f[k] /\ total(k) \in Int
        <4> HIDE DEF total
        <4>1. f[k] \in Int
          BY <3>5, <3>6, <3>7
        <4> QED BY <1>10, <3>5, <3>6, <3>7, <3>10, <4>1
      <3>12. Cardinality(P(k)) = Cardinality(P(0)) + k
        <4>1. Cardinality(P(k)) = (Cardinality(P(0)) + (k - 1)) + 1
          BY <3>3, <3>7, <3>8
        <4> QED BY <1>10, <3>1, <4>1
      <3>13. IsFiniteSet(P(k))
        BY <3>3, <3>8
      <3> HIDE DEF total
      <3> QED BY <1>11, <3>11, <3>12, <3>13
    <2> QED BY <2>1, <2>2
  <1>12. Bad \subseteq Nat
    BY <1>1
  <1>13. Bad = {}
    BY <1>11, <1>12, SmallestOf
  <1>14. Counts(n)
    <2>1. n \in 0 .. n
      BY <1>1
    <2> HIDE DEF Counts
    <2> QED BY <1>13, <2>1
  <1>15. P(n) = kSubset(2, G \cup {i})
    <2> HIDE DEF G
    <2>1. \A q : q \in kSubset(2, G) <=> \E a, b \in G : a # b /\ q = {a, b}
      BY <1>2, PairsAre
    <2>2. \A q : q \in kSubset(2, G \cup {i}) <=> \E a, b \in G \cup {i} : a # b /\ q = {a, b}
      BY <1>2, PairsAre
    <2>3. ASSUME NEW q \in P(n) PROVE q \in kSubset(2, G \cup {i})
      <3>1. CASE q \in kSubset(2, G)
        <4>1. PICK a \in G, b \in G : a # b /\ q = {a, b}
          BY <2>1, <3>1
        <4> QED BY <2>2, <4>1
      <3>2. CASE q \notin kSubset(2, G)
        <4>1. PICK m \in 1 .. n : q = {i, c[m]}
          BY <2>3, <3>2 DEF P
        <4>2. c[m] \in G /\ c[m] # i
          BY <1>1 DEF G
        <4> QED BY <2>2, <4>1, <4>2
      <3> QED BY <3>1, <3>2
    <2>4. ASSUME NEW q \in kSubset(2, G \cup {i}) PROVE q \in P(n)
      <3>1. PICK a \in G \cup {i}, b \in G \cup {i} : a # b /\ q = {a, b}
        BY <2>2, <2>4
      <3>2. ASSUME NEW x \in G, q = {i, x} PROVE q \in P(n)
        <4>1. PICK m \in 1 .. n : x = c[m]
          BY <1>1 DEF G, ToSet
        <4> QED BY <3>2, <4>1 DEF P
      <3>3. CASE a \in G /\ b \in G
        BY <2>1, <3>1, <3>3 DEF P
      <3>4. CASE a = i
        <4>1. b \in G /\ q = {i, b}
          BY <3>1, <3>4
        <4> QED BY <3>2, <4>1
      <3>5. CASE b = i
        <4>1. a \in G /\ q = {i, a}
          BY <3>1, <3>5
        <4> QED BY <3>2, <4>1
      <3> QED BY <3>3, <3>4, <3>5
    <2> QED BY <2>3, <2>4
  <1>16. total(0) >= JoinAt * Cardinality(P(0))
    BY <1>8 DEF HoldsTogether
  <1>17. Cohesion(rows, embedded, kSubset(2, G \cup {i}))
         >= JoinAt * Cardinality(kSubset(2, G \cup {i}))
    <2> DEFINE t == total(0)
               size == Cardinality(P(0))
    <2>1. /\ t \in Int /\ size \in Int /\ f[n] \in Int /\ n \in Int /\ JoinAt \in Int
          /\ total(n) = t + f[n] /\ Cardinality(P(n)) = size + n
          /\ t >= JoinAt * size /\ f[n] >= JoinAt * n
      BY <1>1, <1>3, <1>10, <1>14, <1>16, ResearchAssumption DEF n
    <2> HIDE DEF t, size, total
    <2>2. \A x, y \in Int : JoinAt * (x + y) = JoinAt * x + JoinAt * y
      BY <2>1
    <2>3. JoinAt * size \in Int /\ JoinAt * n \in Int
      BY <2>1
    <2>4. JoinAt * (size + n) = JoinAt * size + JoinAt * n
      BY <2>1, <2>2
    <2>5. t + f[n] >= JoinAt * size + JoinAt * n
      BY <2>1, <2>3
    <2>6. total(n) >= JoinAt * Cardinality(P(n))
      BY <2>1, <2>4, <2>5
    <2> QED BY <1>15, <2>6 DEF total
  <1> QED BY <1>17 DEF HoldsTogether

LEMMA InsertedIs ==
    ASSUME NEW rows, NEW seq \in Seq(DOMAIN rows), NEW i \in DOMAIN rows
    PROVE  /\ Inserted(seq, i, rows) \in Seq(DOMAIN rows)
           /\ ToSet(Inserted(seq, i, rows)) = ToSet(seq) \cup {i}
           /\ IsInjective(seq) /\ i \notin ToSet(seq) => IsInjective(Inserted(seq, i, rows))
  <1> DEFINE D == DOMAIN rows
             ahead == {j \in D : Cardinality(rows[j].concepts) >= Cardinality(rows[i].concepts)}
             first == Those(seq, ahead)
             one == <<i>>
             last == Those(seq, D \ ahead)
  <1>1. Inserted(seq, i, rows) = first \o one \o last
    BY DEF Inserted
  <1>2. ahead \subseteq D /\ seq \in Seq(D) /\ i \in D /\ ToSet(seq) \subseteq D
    <2>1. DOMAIN seq = 1 .. Len(seq) /\ \A k \in 1 .. Len(seq) : seq[k] \in D
      BY LenProperties, ElementOfSeq
    <2> QED BY <2>1 DEF ToSet
  <1>3. one \in Seq(D) /\ ToSet(one) = {i} /\ IsInjective(one)
    BY DEF ToSet, IsInjective
  <1> HIDE DEF D, ahead, one
  <1>4. /\ first \in Seq(D) /\ ToSet(first) = ToSet(seq) \cap ahead
        /\ IsInjective(seq) => IsInjective(first)
    BY <1>2, ThoseAre
  <1>5. /\ last \in Seq(D) /\ ToSet(last) = ToSet(seq) \cap (D \ ahead)
        /\ IsInjective(seq) => IsInjective(last)
    BY <1>2, ThoseAre
  <1> HIDE DEF first, last
  <1> DEFINE front == first \o one
  <1>6. front \in Seq(D) /\ ToSet(front) = ToSet(first) \cup {i}
    BY <1>3, <1>4, TwoInARow
  <1>7. IsInjective(first) /\ ToSet(first) \cap ToSet(one) = {} => IsInjective(front)
    BY <1>3, <1>4, TwoInARow
  <1> HIDE DEF front
  <1>8. front \o last \in Seq(D) /\ ToSet(front \o last) = ToSet(front) \cup ToSet(last)
    BY <1>5, <1>6, TwoInARow
  <1>9. IsInjective(front) /\ IsInjective(last) /\ ToSet(front) \cap ToSet(last) = {}
        => IsInjective(front \o last)
    BY <1>5, <1>6, TwoInARow
  <1>10. Inserted(seq, i, rows) = front \o last
    BY <1>1 DEF front
  <1>11. ToSet(front) \cup ToSet(last) = ToSet(seq) \cup {i}
    BY <1>2, <1>4, <1>5, <1>6
  <1>12. ASSUME IsInjective(seq), i \notin ToSet(seq) PROVE IsInjective(front \o last)
    <2>1. ToSet(first) \cap ToSet(one) = {} /\ ToSet(front) \cap ToSet(last) = {}
      BY <1>3, <1>4, <1>5, <1>6, <1>12
    <2> QED BY <1>4, <1>5, <1>7, <1>9, <1>12, <2>1
  <1> QED BY <1>8, <1>10, <1>11, <1>12 DEF D

LEMMA SortedIs ==
    ASSUME NEW rows, NEW order \in Seq(DOMAIN rows), IsInjective(order)
    PROVE  /\ ByConcepts(order, rows) \in Seq(DOMAIN rows)
           /\ ToSet(ByConcepts(order, rows)) = ToSet(order)
           /\ IsInjective(ByConcepts(order, rows))
  <1> DEFINE n == Len(order)
             D == DOMAIN rows
             seen(k) == {order[m] : m \in 1 .. k}
  <1>1. n \in Nat /\ DOMAIN order = 1 .. n /\ \A k \in 1 .. n : order[k] \in D
    BY LenProperties, ElementOfSeq
  <1> HIDE DEF n
  <1>2. PICK f : SortedBy(f, rows, order, n)
    BY <1>1, SortSteps
  <1> DEFINE Fine(k) == f[k] \in Seq(D) /\ ToSet(f[k]) = seen(k) /\ IsInjective(f[k])
             Bad == {k \in 0 .. n : ~Fine(k)}
  <1>3. ASSUME NEW k \in 0 .. n, ~Fine(k), \A j \in 0 .. n : ~Fine(j) => k <= j PROVE FALSE
    <2>1. CASE k = 0
      <3>1. seen(0) = {} /\ ToSet(<<>>) = {} /\ IsInjective(<<>>) /\ <<>> \in Seq(D)
        BY EmptySeq DEF ToSet, IsInjective
      <3> HIDE DEF seen
      <3> QED BY <1>2, <1>3, <2>1, <3>1 DEF SortedBy
    <2>2. CASE k # 0
      <3> DEFINE s == f[k - 1]
                 x == order[k]
      <3>1. k \in 1 .. n /\ k - 1 \in 0 .. n /\ ~(k <= k - 1)
        BY <1>1, <2>2
      <3>2. Fine(k - 1)
        BY <1>3, <3>1
      <3>3. f[k] = Inserted(s, x, rows) /\ x \in D
        BY <1>1, <1>2, <3>1 DEF SortedBy
      <3>4. seen(k) = seen(k - 1) \cup {x}
        <4>1. 1 .. k = (1 .. k - 1) \cup {k}
          BY <3>1
        <4> QED BY <4>1
      <3>5. x \notin seen(k - 1)
        BY <1>1, <3>1 DEF IsInjective
      <3>6. s \in Seq(D) /\ ToSet(s) = seen(k - 1) /\ IsInjective(s)
        BY <3>2
      <3> HIDE DEF s, x, seen
      <3>7. /\ Inserted(s, x, rows) \in Seq(D)
            /\ ToSet(Inserted(s, x, rows)) = ToSet(s) \cup {x}
            /\ IsInjective(s) /\ x \notin ToSet(s) => IsInjective(Inserted(s, x, rows))
        BY <3>3, <3>6, InsertedIs
      <3> QED BY <1>3, <3>3, <3>4, <3>5, <3>6, <3>7
    <2> QED BY <2>1, <2>2
  <1>4. Bad \subseteq Nat
    BY <1>1
  <1>5. Bad = {}
    BY <1>3, <1>4, SmallestOf
  <1>6. n \in 0 .. n /\ n \notin Bad
    <2>1. n \in 0 .. n
      BY <1>1
    <2> HIDE DEF Bad
    <2> QED BY <1>5, <2>1
  <1>7. seen(n) = ToSet(order)
    BY <1>1 DEF ToSet
  <1> HIDE DEF seen
  <1>8. Fine(n)
    BY <1>6
  <1> QED BY <1>2, <1>7, <1>8 DEF SortedBy

\* A cluster under way: some items, each once, that fit one another on average.
ClusterIs(rows, embedded, c, items) ==
    /\ c \in Seq(DOMAIN rows) /\ c # <<>> /\ IsInjective(c) /\ ToSet(c) \subseteq items
    /\ HoldsTogether(rows, embedded, ToSet(c))

ClustersAre(rows, embedded, cs, items) ==
    /\ cs \in Seq(Seq(DOMAIN rows))
    /\ \A m \in DOMAIN cs : ClusterIs(rows, embedded, cs[m], items)

\* An item that comes next opens a cluster or joins one that it fits on average.
LEMMA PlacedIs ==
    ASSUME NEW rows, FiniteRows(rows), DOMAIN rows \subseteq Item, NEW embedded,
           NEW items, NEW cs, ClustersAre(rows, embedded, cs, items),
           NEW i \in DOMAIN rows, i \notin items
    PROVE  ClustersAre(rows, embedded, Placed(cs, rows, embedded, i), items \cup {i})
  <1> DEFINE D == DOMAIN rows
             fit(m) == Fit(rows, embedded, i, cs[m])
             best(m) == /\ fit(m) > 0
                        /\ \A k \in DOMAIN cs :
                               LET mine == fit(m) * Len(cs[k])
                                   its == fit(k) * Len(cs[m])
                               IN  mine > its \/ (mine = its /\ m <= k)
             joins == {m \in DOMAIN cs : best(m) /\ fit(m) >= JoinAt * Len(cs[m])}
             placed == Placed(cs, rows, embedded, i)
             all == items \cup {i}
  <1>1. placed = IF joins = {} THEN Append(cs, <<i>>)
                 ELSE [cs EXCEPT ![Min(joins)] = Append(@, i)]
    BY DEF Placed
  <1>2. /\ cs \in Seq(Seq(D)) /\ Len(cs) \in Nat /\ DOMAIN cs = 1 .. Len(cs)
        /\ \A m \in DOMAIN cs : ClusterIs(rows, embedded, cs[m], items)
    BY LenProperties DEF ClustersAre
  <1>3. \A m \in DOMAIN cs : ClusterIs(rows, embedded, cs[m], all)
    BY <1>2 DEF ClusterIs
  <1>4. CASE joins = {}
    <2> DEFINE one == <<i>>
    <2>1. one \in Seq(D) /\ one # <<>> /\ IsInjective(one) /\ ToSet(one) = {i}
      BY DEF ToSet, IsInjective
    <2>2. HoldsTogether(rows, embedded, {i})
      BY OneHoldsTogether
    <2>3. ClusterIs(rows, embedded, one, all)
      BY <2>1, <2>2 DEF ClusterIs
    <2>4. placed = Append(cs, one)
      BY <1>1, <1>4
    <2> HIDE DEF one, placed, joins, all
    <2> DEFINE S == Seq(D)
    <2>5. cs \in Seq(S) /\ one \in S
      BY <1>2, <2>1
    <2> HIDE DEF S
    <2>6. /\ placed \in Seq(S) /\ DOMAIN placed = 1 .. Len(cs) + 1
          /\ \A j \in 1 .. Len(cs) : placed[j] = cs[j]
          /\ placed[Len(cs) + 1] = one
      BY <2>4, <2>5, OneMore
    <2>7. \A m \in DOMAIN placed : ClusterIs(rows, embedded, placed[m], all)
      <3>1. ASSUME NEW m \in DOMAIN placed PROVE ClusterIs(rows, embedded, placed[m], all)
        <4>1. m \in 1 .. Len(cs) \/ m = Len(cs) + 1
          BY <1>2, <2>6
        <4> QED BY <1>2, <1>3, <2>3, <2>6, <4>1
      <3> QED BY <3>1
    <2> QED BY <2>6, <2>7 DEF ClustersAre, S, placed, all
  <1>5. CASE joins # {}
    <2> DEFINE at == Min(joins)
               c == cs[at]
               more == Append(c, i)
    <2>1. at \in joins
      <3>1. joins \subseteq Nat
        BY <1>2
      <3> HIDE DEF joins
      <3> QED BY <1>5, <3>1, MinOf
    <2>2. at \in DOMAIN cs /\ Fit(rows, embedded, i, c) >= JoinAt * Len(c)
      BY <2>1
    <2>3. placed = [cs EXCEPT ![at] = more]
      BY <1>1, <1>5
    <2> HIDE DEF joins, at
    <2>4. /\ c \in Seq(D) /\ IsInjective(c) /\ ToSet(c) \subseteq items
          /\ HoldsTogether(rows, embedded, ToSet(c))
      BY <1>2, <2>2 DEF ClusterIs
    <2>5. i \notin ToSet(c)
      BY <2>4
    <2> HIDE DEF c
    <2>6. /\ more \in Seq(D) /\ ToSet(more) = ToSet(c) \cup {i} /\ IsInjective(more)
          /\ Len(more) = Len(c) + 1 /\ Len(c) \in Nat
      BY <2>4, <2>5, OneMore
    <2>7. HoldsTogether(rows, embedded, ToSet(c) \cup {i})
      BY <2>2, <2>4, <2>5, JoiningHolds
    <2>8. more # <<>>
      <3>1. Len(more) # 0 /\ Len(<<>>) = 0
        BY <2>6
      <3> QED BY <3>1
    <2> HIDE DEF more, placed
    <2>9. ClusterIs(rows, embedded, more, all)
      BY <2>4, <2>6, <2>7, <2>8 DEF ClusterIs
    <2>10. /\ DOMAIN placed = 1 .. Len(cs) /\ placed[at] = more
           /\ \A m \in 1 .. Len(cs) : m # at => placed[m] = cs[m]
           /\ placed = [m \in 1 .. Len(cs) |-> placed[m]]
      BY <1>2, <2>2, <2>3
    <2>11. \A m \in DOMAIN placed : ClusterIs(rows, embedded, placed[m], all)
      BY <1>2, <1>3, <2>9, <2>10
    <2>12. \A m \in 1 .. Len(cs) : placed[m] \in Seq(D)
      BY <2>10, <2>11 DEF ClusterIs
    <2>13. placed \in Seq(Seq(D))
      <3> DEFINE S == Seq(D)
      <3>1. placed \in [1 .. Len(cs) -> S]
        BY <2>10, <2>12
      <3> HIDE DEF S
      <3>2. Len(cs) \in Nat
        BY <1>2
      <3>3. placed \in Seq(S)
        BY <3>1, <3>2
      <3> QED BY <3>3 DEF S
    <2> QED BY <2>11, <2>13 DEF ClustersAre, placed
  <1> QED BY <1>4, <1>5

\* Every group of the clustering fits together, and is some of the items that came in.
LEMMA GroupedAre ==
    ASSUME NEW rows, FiniteRows(rows), DOMAIN rows \subseteq Item, NEW embedded,
           NEW order \in Seq(DOMAIN rows), IsInjective(order)
    PROVE  ClustersAre(rows, embedded, Grouped(order, rows, embedded), ToSet(order))
  <1> DEFINE n == Len(order)
             D == DOMAIN rows
             seen(k) == {order[m] : m \in 1 .. k}
  <1>1. n \in Nat /\ DOMAIN order = 1 .. n /\ \A k \in 1 .. n : order[k] \in D
    BY LenProperties, ElementOfSeq
  <1> HIDE DEF n
  <1>2. PICK f : GroupedBy(f, rows, embedded, order, n)
    BY <1>1, GroupSteps
  <1> DEFINE Fine(k) == ClustersAre(rows, embedded, f[k], seen(k))
             Bad == {k \in 0 .. n : ~Fine(k)}
  <1>3. ASSUME NEW k \in 0 .. n, ~Fine(k), \A j \in 0 .. n : ~Fine(j) => k <= j PROVE FALSE
    <2>1. CASE k = 0
      <3>1. <<>> \in Seq(Seq(D)) /\ DOMAIN <<>> = {} /\ f[0] = <<>>
        BY <1>2 DEF GroupedBy
      <3>2. ClustersAre(rows, embedded, <<>>, seen(0))
        BY <3>1 DEF ClustersAre
      <3> HIDE DEF seen
      <3> QED BY <1>3, <2>1, <3>1, <3>2
    <2>2. CASE k # 0
      <3> DEFINE x == order[k]
      <3>1. k \in 1 .. n /\ k - 1 \in 0 .. n /\ ~(k <= k - 1)
        BY <1>1, <2>2
      <3>2. Fine(k - 1)
        BY <1>3, <3>1
      <3>3. f[k] = Placed(f[k - 1], rows, embedded, x) /\ x \in D
        BY <1>1, <1>2, <3>1 DEF GroupedBy
      <3>4. seen(k) = seen(k - 1) \cup {x}
        <4>1. 1 .. k = (1 .. k - 1) \cup {k}
          BY <3>1
        <4> QED BY <4>1
      <3>5. x \notin seen(k - 1)
        BY <1>1, <3>1 DEF IsInjective
      <3> HIDE DEF x, seen
      <3>6. ClustersAre(rows, embedded, Placed(f[k - 1], rows, embedded, x), seen(k - 1) \cup {x})
        BY <3>2, <3>3, <3>5, PlacedIs
      <3> QED BY <1>3, <3>3, <3>4, <3>6
    <2> QED BY <2>1, <2>2
  <1>4. Bad \subseteq Nat
    BY <1>1
  <1>5. Bad = {}
    BY <1>3, <1>4, SmallestOf
  <1>6. n \in 0 .. n /\ n \notin Bad
    <2>1. n \in 0 .. n
      BY <1>1
    <2> HIDE DEF Bad
    <2> QED BY <1>5, <2>1
  <1>7. seen(n) = ToSet(order)
    BY <1>1 DEF ToSet
  <1> HIDE DEF seen
  <1>8. Fine(n)
    BY <1>6
  <1> QED BY <1>2, <1>7, <1>8 DEF GroupedBy

LEMMA ClusteredAre ==
    ASSUME NEW rows, FiniteRows(rows), DOMAIN rows \subseteq Item, NEW embedded,
           NEW order \in Seq(DOMAIN rows), IsInjective(order),
           NEW g \in Clustered(order, rows, embedded)
    PROVE  g \subseteq DOMAIN rows /\ g # {} /\ HoldsTogether(rows, embedded, g)
  <1> DEFINE sorted == ByConcepts(order, rows)
             cs == Grouped(sorted, rows, embedded)
  <1>1. PICK m \in DOMAIN cs : g = ToSet(cs[m])
    BY DEF Clustered
  <1>2. sorted \in Seq(DOMAIN rows) /\ IsInjective(sorted)
    BY SortedIs
  <1> HIDE DEF sorted
  <1>3. ClustersAre(rows, embedded, cs, ToSet(sorted))
    BY <1>2, GroupedAre
  <1> HIDE DEF cs
  <1>4. /\ cs[m] \in Seq(DOMAIN rows) /\ cs[m] # <<>>
        /\ HoldsTogether(rows, embedded, ToSet(cs[m]))
    BY <1>3 DEF ClustersAre, ClusterIs
  <1>5. ToSet(cs[m]) # {}
    <2> DEFINE s == cs[m]
    <2>1. s \in Seq(DOMAIN rows) /\ s # <<>>
      BY <1>4
    <2> HIDE DEF s
    <2>2. Len(s) \in Nat /\ Len(s) # 0 /\ DOMAIN s = 1 .. Len(s)
      BY <2>1, EmptySeq, LenProperties
    <2>3. 1 \in DOMAIN s
      BY <2>2
    <2>4. s[1] \in ToSet(s)
      BY <2>3 DEF ToSet
    <2> QED BY <2>4 DEF s
  <1>6. g \subseteq DOMAIN rows
    BY DEF Clustered
  <1> QED BY <1>1, <1>4, <1>5, <1>6

-----------------------------------------------------------------------------
(* Invariant *)

RowIsGood(row) ==
    \/ row = NoRow
    \/ /\ row.life \in Lives
       /\ IsFiniteSet(row.payload.concepts)
       /\ \A e \in row.payload.evidence : GoodPiece(e)

RowsAreGood == DOMAIN memory = Item /\ \A i \in Item : RowIsGood(memory[i])

BatchesAreGood ==
    DOMAIN batch = Agent /\ \A a \in Agent : ToSet(batch[a]) \subseteq Finds[a]

LoadedIsGood ==
    /\ synth.pc \in {"idle", "thinks", "announces"}
    /\ synth.pc = "thinks" =>
           /\ DOMAIN synth.rows \subseteq Item
           /\ FiniteRows(synth.rows)
           /\ \A i \in DOMAIN synth.rows : \A e \in synth.rows[i].evidence : GoodPiece(e)

ClusterIsGood(row) ==
    /\ row.maturity \in Maturities
    /\ \A e \in row.evidence : GoodPiece(e)
    /\ row.maturity \in {"consolidating", "mature"} => Earned(row.evidence)

ClustersAreGood ==
    \A c \in DOMAIN clusters : c \subseteq Item /\ c # {} /\ ClusterIsGood(clusters[c])

PipesAreGood ==
    /\ synth.made \subseteq DOMAIN clusters
    /\ DOMAIN verdicts \subseteq DOMAIN pipes /\ DOMAIN pipes \subseteq DOMAIN clusters
    /\ \A c \in DOMAIN pipes : pipes[c] \in PipeStates
    /\ \A c \in DOMAIN verdicts : verdicts[c].decision \in Decisions

Inv == /\ RowsAreGood /\ BatchesAreGood /\ LoadedIsGood /\ ClustersAreGood /\ PipesAreGood
       /\ StructuralChangesAreEarned

LEMMA StoredRowsAreGood ==
    ASSUME RowsAreGood, NEW i \in Item, Stored(i)
    PROVE  /\ memory[i].life \in Lives /\ IsFiniteSet(memory[i].payload.concepts)
           /\ \A e \in memory[i].payload.evidence : GoodPiece(e)
  BY DEF RowsAreGood, RowIsGood, Stored, NoRow

\* Whatever agent writes a row, it is good.
LEMMA PayloadsAreGood ==
    ASSUME NEW a, NEW i \in Item, NEW report \in Reports[i]
    PROVE  /\ IsFiniteSet(Payload(a, i, report).concepts)
           /\ \A e \in Payload(a, i, report).evidence : GoodPiece(e)
  <1> DEFINE kinds == Contract(a).kinds
  <1>0. /\ {Origin[i]} \subseteq Sources
        /\ \A cut : SourcesIn(report.threads, cut) \subseteq Sources
    <2>1. report.threads \in Seq({"hackernews", "github_discussion"})
      BY DigestsAssumption
    <2>2. \A n \in DOMAIN report.threads :
              report.threads[n] \in {"hackernews", "github_discussion"}
      BY <2>1, ElementOfSeq, LenProperties
    <2> QED BY <2>2 DEF Sources, SourcesIn
  <1>1. \A e \in PaperEvidence(i, Origin[i], kinds, report.claims, report.numbers) :
            GoodPiece(e)
    BY <1>0, PiecesAreClamped DEF PaperEvidence, GoodPiece
  <1>2. \A e \in RepoEvidence(i, Origin[i], kinds, report.adoption, report.notes) :
            GoodPiece(e)
    BY <1>0, PiecesAreClamped DEF RepoEvidence, GoodPiece
  <1>3. \A e \in CommunityEvidence(i, Origin[i], kinds, report.interest, report.threads,
                                   report.pains) : GoodPiece(e)
    BY <1>0, PiecesAreClamped DEF CommunityEvidence, GoodPiece
  <1>4. Payload(a, i, report).concepts = report.concepts
    BY DEF Payload
  <1>5. IsFiniteSet(report.concepts)
    BY ResearchAssumption
  <1>6. \A e \in Payload(a, i, report).evidence : GoodPiece(e)
    BY <1>1, <1>2, <1>3 DEF Payload
  <1> QED BY <1>4, <1>5, <1>6

\* A row that is written is good, whatever was there.
LEMMA UpsertedIsGood ==
    ASSUME NEW row, RowIsGood(row), NEW a, NEW i \in Item, NEW report \in Reports[i], NEW times
    PROVE  RowIsGood(Upserted(row, times, Payload(a, i, report)))
  <1> DEFINE payload == Payload(a, i, report)
  <1>1. IsFiniteSet(payload.concepts) /\ \A e \in payload.evidence : GoodPiece(e)
    BY PayloadsAreGood
  <1> HIDE DEF payload
  <1>2. Upserted(row, times, payload).payload = payload
    BY DEF Upserted
  <1>3. Upserted(row, times, payload).life \in Lives
    BY DEF Upserted, RowIsGood, NoRow, Lives
  <1> QED BY <1>1, <1>2, <1>3 DEF RowIsGood, payload

\* A pass moves evidence between rows and adds none.
LEMMA PassedAreGood ==
    ASSUME NEW order, NEW rows, NEW twins,
           \A i \in DOMAIN rows : \A e \in rows[i].evidence : GoodPiece(e)
    PROVE  /\ DOMAIN Pass(order, rows, twins).rows = DOMAIN rows
           /\ \A i \in DOMAIN rows :
                  \A e \in Pass(order, rows, twins).rows[i].evidence : GoodPiece(e)
  BY DEF Pass, Merged

LEMMA DeduplicatedAreGood ==
    ASSUME NEW order, NEW rows, NEW embedded,
           \A i \in DOMAIN rows : \A e \in rows[i].evidence : GoodPiece(e)
    PROVE  LET unique == Deduplicated(order, rows, embedded)
           IN  /\ DOMAIN unique.rows = DOMAIN rows
               /\ \A i \in DOMAIN rows : \A e \in unique.rows[i].evidence : GoodPiece(e)
  <1> DEFINE papers == Pass(order, rows, Papers(rows))
             named == {i \in DOMAIN rows : rows[i].identity # ""}
             sorted == Those(papers.kept, named) \o Those(papers.kept, DOMAIN rows \ named)
             unique == Pass(sorted, papers.rows, Alike(rows, embedded))
  <1>1. /\ DOMAIN papers.rows = DOMAIN rows
        /\ \A j \in DOMAIN rows : \A e \in papers.rows[j].evidence : GoodPiece(e)
    BY PassedAreGood
  <1>2. Deduplicated(order, rows, embedded) = unique
    BY DEF Deduplicated
  <1> HIDE DEF papers, sorted
  <1>3. /\ DOMAIN unique.rows = DOMAIN papers.rows
        /\ \A j \in DOMAIN papers.rows : \A e \in unique.rows[j].evidence : GoodPiece(e)
    BY <1>1, PassedAreGood
  <1> HIDE DEF unique
  <1> QED BY <1>1, <1>2, <1>3

\* The row of a group of good rows is good, whatever maturity the model states.
LEMMA ClusterRowsAreGood ==
    ASSUME NEW rows, NEW group \in SUBSET DOMAIN rows, NEW stated \in Stated,
           \A i \in DOMAIN rows : \A e \in rows[i].evidence : GoodPiece(e)
    PROVE  ClusterIsGood(ClusterRow(rows, group, stated))
  <1> DEFINE evidence == UNION {rows[i].evidence : i \in group}
             computed == ComputeMaturity(evidence, Cardinality(group))
             row == ClusterRow(rows, group, stated)
  <1>1. \A e \in evidence : GoodPiece(e)
    OBVIOUS
  <1>2. row.evidence = evidence /\ row.maturity = MinMaturity(stated, computed)
    BY DEF ClusterRow
  <1>3. row.maturity \in {"consolidating", "mature"} => Earned(evidence)
    <2>1. stated \in Maturities
      BY ResearchAssumption
    <2>2. computed \in {"speculative", "emerging", "consolidating", "mature"}
      BY ComputedIsALevel
    <2> HIDE DEF evidence
    <2>3. SUFFICES ASSUME row.maturity \in {"consolidating", "mature"}
                   PROVE  Earned(evidence)
      OBVIOUS
    <2>4. computed \in {"consolidating", "mature"}
      BY <1>2, <2>1, <2>2, <2>3, MaturityIsCapped
    <2> QED BY <1>1, <2>4, ComputedIsEarned
  <1>4. row.maturity \in Maturities
    <2>1. stated \in Maturities /\ computed \in Maturities
      BY ResearchAssumption, ComputedIsALevel DEF Maturities
    <2> QED BY <1>2, <2>1 DEF MinMaturity, Maturities
  <1> QED BY <1>1, <1>2, <1>3, <1>4 DEF ClusterIsGood

LEMMA SynthesiseKeepsInv ==
    ASSUME Inv, Synthesise
    PROVE  Inv'
  <1>1. PICK order \in SetToSeqs(DOMAIN synth.rows), first \in BOOLEAN :
            \E second \in {first, TRUE} :
            LET unique == Deduplicated(order, synth.rows, first)
                groups == Clustered(unique.kept, unique.rows, second)
            IN  \E taken \in Heaviest(groups, unique.rows) :
                \E made \in SUBSET taken :
                \E stated \in [made -> Stated] :
                    /\ clusters' = Replaced(clusters,
                                   [c \in made |-> ClusterRow(unique.rows, c, stated[c])])
                    /\ synth' = IF made = {} THEN Idle
                                ELSE [Idle EXCEPT !.pc = "announces", !.made = made]
    BY DEF Synthesise
  <1> DEFINE unique == Deduplicated(order, synth.rows, first)
  <1>a. PICK second \in BOOLEAN :
            \E taken \in Heaviest(Clustered(unique.kept, unique.rows, second), unique.rows) :
            \E made \in SUBSET taken :
            \E stated \in [made -> Stated] :
                /\ clusters' = Replaced(clusters, [c \in made |->
                                                   ClusterRow(unique.rows, c, stated[c])])
                /\ synth' = IF made = {} THEN Idle
                            ELSE [Idle EXCEPT !.pc = "announces", !.made = made]
    BY <1>1
  <1>b. PICK taken \in Heaviest(Clustered(unique.kept, unique.rows, second), unique.rows) :
            \E made \in SUBSET taken :
            \E stated \in [made -> Stated] :
                /\ clusters' = Replaced(clusters, [c \in made |->
                                                   ClusterRow(unique.rows, c, stated[c])])
                /\ synth' = IF made = {} THEN Idle
                            ELSE [Idle EXCEPT !.pc = "announces", !.made = made]
    BY <1>a
  <1>c. PICK made \in SUBSET taken :
            \E stated \in [made -> Stated] :
                /\ clusters' = Replaced(clusters, [c \in made |->
                                                   ClusterRow(unique.rows, c, stated[c])])
                /\ synth' = IF made = {} THEN Idle
                            ELSE [Idle EXCEPT !.pc = "announces", !.made = made]
    BY <1>b
  <1>2. PICK stated \in [made -> Stated] :
            /\ clusters' = Replaced(clusters, [c \in made |->
                                               ClusterRow(unique.rows, c, stated[c])])
            /\ synth' = IF made = {} THEN Idle
                        ELSE [Idle EXCEPT !.pc = "announces", !.made = made]
    BY <1>c
  <1>d. synth.pc = "thinks" /\ UNCHANGED <<memory, batch, pipes, verdicts>>
    BY DEF Synthesise
  <1>e. /\ DOMAIN synth.rows \subseteq Item /\ FiniteRows(synth.rows)
        /\ \A i \in DOMAIN synth.rows : \A e \in synth.rows[i].evidence : GoodPiece(e)
    BY <1>d DEF Inv, LoadedIsGood
  <1> DEFINE rows == synth.rows
  <1>3. /\ DOMAIN unique.rows = DOMAIN rows
        /\ \A i \in DOMAIN unique.rows : \A e \in unique.rows[i].evidence : GoodPiece(e)
    BY <1>e, DeduplicatedAreGood
  <1>f. unique.kept \in Seq(DOMAIN unique.rows) /\ IsInjective(unique.kept) /\ FiniteRows(unique.rows)
    <2> HIDE DEF rows
    <2>1. IsFiniteSet(DOMAIN rows) /\ FiniteRows(rows)
      BY <1>e DEF FiniteRows, rows
    <2>2. order \in SetToSeqs(DOMAIN rows)
      BY DEF rows
    <2>3. unique = Deduplicated(order, rows, first)
      BY DEF rows
    <2> HIDE DEF unique
    <2> QED BY <1>3, <2>1, <2>2, <2>3, DeduplicatedIs
  <1> HIDE DEF unique
  <1>4. \A c \in made : c \in Clustered(unique.kept, unique.rows, second)
    BY <1>2 DEF Heaviest
  <1>g. \A c \in made : c \subseteq DOMAIN unique.rows /\ c # {} /\ c \subseteq Item
    <2>1. DOMAIN unique.rows \subseteq Item
      BY <1>3, <1>e
    <2> QED BY <1>4, <1>f, <2>1, ClusteredAre
  <1>5. \A c \in made : ClusterIsGood(ClusterRow(unique.rows, c, stated[c]))
    <2>1. \A c \in made : c \in SUBSET DOMAIN unique.rows /\ stated[c] \in Stated
      BY <1>g
    <2> QED BY <1>3, <2>1, ClusterRowsAreGood
  <1>6. /\ DOMAIN clusters' = made \cup DOMAIN clusters
        /\ \A c \in made : clusters'[c] = ClusterRow(unique.rows, c, stated[c])
        /\ \A c \in DOMAIN clusters \ made : clusters'[c] = clusters[c]
    BY <1>2 DEF Replaced
  <1>7. synth'.made = made /\ synth'.pc \in {"idle", "announces"}
    BY <1>2 DEF Idle
  <1>9. RowsAreGood' /\ BatchesAreGood'
    BY <1>d DEF Inv, RowsAreGood, BatchesAreGood
  <1>10. LoadedIsGood'
    BY <1>7 DEF LoadedIsGood
  <1>11. ClustersAreGood'
    BY <1>5, <1>6, <1>g DEF Inv, ClustersAreGood
  <1>12. PipesAreGood'
    BY <1>6, <1>7, <1>d DEF Inv, PipesAreGood
  <1>13. StructuralChangesAreEarned'
    BY <1>d DEF Inv, StructuralChangesAreEarned
  <1> QED BY <1>9, <1>10, <1>11, <1>12, <1>13 DEF Inv

-----------------------------------------------------------------------------
(* The other steps *)

LEMMA InitInv == Init => Inv
  <1> SUFFICES ASSUME Init PROVE Inv
    OBVIOUS
  <1>1. DOMAIN clusters = {} /\ DOMAIN pipes = {} /\ DOMAIN verdicts = {}
    BY DEF Init
  <1>2. RowsAreGood
    BY DEF Init, RowsAreGood, RowIsGood
  <1>3. LoadedIsGood /\ synth.made = {}
    BY DEF Init, LoadedIsGood, Idle
  <1>4. BatchesAreGood
    <2>1. ToSet(<<>>) = {}
      BY DEF ToSet
    <2> QED BY <2>1 DEF Init, BatchesAreGood
  <1> QED BY <1>1, <1>2, <1>3, <1>4
          DEF Inv, ClustersAreGood, PipesAreGood, StructuralChangesAreEarned

\* What a step that leaves all but the pipelines alone keeps of the invariant.
LEMMA RestIsKept ==
    ASSUME Inv, UNCHANGED <<memory, batch, synth, clusters, verdicts>>,
           DOMAIN pipes' = DOMAIN pipes, \A c \in DOMAIN pipes : pipes'[c] \in PipeStates
    PROVE  Inv'
  <1>1. RowsAreGood' /\ BatchesAreGood' /\ LoadedIsGood' /\ ClustersAreGood'
    BY DEF Inv, RowsAreGood, BatchesAreGood, LoadedIsGood, ClustersAreGood
  <1>2. PipesAreGood' /\ StructuralChangesAreEarned'
    BY DEF Inv, PipesAreGood, StructuralChangesAreEarned
  <1> QED BY <1>1, <1>2 DEF Inv

\* What a step of agents and memory keeps of it.
LEMMA OthersAreKept ==
    ASSUME Inv, UNCHANGED <<synth, clusters, pipes, verdicts>>, RowsAreGood', BatchesAreGood'
    PROVE  Inv'
  <1>1. LoadedIsGood' /\ ClustersAreGood'
    BY DEF Inv, LoadedIsGood, ClustersAreGood
  <1>2. PipesAreGood' /\ StructuralChangesAreEarned'
    BY DEF Inv, PipesAreGood, StructuralChangesAreEarned
  <1> QED BY <1>1, <1>2 DEF Inv

\* One batch that changes to findings of its agent.
LEMMA BatchIsKept ==
    ASSUME BatchesAreGood, NEW a \in Agent, NEW some, ToSet(some) \subseteq Finds[a],
           batch' = [batch EXCEPT ![a] = some]
    PROVE  BatchesAreGood'
  <1>1. DOMAIN batch' = Agent /\ \A b \in Agent : batch'[b] = IF b = a THEN some ELSE batch[b]
    BY DEF BatchesAreGood
  <1> QED BY <1>1 DEF BatchesAreGood

LEMMA DiscoverKeepsInv ==
    ASSUME Inv, NEW a \in Agent, Discover(a)
    PROVE  Inv'
  <1>1. PICK raw \in SeqOf(Finds[a], 2) :
            batch' = [batch EXCEPT ![a] = Those(raw, {i \in Finds[a] : ~Known(a, i)})]
    BY DEF Discover
  <1>2. raw \in Seq(Finds[a])
    <2>1. PICK m \in 0 .. 2 : raw \in [1 .. m -> Finds[a]]
      BY DEF SeqOf
    <2> QED BY <2>1
  <1>3. ToSet(raw) \subseteq Finds[a]
    <2>1. DOMAIN raw = 1 .. Len(raw) /\ \A k \in 1 .. Len(raw) : raw[k] \in Finds[a]
      BY <1>2, LenProperties, ElementOfSeq
    <2> QED BY <2>1 DEF ToSet
  <1> DEFINE new == {i \in Finds[a] : ~Known(a, i)}
  <1> HIDE DEF new
  <1>4. ToSet(Those(raw, new)) = ToSet(raw) \cap new
    BY <1>2, ThoseAre
  <1>5. batch' = [batch EXCEPT ![a] = Those(raw, new)]
    BY <1>1 DEF new
  <1>6. BatchesAreGood'
    BY <1>3, <1>4, <1>5, BatchIsKept DEF Inv
  <1>7. UNCHANGED <<memory, synth, clusters, pipes, verdicts>>
    BY DEF Discover
  <1>8. RowsAreGood'
    BY <1>7 DEF Inv, RowsAreGood
  <1> QED BY <1>6, <1>7, <1>8, OthersAreKept

LEMMA PersistKeepsInv ==
    ASSUME Inv, NEW a \in Agent, Persist(a)
    PROVE  Inv'
  <1>1. PICK kept \in SUBSET DOMAIN batch[a],
             report \in [ToSet(batch[a]) -> UNION {Reports[i] : i \in Item}] :
            /\ \A i \in ToSet(batch[a]) : report[i] \in Reports[i]
            /\ memory' = [i \in Item |->
                   IF \E n \in kept : batch[a][n] = i
                   THEN Upserted(memory[i], Cardinality({n \in kept : batch[a][n] = i}),
                                 Payload(a, i, report[i]))
                   ELSE memory[i]]
    BY DEF Persist
  <1>2. ASSUME NEW i \in Item PROVE RowIsGood(memory'[i])
    <2>1. RowIsGood(memory[i])
      BY DEF Inv, RowsAreGood
    <2>2. CASE \E n \in kept : batch[a][n] = i
      <3>1. memory'[i] = Upserted(memory[i], Cardinality({n \in kept : batch[a][n] = i}),
                                  Payload(a, i, report[i]))
        BY <1>1, <2>2
      <3>2. i \in ToSet(batch[a])
        BY <2>2 DEF ToSet
      <3>3. report[i] \in Reports[i]
        BY <1>1, <3>2
      <3> QED BY <2>1, <3>1, <3>3, UpsertedIsGood
    <2>3. CASE ~ \E n \in kept : batch[a][n] = i
      BY <1>1, <2>1, <2>3
    <2> QED BY <2>2, <2>3
  <1>3. RowsAreGood'
    BY <1>1, <1>2 DEF RowsAreGood
  <1>4. BatchesAreGood'
    <2>1. batch' = [batch EXCEPT ![a] = <<>>] /\ ToSet(<<>>) = {}
      BY DEF Persist, ToSet
    <2> QED BY <2>1, BatchIsKept DEF Inv
  <1>5. UNCHANGED <<synth, clusters, pipes, verdicts>>
    BY DEF Persist
  <1> QED BY <1>3, <1>4, <1>5, OthersAreKept

LEMMA DigestKeepsInv ==
    ASSUME Inv, NEW a \in Agent, Digest(a)
    PROVE  Inv'
  <1>1. PICK i \in Finds[a] : \E report \in Reports[i] :
            memory' = [memory EXCEPT ![i] = Upserted(@, 1, Payload(a, i, report))]
    BY DEF Digest
  <1>2. PICK report \in Reports[i] :
            memory' = [memory EXCEPT ![i] = Upserted(@, 1, Payload(a, i, report))]
    BY <1>1
  <1>3. i \in Item /\ DOMAIN memory = Item /\ \A j \in Item : RowIsGood(memory[j])
    BY <1>1, ResearchAssumption DEF Inv, RowsAreGood
  <1>4. RowIsGood(Upserted(memory[i], 1, Payload(a, i, report)))
    BY <1>3, UpsertedIsGood
  <1>5. RowsAreGood'
    BY <1>2, <1>3, <1>4 DEF RowsAreGood
  <1>6. UNCHANGED <<batch, synth, clusters, pipes, verdicts>>
    BY DEF Digest
  <1>7. BatchesAreGood'
    BY <1>6 DEF Inv, BatchesAreGood
  <1> QED BY <1>5, <1>6, <1>7, OthersAreKept

LEMMA LoadKeepsInv ==
    ASSUME Inv, Load
    PROVE  Inv'
  <1>1. PICK due \in SUBSET {i \in Item : memory[i].life = "MONITOR"},
             loaded \in SUBSET Item :
            /\ \A i \in loaded : Stored(i)
            /\ synth' = [pc |-> "thinks", made |-> {},
                         rows |-> [i \in loaded |-> memory[i].payload]]
    BY DEF Load, Undigested, kSubset, Stored
  <1>2. UNCHANGED <<memory, batch, clusters, pipes, verdicts>>
    BY DEF Load
  <1>3. \A i \in loaded : /\ IsFiniteSet(memory[i].payload.concepts)
                          /\ \A e \in memory[i].payload.evidence : GoodPiece(e)
    BY <1>1, StoredRowsAreGood DEF Inv
  <1>4. IsFiniteSet(loaded)
    BY ResearchAssumption, FS_Subset
  <1>5. LoadedIsGood'
    BY <1>1, <1>3, <1>4 DEF LoadedIsGood, FiniteRows
  <1>6. RowsAreGood' /\ BatchesAreGood' /\ ClustersAreGood'
    BY <1>2 DEF Inv, RowsAreGood, BatchesAreGood, ClustersAreGood
  <1>7. synth'.made = {}
    BY <1>1
  <1>8. PipesAreGood' /\ StructuralChangesAreEarned'
    BY <1>2, <1>7 DEF Inv, PipesAreGood, StructuralChangesAreEarned
  <1> QED BY <1>5, <1>6, <1>8 DEF Inv

LEMMA AnnounceKeepsInv ==
    ASSUME Inv, Announce
    PROVE  Inv'
  <1>1. /\ DOMAIN pipes \subseteq DOMAIN pipes' /\ DOMAIN pipes' \subseteq DOMAIN clusters
        /\ \A c \in DOMAIN pipes' : pipes'[c] \in PipeStates
    BY DEF Announce, Replaced, Inv, PipesAreGood, PipeStates
  <1>2. /\ synth'.pc = "idle" /\ synth'.made = {}
        /\ UNCHANGED <<memory, batch, clusters, verdicts>>
    BY DEF Announce, Idle
  <1>3. LoadedIsGood'
    BY <1>2 DEF LoadedIsGood
  <1>4. RowsAreGood' /\ BatchesAreGood' /\ ClustersAreGood'
    BY <1>2 DEF Inv, RowsAreGood, BatchesAreGood, ClustersAreGood
  <1>5. PipesAreGood' /\ StructuralChangesAreEarned'
    BY <1>1, <1>2 DEF Inv, PipesAreGood, StructuralChangesAreEarned
  <1> QED BY <1>3, <1>4, <1>5 DEF Inv

\* A decision is one there is, and a structural one is earned.
LEMMA DecisionIs ==
    ASSUME NEW c, NEW asked, ClusterIsGood(clusters[c])
    PROVE  /\ Decision(c, asked) \in Decisions
           /\ Decision(c, asked) \in Structural => Earned(clusters[c].evidence)
  <1>1. Decision(c, asked) \in Decisions
    BY DEF Decision, Enforced, Allowed, Decisions
  <1>2. ASSUME Decision(c, asked) \in Structural PROVE Earned(clusters[c].evidence)
    <2>1. Enforced(asked, clusters[c].maturity) \in Structural
      BY <1>2 DEF Decision, Structural
    <2>2. asked \in Allowed(clusters[c].maturity) /\ asked \in Structural
      BY <2>1 DEF Enforced, Structural
    <2>3. clusters[c].maturity \in {"consolidating", "mature"}
      BY <2>2 DEF Allowed, RequiredMaturity, Structural
    <2> QED BY <2>3 DEF ClusterIsGood
  <1> QED BY <1>1, <1>2

LEMMA JudgeKeepsInv ==
    ASSUME Inv, NEW c \in DOMAIN pipes, Judge(c)
    PROVE  Inv'
  <1>1. PICK asked \in Asked :
            /\ verdicts' = Replaced(verdicts, [d \in {c} |->
                   [decision |-> Decision(c, asked), evidence |-> clusters[c].evidence]])
            /\ memory' = [i \in Item |->
                   IF i \in c /\ Stored(i)
                   THEN [life |-> LifeAfter(Decision(c, asked)), payload |-> memory[i].payload]
                   ELSE memory[i]]
            /\ \/ pipes' = [pipes EXCEPT ![c] = StateAfter(Decision(c, asked))]
               \/ pipes' = pipes
    BY DEF Judge
  <1>2. UNCHANGED <<batch, synth, clusters>>
    BY DEF Judge
  <1>3. RowsAreGood'
    <2>1. ASSUME NEW i \in Item PROVE RowIsGood(memory'[i])
      <3>1. RowIsGood(memory[i])
        BY DEF Inv, RowsAreGood
      <3>2. CASE i \in c /\ Stored(i)
        <4>1. memory'[i] = [life |-> LifeAfter(Decision(c, asked)), payload |-> memory[i].payload]
          BY <1>1, <3>2
        <4>2. LifeAfter(Decision(c, asked)) \in Lives
          BY DEF LifeAfter, Lives
        <4>3. /\ IsFiniteSet(memory[i].payload.concepts)
              /\ \A e \in memory[i].payload.evidence : GoodPiece(e)
          BY <3>2, StoredRowsAreGood DEF Inv
        <4> QED BY <4>1, <4>2, <4>3 DEF RowIsGood
      <3>3. CASE ~(i \in c /\ Stored(i))
        BY <1>1, <3>1, <3>3
      <3> QED BY <3>2, <3>3
    <2> QED BY <1>1, <2>1 DEF RowsAreGood
  <1>4. /\ Decision(c, asked) \in Decisions
        /\ Decision(c, asked) \in Structural => Earned(clusters[c].evidence)
    BY DecisionIs DEF Inv, PipesAreGood, ClustersAreGood
  <1>5. /\ DOMAIN verdicts' = DOMAIN verdicts \cup {c}
        /\ verdicts'[c].decision = Decision(c, asked)
        /\ verdicts'[c].evidence = clusters[c].evidence
        /\ \A d \in DOMAIN verdicts \ {c} : verdicts'[d] = verdicts[d]
    BY <1>1 DEF Replaced
  <1>6. StructuralChangesAreEarned'
    BY <1>4, <1>5 DEF Inv, StructuralChangesAreEarned
  <1>7. DOMAIN pipes' = DOMAIN pipes /\ \A d \in DOMAIN pipes : pipes'[d] \in PipeStates
    <2>1. StateAfter(Decision(c, asked)) \in PipeStates
      BY DEF StateAfter, PipeStates, Ended
    <2> QED BY <1>1, <2>1 DEF Inv, PipesAreGood
  <1>8. PipesAreGood'
    BY <1>2, <1>4, <1>5, <1>7 DEF Inv, PipesAreGood
  <1>9. LoadedIsGood' /\ ClustersAreGood' /\ BatchesAreGood'
    BY <1>2 DEF Inv, LoadedIsGood, ClustersAreGood, BatchesAreGood
  <1> QED BY <1>3, <1>6, <1>8, <1>9 DEF Inv

LEMMA ExpireKeepsInv ==
    ASSUME Inv, NEW i \in Item, Expire(i)
    PROVE  Inv'
  <1>1. UNCHANGED <<batch, synth, clusters, pipes, verdicts>>
    BY DEF Expire
  <1>2. Stored(i) /\ memory' = [memory EXCEPT ![i] = [life |-> "DISMISSED", payload |-> @.payload]]
    BY DEF Expire, Stored
  <1>3. /\ IsFiniteSet(memory[i].payload.concepts)
        /\ \A e \in memory[i].payload.evidence : GoodPiece(e)
    BY <1>2, StoredRowsAreGood DEF Inv
  <1>4. DOMAIN memory = Item /\ \A j \in Item : RowIsGood(memory[j])
    BY DEF Inv, RowsAreGood
  <1>5. /\ DOMAIN memory' = Item
        /\ memory'[i] = [life |-> "DISMISSED", payload |-> memory[i].payload]
        /\ \A j \in Item \ {i} : memory'[j] = memory[j]
    BY <1>2, <1>4
  <1>6. RowIsGood(memory'[i])
    BY <1>3, <1>5 DEF RowIsGood, Lives
  <1>7. RowsAreGood'
    BY <1>4, <1>5, <1>6 DEF RowsAreGood
  <1>8. BatchesAreGood'
    BY <1>1 DEF Inv, BatchesAreGood
  <1> QED BY <1>1, <1>7, <1>8, OthersAreKept

LEMMA CrashKeepsInv ==
    ASSUME Inv, Crash
    PROVE  Inv'
  <1>1. /\ synth'.pc = "idle" /\ synth'.made = {}
        /\ UNCHANGED <<memory, clusters, pipes, verdicts>>
    BY DEF Crash, Idle
  <1>2. BatchesAreGood'
    <2>1. ToSet(<<>>) = {}
      BY DEF ToSet
    <2> QED BY <2>1 DEF Crash, BatchesAreGood
  <1>3. LoadedIsGood'
    BY <1>1 DEF LoadedIsGood
  <1>4. RowsAreGood' /\ ClustersAreGood' /\ PipesAreGood' /\ StructuralChangesAreEarned'
    BY <1>1 DEF Inv, RowsAreGood, ClustersAreGood, PipesAreGood, StructuralChangesAreEarned
  <1> QED BY <1>2, <1>3, <1>4 DEF Inv

LEMMA NextKeepsInv == Inv /\ [Next]_vars => Inv'
  <1> SUFFICES ASSUME Inv, [Next]_vars PROVE Inv'
    OBVIOUS
  <1>1. ASSUME NEW c \in DOMAIN pipes, Queue(c) \/ JudgeFails(c) \/ Finish(c) \/ Requeue(c)
        PROVE  Inv'
    <2>1. \A d \in DOMAIN pipes : pipes[d] \in PipeStates
      BY DEF Inv, PipesAreGood
    <2>2. UNCHANGED <<memory, batch, synth, clusters, verdicts>>
      BY <1>1 DEF Queue, JudgeFails, Finish, Requeue
    <2>3. /\ DOMAIN pipes' = DOMAIN pipes
          /\ \A d \in DOMAIN pipes : pipes'[d] \in PipeStates
      BY <1>1, <2>1 DEF Queue, JudgeFails, Finish, Requeue, PipeStates, Ended
    <2> QED BY <2>2, <2>3, RestIsKept
  <1>2. CASE UNCHANGED vars
    <2>1. \A d \in DOMAIN pipes : pipes[d] \in PipeStates
      BY DEF Inv, PipesAreGood
    <2> QED BY <1>2, <2>1, RestIsKept DEF vars
  <1> QED BY <1>1, <1>2, DiscoverKeepsInv, PersistKeepsInv, DigestKeepsInv, LoadKeepsInv,
             SynthesiseKeepsInv, AnnounceKeepsInv, JudgeKeepsInv, ExpireKeepsInv,
             CrashKeepsInv DEF Next

-----------------------------------------------------------------------------
(* Theorems *)

\* Every row, batch, cluster, pipeline and verdict is one the code can have written.
THEOREM TypeCorrect == Spec => []TypeOK
  <1>1. Inv => TypeOK
    <2> SUFFICES ASSUME Inv PROVE TypeOK
      OBVIOUS
    <2>1. \A i \in Item : memory[i] = NoRow \/ memory[i].life \in Lives
      BY DEF Inv, RowsAreGood, RowIsGood
    <2> QED BY <2>1 DEF Inv, BatchesAreGood, LoadedIsGood, ClustersAreGood, ClusterIsGood,
               PipesAreGood, TypeOK
  <1> QED BY <1>1, InitInv, NextKeepsInv, PTL DEF Spec

\* No piece of evidence is of a kind the source of its item cannot support.
THEOREM EvidenceIsSafe == Spec => []EvidenceStaysInKind
  <1>1. Inv => EvidenceStaysInKind
    BY StoredRowsAreGood
       DEF Inv, ClustersAreGood, ClusterIsGood, EvidenceStaysInKind, GoodPiece
  <1> QED BY <1>1, InitInv, NextKeepsInv, PTL DEF Spec

\* A structural change of the book rests on evidence that has earned it.
THEOREM StructuralIsSafe == Spec => []StructuralChangesAreEarned
  <1>1. Inv => StructuralChangesAreEarned
    BY DEF Inv
  <1> QED BY <1>1, InitInv, NextKeepsInv, PTL DEF Spec

\* Of one paper one item is left, in whatever order the rows come and whether or not the
\* embedding service answers, and all the evidence is kept.
THEOREM DuplicatesFolded == Spec => []DuplicatesAreFolded
  <1>1. Inv => DuplicatesAreFolded
    <2> SUFFICES ASSUME Inv, synth.pc = "thinks", NEW embedded \in BOOLEAN,
                        NEW order \in SetToSeqs(DOMAIN synth.rows)
                 PROVE  LET unique == Deduplicated(order, synth.rows, embedded)
                        IN  /\ \A i, j \in ToSet(unique.kept) :
                                   SamePaper(synth.rows, i, j) => i = j
                            /\ UNION {unique.rows[i].evidence : i \in ToSet(unique.kept)}
                               = UNION {synth.rows[i].evidence : i \in DOMAIN synth.rows}
      BY DEF DuplicatesAreFolded
    <2> DEFINE rows == synth.rows
               unique == Deduplicated(order, rows, embedded)
    <2>1. IsFiniteSet(DOMAIN rows) /\ order \in SetToSeqs(DOMAIN rows)
      BY DEF Inv, LoadedIsGood, FiniteRows
    <2> HIDE DEF rows
    <2>2. /\ \A i, j \in ToSet(unique.kept) : SamePaper(rows, i, j) => i = j
          /\ EvidenceOf(unique.rows, ToSet(unique.kept)) = EvidenceOf(rows, DOMAIN rows)
      BY <2>1, DeduplicatedIs
    <2> HIDE DEF unique
    <2> QED BY <2>2 DEF EvidenceOf, unique, rows
  <1> QED BY <1>1, InitInv, NextKeepsInv, PTL DEF Spec

\* The members of every group fit one another on average, whatever the similarities are.
THEOREM GroupsHold == Spec => []GroupsHoldTogether
  <1>1. Inv => GroupsHoldTogether
    <2> SUFFICES ASSUME Inv, synth.pc = "thinks", NEW embedded \in BOOLEAN,
                        NEW order \in SetToSeqs(DOMAIN synth.rows)
                 PROVE  LET unique == Deduplicated(order, synth.rows, embedded)
                            groups == Clustered(unique.kept, unique.rows, embedded)
                        IN  \A g \in groups : HoldsTogether(unique.rows, embedded, g)
      BY DEF GroupsHoldTogether
    <2> DEFINE rows == synth.rows
               unique == Deduplicated(order, rows, embedded)
    <2>1. /\ IsFiniteSet(DOMAIN rows) /\ order \in SetToSeqs(DOMAIN rows)
          /\ FiniteRows(rows) /\ DOMAIN rows \subseteq Item
      BY DEF Inv, LoadedIsGood, FiniteRows
    <2> HIDE DEF rows
    <2>2. /\ DOMAIN unique.rows = DOMAIN rows /\ FiniteRows(unique.rows)
          /\ unique.kept \in Seq(DOMAIN rows) /\ IsInjective(unique.kept)
      BY <2>1, DeduplicatedIs
    <2> HIDE DEF unique
    <2>3. \A g \in Clustered(unique.kept, unique.rows, embedded) :
              HoldsTogether(unique.rows, embedded, g)
      BY <2>1, <2>2, ClusteredAre
    <2> QED BY <2>3 DEF unique, rows
  <1> QED BY <1>1, InitInv, NextKeepsInv, PTL DEF Spec

\* No step takes a decided row back to the undecided ones.
THEOREM DecisionsAreKept == Spec => DecidedStaysDecided
  <1> DEFINE decided == {"MONITOR", "DISMISSED", "INTEGRATED"}
             kept == \A i \in Item : memory[i].life \in decided => memory'[i].life \in decided
  <1>1. Inv /\ [Next]_vars => [kept]_vars
    <2> SUFFICES ASSUME Inv, Next PROVE kept
      OBVIOUS
    <2>1. DOMAIN memory = Item
      BY DEF Inv, RowsAreGood
    <2>2. ASSUME UNCHANGED memory PROVE kept
      BY <2>2
    <2>3. ASSUME NEW a \in Agent, Persist(a) PROVE kept
      <3>1. PICK kpt \in SUBSET DOMAIN batch[a],
                 report \in [ToSet(batch[a]) -> UNION {Reports[i] : i \in Item}] :
                memory' = [i \in Item |->
                    IF \E n \in kpt : batch[a][n] = i
                    THEN Upserted(memory[i], Cardinality({n \in kpt : batch[a][n] = i}),
                                  Payload(a, i, report[i]))
                    ELSE memory[i]]
        BY <2>3 DEF Persist
      <3>2. ASSUME NEW i \in Item, memory[i].life \in decided,
                   NEW times, NEW payload
            PROVE  Upserted(memory[i], times, payload).life = memory[i].life
        BY <3>2 DEF Upserted
      <3> QED BY <3>1, <3>2
    <2>4. ASSUME NEW a \in Agent, Digest(a) PROVE kept
      BY <2>1, <2>4 DEF Digest, Stored, Upserted
    <2>5. ASSUME NEW c \in DOMAIN pipes, Judge(c) PROVE kept
      BY <2>5 DEF Judge, LifeAfter
    <2>6. ASSUME NEW i \in Item, Expire(i) PROVE kept
      BY <2>1, <2>6 DEF Expire
    <2>7. ASSUME NEW a \in Agent, Discover(a) PROVE kept
      BY <2>7, <2>2 DEF Discover
    <2>8. ASSUME NEW c \in DOMAIN pipes, Queue(c) \/ JudgeFails(c) \/ Finish(c) \/ Requeue(c)
          PROVE  kept
      BY <2>8, <2>2 DEF Queue, JudgeFails, Finish, Requeue
    <2>9. CASE Load \/ Synthesise \/ Announce \/ Crash
      BY <2>9, <2>2 DEF Load, Synthesise, Announce, Crash
    <2> HIDE DEF kept
    <2> QED BY <2>3, <2>4, <2>5, <2>6, <2>7, <2>8, <2>9 DEF Next
  <1> QED BY <1>1, InitInv, NextKeepsInv, PTL DEF Spec, DecidedStaysDecided

=============================================================================

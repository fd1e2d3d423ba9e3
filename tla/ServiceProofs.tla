--------------------------- MODULE ServiceProofs ---------------------------
(* Proofs about what the agents call on: the model behind its pool of keys (GeminiProvider, *)
(* for any number of calls and keys), and the knowledge base (Knowledge, for every          *)
(* manuscript, every set of processes that index it, and whatever Rows makes of a text).    *)
EXTENDS GeminiProvider, Knowledge, FiniteSetTheorems, SequenceTheorems, NaturalsInduction,
        WellFoundedInduction, TLAPS

-----------------------------------------------------------------------------
(* The pool.  The two lines of cooling keys are sequences without repetition, and share *)
(* no key; so an operation is a lemma about one sequence, and the type of the two put   *)
(* together follows.                                                                    *)

InLine(line) == line \in Seq(Key) /\ IsInjective(line)

PoolInv ==
    /\ disabled \subseteq Key
    /\ InLine(soon) /\ InLine(cooling)
    /\ ToSet(soon) \cap ToSet(cooling) = {}

LEMMA WithoutIs ==
  ASSUME NEW line, InLine(line), NEW k
  PROVE  InLine(Without(line, k)) /\ ToSet(Without(line, k)) = ToSet(line) \ {k}
PROOF
  <1>1. CASE k \notin ToSet(line)
    BY <1>1 DEF Without
  <1>2. CASE k \in ToSet(line)
    <2> DEFINE n == CHOOSE i \in DOMAIN line : line[i] = k
               size == Len(line)
               front == SubSeq(line, 1, n - 1)
               back == SubSeq(line, n + 1, size)
               rest == front \o back
    <2>1. line \in Seq(Key) /\ size \in Nat /\ DOMAIN line = 1 .. size
      BY DEF InLine
    <2>2. n \in 1 .. size /\ line[n] = k
      <3>1. \E i \in DOMAIN line : line[i] = k
        BY <1>2 DEF ToSet
      <3> QED
        BY <3>1, <2>1
    <2>3. Without(line, k) = rest
      BY <1>2 DEF Without, RemoveAt
    <2> HIDE DEF n, size
    <2>4. front \in Seq(Key) /\ Len(front) = n - 1 /\ \A i \in 1 .. n - 1 : front[i] = line[i]
      <3>1. 1 \in Int /\ n - 1 \in Int /\ \A i \in 1 .. n - 1 : line[i] \in Key
        BY <2>1, <2>2
      <3> QED
        BY <2>1, <2>2, <3>1, SubSeqProperties
    <2>5. /\ back \in Seq(Key) /\ Len(back) = size - n
          /\ \A i \in 1 .. size - n : back[i] = line[n + i]
      <3>1. n + 1 \in Int /\ size \in Int /\ \A i \in n + 1 .. size : line[i] \in Key
        BY <2>1, <2>2
      <3>2. /\ back \in Seq(Key) /\ Len(back) = IF n + 1 <= size THEN size - (n + 1) + 1 ELSE 0
            /\ \A i \in 1 .. size - (n + 1) + 1 : back[i] = line[(n + 1) + i - 1]
        BY <3>1, SubSeqProperties
      <3>3. size - (n + 1) + 1 = size - n /\ \A i \in 1 .. size - n : (n + 1) + i - 1 = n + i
        BY <2>1, <2>2
      <3> HIDE DEF back
      <3> QED
        BY <2>1, <2>2, <3>2, <3>3
    <2> HIDE DEF front, back
    <2>6. rest \in Seq(Key) /\ Len(rest) = size - 1 /\ DOMAIN rest = 1 .. size - 1
      <3>1. rest \in Seq(Key) /\ Len(rest) = Len(front) + Len(back)
        BY <2>4, <2>5
      <3>2. Len(rest) = size - 1
        BY <2>1, <2>2, <2>4, <2>5, <3>1
      <3> HIDE DEF rest
      <3> QED
        BY <3>1, <3>2
    <2>7. \A i \in 1 .. size - 1 : rest[i] = IF i < n THEN line[i] ELSE line[i + 1]
      <3> TAKE i \in 1 .. size - 1
      <3>1. CASE i < n
        BY <3>1, <2>1, <2>2, <2>4, <2>5
      <3>2. CASE i >= n
        <4>1. rest[i] = back[i - (n - 1)]
          BY <3>2, <2>1, <2>2, <2>4, <2>5
        <4>2. i - (n - 1) \in 1 .. size - n /\ n + (i - (n - 1)) = i + 1
          BY <3>2, <2>1, <2>2
        <4>3. back[i - (n - 1)] = line[n + (i - (n - 1))]
          BY <4>2, <2>5
        <4> QED
          BY <3>2, <4>1, <4>2, <4>3, <2>1, <2>2
      <3>3. i < n \/ i >= n
        BY <2>1, <2>2
      <3> HIDE DEF rest
      <3> QED
        BY <3>1, <3>2, <3>3
    <2> HIDE DEF rest
    <2>8. \A i, j \in 1 .. size : line[i] = line[j] => i = j
      BY <2>1 DEF InLine, IsInjective
    <2>9. IsInjective(rest)
      <3> SUFFICES ASSUME NEW i \in 1 .. size - 1, NEW j \in 1 .. size - 1, rest[i] = rest[j]
                   PROVE  i = j
        BY <2>6 DEF IsInjective
      <3> DEFINE at1 == IF i < n THEN i ELSE i + 1
                 at2 == IF j < n THEN j ELSE j + 1
      <3>1. at1 \in 1 .. size /\ at2 \in 1 .. size /\ (at1 = at2 => i = j)
        BY <2>1, <2>2
      <3>2. rest[i] = line[at1] /\ rest[j] = line[at2]
        BY <2>7
      <3> HIDE DEF at1, at2
      <3> QED
        BY <2>8, <3>1, <3>2
    <2>10. ASSUME NEW x \in ToSet(rest) PROVE x \in ToSet(line) \ {k}
      <3>1. PICK i \in 1 .. size - 1 : x = rest[i]
        BY <2>6 DEF ToSet
      <3>2. i \in 1 .. size /\ i + 1 \in 1 .. size
        BY <2>1
      <3> QED
        BY <3>1, <3>2, <2>1, <2>2, <2>7, <2>8 DEF ToSet
    <2>11. ASSUME NEW x \in ToSet(line) \ {k} PROVE x \in ToSet(rest)
      <3>1. PICK i \in 1 .. size : x = line[i]
        BY <2>1 DEF ToSet
      <3>2. i # n
        BY <3>1, <2>2
      <3>3. CASE i < n
        <4>1. i \in 1 .. size - 1 /\ rest[i] = x
          BY <3>1, <3>3, <2>1, <2>2, <2>7
        <4> QED BY <4>1, <2>6 DEF ToSet
      <3>4. CASE i > n
        <4>1. i - 1 \in 1 .. size - 1 /\ rest[i - 1] = x
          BY <3>1, <3>4, <2>1, <2>2, <2>7
        <4> QED BY <4>1, <2>6 DEF ToSet
      <3> QED
        BY <3>2, <3>3, <3>4, <2>1, <2>2
    <2> QED
      BY <2>3, <2>6, <2>9, <2>10, <2>11 DEF InLine
  <1> QED
    BY <1>1, <1>2

LEMMA AppendIs ==
  ASSUME NEW line, InLine(line), NEW k \in Key, k \notin ToSet(line)
  PROVE  InLine(Append(line, k)) /\ ToSet(Append(line, k)) = ToSet(line) \cup {k}
PROOF
  <1> DEFINE more == Append(line, k)
             size == Len(line)
  <1>1. /\ line \in Seq(Key) /\ size \in Nat /\ DOMAIN line = 1 .. size
        /\ \A i, j \in 1 .. size : line[i] = line[j] => i = j
    BY DEF InLine, IsInjective
  <1>2. \A i \in 1 .. size : line[i] # k
    BY <1>1 DEF ToSet
  <1>3. /\ more \in Seq(Key) /\ DOMAIN more = 1 .. size + 1
        /\ \A i \in 1 .. size : more[i] = line[i]
        /\ more[size + 1] = k
    BY <1>1
  <1> HIDE DEF more, size
  <1>4. IsInjective(more)
    BY <1>1, <1>2, <1>3 DEF IsInjective
  <1>5. ASSUME NEW x \in ToSet(more) PROVE x \in ToSet(line) \cup {k}
    <2>1. PICK i \in 1 .. size + 1 : x = more[i]
      BY <1>3 DEF ToSet
    <2>2. i \in 1 .. size \/ i = size + 1
      BY <1>1
    <2> QED
      BY <2>1, <2>2, <1>1, <1>3 DEF ToSet
  <1>6. ASSUME NEW x \in ToSet(line) \cup {k} PROVE x \in ToSet(more)
    <2>1. CASE x = k
      <3>1. size + 1 \in 1 .. size + 1
        BY <1>1
      <3> QED BY <2>1, <3>1, <1>3 DEF ToSet
    <2>2. CASE x \in ToSet(line)
      <3>1. PICK i \in 1 .. size : x = line[i]
        BY <2>2, <1>1 DEF ToSet
      <3>2. i \in 1 .. size + 1 /\ more[i] = x
        BY <3>1, <1>1, <1>3
      <3> QED BY <3>2, <1>3 DEF ToSet
    <2> QED BY <2>1, <2>2
  <1> QED
    BY <1>3, <1>4, <1>5, <1>6 DEF InLine, more

LEMMA TailIs ==
  ASSUME NEW line, InLine(line), line # <<>>
  PROVE  /\ InLine(Tail(line)) /\ Head(line) \in Key
         /\ Head(line) \in ToSet(line)
         /\ ToSet(Tail(line)) = ToSet(line) \ {Head(line)}
PROOF
  <1> DEFINE rest == Tail(line)
             size == Len(line)
  <1>1. /\ line \in Seq(Key) /\ size \in Nat /\ DOMAIN line = 1 .. size
        /\ \A i, j \in 1 .. size : line[i] = line[j] => i = j
    BY DEF InLine, IsInjective
  <1>2. size # 0 /\ Head(line) = line[1] /\ 1 \in 1 .. size
    BY <1>1
  <1>3. /\ rest \in Seq(Key) /\ DOMAIN rest = 1 .. size - 1
        /\ \A i \in 1 .. size - 1 : rest[i] = line[i + 1]
    BY <1>1, <1>2
  <1> HIDE DEF rest, size
  <1>4. IsInjective(rest)
    BY <1>1, <1>2, <1>3 DEF IsInjective
  <1>5. ASSUME NEW x \in ToSet(rest) PROVE x \in ToSet(line) \ {Head(line)}
    <2>1. PICK i \in 1 .. size - 1 : x = rest[i]
      BY <1>3 DEF ToSet
    <2>2. i + 1 \in 1 .. size /\ i + 1 # 1 /\ x = line[i + 1]
      BY <2>1, <1>1, <1>3
    <2> QED
      BY <2>2, <1>1, <1>2 DEF ToSet
  <1>6. ASSUME NEW x \in ToSet(line) \ {Head(line)} PROVE x \in ToSet(rest)
    <2>1. PICK i \in 1 .. size : x = line[i]
      BY <1>1 DEF ToSet
    <2>2. i - 1 \in 1 .. size - 1 /\ rest[i - 1] = x
      BY <2>1, <1>1, <1>2, <1>3
    <2> QED BY <2>2, <1>3 DEF ToSet
  <1>7. Head(line) \in Key /\ Head(line) \in ToSet(line)
    BY <1>1, <1>2 DEF ToSet
  <1> QED
    BY <1>3, <1>4, <1>5, <1>6, <1>7 DEF InLine, rest

LEMMA RecoveringIs ==
  ASSUME PoolInv
  PROVE  PoolTypeOK /\ ToSet(Recovering) = ToSet(soon) \cup ToSet(cooling)
PROOF
  <1> DEFINE near == Len(soon)
             far == Len(cooling)
             all == soon \o cooling
  <1>1. /\ soon \in Seq(Key) /\ near \in Nat /\ DOMAIN soon = 1 .. near
        /\ \A i, j \in 1 .. near : soon[i] = soon[j] => i = j
    BY DEF PoolInv, InLine, IsInjective
  <1>2. /\ cooling \in Seq(Key) /\ far \in Nat /\ DOMAIN cooling = 1 .. far
        /\ \A i, j \in 1 .. far : cooling[i] = cooling[j] => i = j
    BY DEF PoolInv, InLine, IsInjective
  <1>3. /\ all \in Seq(Key) /\ DOMAIN all = 1 .. near + far
        /\ \A i \in 1 .. near : all[i] = soon[i]
        /\ \A i \in 1 .. far : all[near + i] = cooling[i]
    BY <1>1, <1>2
  <1> HIDE DEF near, far, all
  <1>4. \A i \in 1 .. near, j \in 1 .. far : soon[i] # cooling[j]
    <2> TAKE i \in 1 .. near, j \in 1 .. far
    <2>1. soon[i] \in ToSet(soon) /\ cooling[j] \in ToSet(cooling)
      BY <1>1, <1>2 DEF ToSet
    <2> QED BY <2>1 DEF PoolInv
  <1>5. \A i \in 1 .. near + far :
           \/ i \in 1 .. near /\ all[i] = soon[i]
           \/ i - near \in 1 .. far /\ all[i] = cooling[i - near]
    <2> TAKE i \in 1 .. near + far
    <2>1. i \in 1 .. near \/ (i - near \in 1 .. far /\ near + (i - near) = i)
      BY <1>1, <1>2
    <2> QED BY <2>1, <1>3
  <1>6. IsInjective(all)
    <2> SUFFICES ASSUME NEW i \in 1 .. near + far, NEW j \in 1 .. near + far, all[i] = all[j]
                 PROVE  i = j
      BY <1>3 DEF IsInjective
    <2>1. CASE i \in 1 .. near /\ j \in 1 .. near
      BY <2>1, <1>1, <1>3
    <2>2. CASE i - near \in 1 .. far /\ j - near \in 1 .. far
      <3>1. near + (i - near) = i /\ near + (j - near) = j
        BY <1>1
      <3>2. cooling[i - near] = cooling[j - near]
        BY <2>2, <3>1, <1>3
      <3>3. i - near = j - near
        BY <2>2, <3>2, <1>2
      <3> QED BY <3>3, <1>1
    <2> QED
      BY <2>1, <2>2, <1>4, <1>5
  <1>7. ASSUME NEW x \in ToSet(all) PROVE x \in ToSet(soon) \cup ToSet(cooling)
    <2>1. PICK i \in 1 .. near + far : x = all[i]
      BY <1>3 DEF ToSet
    <2>2. (\E j \in 1 .. near : x = soon[j]) \/ (\E j \in 1 .. far : x = cooling[j])
      BY <2>1, <1>5
    <2> QED
      BY <2>2, <1>1, <1>2 DEF ToSet
  <1>8. ASSUME NEW x \in ToSet(soon) \cup ToSet(cooling) PROVE x \in ToSet(all)
    <2>1. CASE x \in ToSet(soon)
      <3>1. PICK i \in 1 .. near : x = soon[i]
        BY <2>1, <1>1 DEF ToSet
      <3>2. i \in 1 .. near + far /\ all[i] = x
        BY <3>1, <1>1, <1>2, <1>3
      <3> QED BY <3>2, <1>3 DEF ToSet
    <2>2. CASE x \in ToSet(cooling)
      <3>1. PICK i \in 1 .. far : x = cooling[i]
        BY <2>2, <1>2 DEF ToSet
      <3>2. near + i \in 1 .. near + far /\ all[near + i] = x
        BY <3>1, <1>1, <1>2, <1>3
      <3> QED BY <3>2, <1>3 DEF ToSet
    <2> QED BY <2>1, <2>2
  <1>9. Recovering = all
    BY DEF Recovering, all
  <1> QED
    BY <1>3, <1>6, <1>7, <1>8, <1>9 DEF PoolInv, PoolTypeOK

LEMMA LeastOf ==
  ASSUME NEW T, T \subseteq Nat, T # {}
  PROVE  Min(T) \in T
PROOF
  <1> DEFINE R == {pair \in Nat \X Nat : pair[1] < pair[2]}
  <1>1. IsWellFoundedOn(R, Nat)
    BY NatLessThanWellFounded DEF OpToRel
  <1>2. PICK i \in T : \A j \in T : <<j, i>> \notin R
    BY <1>1, WFMin
  <1>3. ASSUME NEW j \in T PROVE i <= j
    <2>1. <<j, i>> \in Nat \X Nat /\ <<j, i>>[1] = j /\ <<j, i>>[2] = i
      OBVIOUS
    <2>2. <<j, i>> \notin R
      BY <1>2
    <2>3. ~(j < i)
      BY <2>1, <2>2
    <2> QED BY <2>3
  <1>4. \E x \in T : \A y \in T : x <= y
    BY <1>3
  <1> QED
    BY <1>4 DEF Min

\* The key that is handed out before its time is one of those acquire chooses among.
LEMMA SoonestIs ==
  ASSUME PoolInv, NEW had, Live(had) # {}, Ready(had) = {}
  PROVE  Soonest(had) \in Live(had)
PROOF
  <1> DEFINE T == {n \in DOMAIN Recovering : Recovering[n] \in Live(had)}
  <1>1. Recovering \in Seq(Key)
    BY RecoveringIs DEF PoolTypeOK
  <1>2. PICK k \in Live(had) : k \in ToSet(Recovering)
    BY DEF Ready
  <1>3. T # {} /\ T \subseteq Nat
    BY <1>1, <1>2 DEF ToSet
  <1>4. Min(T) \in T
    BY <1>3, LeastOf
  <1> QED
    BY <1>4 DEF Soonest

\* What acquire hands out is not retired, and the pool stays one.
LEMMA TakesIs ==
  ASSUME PoolInv, NEW had, NEW k \in Key, Takes(had, k)
  PROVE  PoolInv' /\ k \notin disabled /\ UNCHANGED disabled
PROOF
  <1>1. Live(had) \subseteq Key \ disabled
    BY DEF Live
  <1>2. CASE k \in Ready(had) /\ UNCHANGED pool
    <2>1. k \in Live(had)
      BY <1>2 DEF Ready
    <2> QED
      BY <1>1, <1>2, <2>1 DEF PoolInv, pool, InLine
  <1>3. CASE /\ Live(had) # {} /\ Ready(had) = {} /\ k = Soonest(had)
             /\ cooling' = Without(cooling, k) /\ UNCHANGED <<disabled, soon>>
    <2>1. k \in Live(had)
      BY <1>3, SoonestIs
    <2>2. InLine(cooling)
      BY DEF PoolInv
    <2>3. InLine(Without(cooling, k)) /\ ToSet(Without(cooling, k)) = ToSet(cooling) \ {k}
      BY <2>2, WithoutIs
    <2>4. InLine(cooling') /\ ToSet(cooling') \subseteq ToSet(cooling)
      BY <1>3, <2>3
    <2> QED
      BY <1>1, <1>3, <2>1, <2>4 DEF PoolInv, InLine
  <1> QED
    BY <1>2, <1>3 DEF Takes

LEMMA CoolsIs ==
  ASSUME PoolInv, NEW k \in Key, Cools(k)
  PROVE  PoolInv' /\ UNCHANGED disabled
PROOF
  <1>1. InLine(soon) /\ InLine(cooling)
    BY DEF PoolInv
  <1>2. InLine(Without(soon, k)) /\ ToSet(Without(soon, k)) = ToSet(soon) \ {k}
    BY <1>1, WithoutIs
  <1> DEFINE later == Without(cooling, k)
  <1>3. InLine(later) /\ ToSet(later) = ToSet(cooling) \ {k}
    BY <1>1, WithoutIs
  <1> HIDE DEF later
  <1>4. InLine(Append(later, k)) /\ ToSet(Append(later, k)) = ToSet(later) \cup {k}
    BY <1>3, AppendIs
  <1>5. soon' = Without(soon, k) /\ cooling' = Append(later, k) /\ UNCHANGED disabled
    BY DEF Cools, later
  <1>6. InLine(soon)' /\ ToSet(soon)' = ToSet(soon) \ {k}
    BY <1>2, <1>5
  <1>7. InLine(cooling)' /\ ToSet(cooling)' = (ToSet(cooling) \ {k}) \cup {k}
    BY <1>3, <1>4, <1>5
  <1> QED
    BY <1>5, <1>6, <1>7 DEF PoolInv

LEMMA PassingIs ==
  ASSUME PoolInv, EntersGrace \/ Recovers
  PROVE  PoolInv' /\ UNCHANGED disabled
PROOF
  <1>1. InLine(soon) /\ InLine(cooling) /\ ToSet(soon) \cap ToSet(cooling) = {}
    BY DEF PoolInv
  <1>2. CASE EntersGrace
    <2>1. /\ cooling # <<>> /\ soon' = Append(soon, Head(cooling))
          /\ cooling' = Tail(cooling) /\ UNCHANGED disabled
      BY <1>2 DEF EntersGrace
    <2>2. /\ InLine(Tail(cooling)) /\ Head(cooling) \in Key /\ Head(cooling) \in ToSet(cooling)
          /\ ToSet(Tail(cooling)) = ToSet(cooling) \ {Head(cooling)}
      BY <1>1, <2>1, TailIs
    <2>3. Head(cooling) \notin ToSet(soon)
      BY <1>1, <2>2
    <2>4. /\ InLine(Append(soon, Head(cooling)))
          /\ ToSet(Append(soon, Head(cooling))) = ToSet(soon) \cup {Head(cooling)}
      BY <1>1, <2>2, <2>3, AppendIs
    <2>5. InLine(soon)' /\ ToSet(soon)' = ToSet(soon) \cup {Head(cooling)}
      BY <2>1, <2>4
    <2>6. InLine(cooling)' /\ ToSet(cooling)' = ToSet(cooling) \ {Head(cooling)}
      BY <2>1, <2>2
    <2> QED
      BY <1>1, <2>1, <2>5, <2>6 DEF PoolInv
  <1>3. CASE Recovers
    <2>1. soon # <<>> /\ soon' = Tail(soon) /\ UNCHANGED <<disabled, cooling>>
      BY <1>3 DEF Recovers
    <2>2. InLine(Tail(soon)) /\ ToSet(Tail(soon)) = ToSet(soon) \ {Head(soon)}
      BY <1>1, <2>1, TailIs
    <2>3. InLine(soon)' /\ ToSet(soon)' = ToSet(soon) \ {Head(soon)}
      BY <2>1, <2>2
    <2>4. InLine(cooling)' /\ ToSet(cooling)' = ToSet(cooling)
      BY <1>1, <2>1
    <2> QED
      BY <1>1, <2>1, <2>3, <2>4 DEF PoolInv
  <1> QED
    BY <1>2, <1>3
-----------------------------------------------------------------------------
(* The provider.  What a call has behind it is counted in requests; without other trouble *)
(* each of them has retired a key.                                                        *)

\* A numeral with two places: x times y, and d, counted from one.
Row(x, y, d) == x * y + (d - 1)

Spent(place) ==
    Row(Row(Row(place.sweep - 1, ChainLength, place.model), MaxAttempts, place.attempt),
        MaxKeyAttempts, place.keys)

CallsTyped ==
    /\ stage \in [Call -> {"idle", "acquire", "queued", "sent"}]
    /\ at \in [Call -> Place]
    /\ tried \in [Call -> SUBSET Key]
    /\ key \in [Call -> Key \cup {"none"}]
    /\ retryable \in [Call -> BOOLEAN]
    /\ failed \in [Call -> BOOLEAN]

\* The key a request has in hand.
Held(c) == IF stage[c] = "acquire" THEN {} ELSE {key[c]}

KeyInUse(c) == stage[c] \in {"queued", "sent"} => key[c] \in Key

\* The requests behind a call have retired as many keys, not counting the one in hand.
Accounted(c) ==
    RejectedAreFew /\ stage[c] # "idle" /\ heard[c] = FALSE /\ rejected # Key =>
        Spent(at[c]) <= Cardinality(disabled \ Held(c))

HadItsTurn(c) == RejectedAreFew /\ failed[c] => heard[c] \/ rejected = Key

CallIsGood(c) == KeyInUse(c) /\ Accounted(c) /\ HadItsTurn(c)

RetiredAreRejected == rejected \in Rejections /\ disabled \subseteq rejected

ProviderInv ==
    /\ PoolInv
    /\ RetiredAreRejected
    /\ CallsTyped
    /\ heard \in [Call -> BOOLEAN]
    /\ \A c \in Call : CallIsGood(c)

\* A step of c is nobody else's.
OthersStay(c) ==
    \A d \in Call \ {c} :
        stage'[d] = stage[d] /\ at'[d] = at[d] /\ key'[d] = key[d] /\ failed'[d] = failed[d]

LEMMA Sizes ==
  /\ ChainLength \in Nat /\ MaxAttempts \in Nat
  /\ MaxKeyAttempts \in Nat /\ ChainSweeps \in Nat
  /\ ChainLength >= 1 /\ MaxAttempts >= 1 /\ MaxKeyAttempts >= 1 /\ ChainSweeps >= 1
  BY ProviderAssumption

LEMMA Carry ==
  ASSUME NEW x \in Nat, NEW y \in Nat, y >= 1
  PROVE  Row(x, y, y) + 1 = Row(x + 1, y, 1)
  BY DEF Row

LEMMA RowIsNat ==
  ASSUME NEW x \in Nat, NEW y \in Nat, NEW d \in Nat, d >= 1
  PROVE  Row(x, y, d) \in Nat /\ Row(x, y, d + 1) = Row(x, y, d) + 1
PROOF
  <1>1. x * y \in Nat
    OBVIOUS
  <1> DEFINE z == x * y
  <1> HIDE DEF z
  <1>2. z + (d - 1) \in Nat /\ z + (d + 1 - 1) = z + (d - 1) + 1
    BY <1>1 DEF z
  <1> QED
    BY <1>2 DEF Row, z

LEMMA CarryTwice ==
  ASSUME NEW x \in Nat
  PROVE  Row(Row(x, MaxAttempts, MaxAttempts), MaxKeyAttempts, MaxKeyAttempts) + 1
            = Row(Row(x + 1, MaxAttempts, 1), MaxKeyAttempts, 1)
PROOF
  <1>1. Row(x, MaxAttempts, MaxAttempts) \in Nat
    BY Sizes, RowIsNat
  <1>2. Row(x, MaxAttempts, MaxAttempts) + 1 = Row(x + 1, MaxAttempts, 1)
    BY Sizes, Carry
  <1> DEFINE y == Row(x, MaxAttempts, MaxAttempts)
  <1> HIDE DEF y
  <1>3. Row(y, MaxKeyAttempts, MaxKeyAttempts) + 1 = Row(y + 1, MaxKeyAttempts, 1)
    BY <1>1, Sizes, Carry DEF y
  <1> QED
    BY <1>2, <1>3 DEF y

\* The last request of the last attempt on the last model of the last sweep.
LEMMA LastIs ==
  Row(Row(Row(ChainSweeps - 1, ChainLength, ChainLength), MaxAttempts, MaxAttempts),
      MaxKeyAttempts, MaxKeyAttempts) + 1 = Attempts
PROOF
  <1> DEFINE sweeps == ChainSweeps - 1
             x == Row(sweeps, ChainLength, ChainLength)
  <1>1. sweeps \in Nat /\ sweeps + 1 = ChainSweeps
    BY Sizes
  <1> HIDE DEF sweeps
  <1>2. x \in Nat /\ x + 1 = Row(ChainSweeps, ChainLength, 1)
    BY <1>1, Sizes, Carry, RowIsNat
  <1> HIDE DEF x
  <1>3. Row(Row(x, MaxAttempts, MaxAttempts), MaxKeyAttempts, MaxKeyAttempts) + 1
           = Row(Row(x + 1, MaxAttempts, 1), MaxKeyAttempts, 1)
    BY <1>2, CarryTwice
  <1>4. ASSUME NEW y \in Nat, NEW z \in Nat PROVE Row(y, z, 1) = y * z
    BY DEF Row
  <1>5. x + 1 = ChainSweeps * ChainLength
    BY <1>2, <1>4, Sizes
  <1>6. Row(x + 1, MaxAttempts, 1) = ChainSweeps * ChainLength * MaxAttempts
    <2>1. x + 1 \in Nat
      BY <1>2
    <2>2. Row(x + 1, MaxAttempts, 1) = (x + 1) * MaxAttempts
      BY <1>4, <2>1, Sizes
    <2> QED
      BY <1>5, <2>2
  <1>7. ChainSweeps * ChainLength * MaxAttempts \in Nat
    BY Sizes
  <1> DEFINE whole == ChainSweeps * ChainLength * MaxAttempts
  <1>8. whole \in Nat /\ Row(x + 1, MaxAttempts, 1) = whole
    BY <1>6, <1>7
  <1> HIDE DEF whole
  <1>9. Row(whole, MaxKeyAttempts, 1) = whole * MaxKeyAttempts
    BY <1>4, <1>8, Sizes
  <1> QED
    BY <1>3, <1>8, <1>9 DEF Attempts, whole, x, sweeps

LEMMA SpentIsNat ==
  ASSUME NEW place \in Place
  PROVE  Spent(place) \in Nat
PROOF
  <1>1. /\ place.sweep - 1 \in Nat
        /\ place.model \in Nat /\ place.model >= 1
        /\ place.attempt \in Nat /\ place.attempt >= 1
        /\ place.keys \in Nat /\ place.keys >= 1
    BY Sizes DEF Place
  <1> DEFINE x == Row(place.sweep - 1, ChainLength, place.model)
             y == Row(x, MaxAttempts, place.attempt)
  <1>2. x \in Nat
    BY <1>1, Sizes, RowIsNat
  <1> HIDE DEF x
  <1>3. y \in Nat
    BY <1>1, <1>2, Sizes, RowIsNat
  <1> HIDE DEF y
  <1>4. Row(y, MaxKeyAttempts, place.keys) \in Nat
    BY <1>1, <1>3, Sizes, RowIsNat
  <1> QED
    BY <1>4 DEF Spent, x, y

LEMMA RequestsIs ==
  ASSUME CallsTyped, NEW c \in Call, NEW place \in Place, NEW again \in BOOLEAN,
         Requests(c, place, again)
  PROVE  /\ CallsTyped' /\ OthersStay(c)
         /\ stage'[c] = "acquire" /\ at'[c] = place /\ failed'[c] = FALSE
PROOF
  <1>1. /\ stage' = [stage EXCEPT ![c] = "acquire"]
        /\ at' = [at EXCEPT ![c] = place]
        /\ tried' = [tried EXCEPT ![c] = {}]
        /\ key' = [key EXCEPT ![c] = "none"]
        /\ retryable' = [retryable EXCEPT ![c] = again]
        /\ failed' = [failed EXCEPT ![c] = FALSE]
    BY DEF Requests
  <1>2. stage' \in [Call -> {"idle", "acquire", "queued", "sent"}] /\ at' \in [Call -> Place]
    BY <1>1 DEF CallsTyped
  <1>3. tried' \in [Call -> SUBSET Key] /\ key' \in [Call -> Key \cup {"none"}]
    BY <1>1 DEF CallsTyped
  <1>4. retryable' \in [Call -> BOOLEAN]
    BY <1>1 DEF CallsTyped
  <1>5. failed' \in [Call -> BOOLEAN]
    BY <1>1 DEF CallsTyped
  <1> QED
    BY <1>1, <1>2, <1>3, <1>4, <1>5 DEF CallsTyped, OthersStay

LEMMA StartIs == Start \in Place /\ Spent(Start) = 0
PROOF
  <1>1. Start \in Place
    BY Sizes DEF Start, Attempt, Place
  <1>2. Spent(Start) = Row(Row(Row(1 - 1, ChainLength, 1), MaxAttempts, 1), MaxKeyAttempts, 1)
    BY DEF Start, Attempt, Spent
  <1>3. ASSUME NEW y \in Nat PROVE Row(0, y, 1) = 0
    BY DEF Row
  <1>4. 1 - 1 = 0
    OBVIOUS
  <1> QED
    BY <1>1, <1>2, <1>3, <1>4, Sizes

LEMMA EndsIs ==
  ASSUME CallsTyped, NEW c \in Call, NEW how, Ends(c, how)
  PROVE  CallsTyped' /\ OthersStay(c) /\ stage'[c] = "idle" /\ failed'[c] = (how = "failed")
PROOF
  <1>1. /\ stage' = [stage EXCEPT ![c] = "idle"]
        /\ at' = [at EXCEPT ![c] = Start]
        /\ tried' = [tried EXCEPT ![c] = {}]
        /\ key' = [key EXCEPT ![c] = "none"]
        /\ retryable' = [retryable EXCEPT ![c] = FALSE]
        /\ failed' = [failed EXCEPT ![c] = (how = "failed")]
    BY DEF Ends
  <1>2. stage' \in [Call -> {"idle", "acquire", "queued", "sent"}] /\ at' \in [Call -> Place]
    BY <1>1, StartIs DEF CallsTyped
  <1>3. tried' \in [Call -> SUBSET Key] /\ key' \in [Call -> Key \cup {"none"}]
    BY <1>1 DEF CallsTyped
  <1>4. retryable' \in [Call -> BOOLEAN]
    BY <1>1 DEF CallsTyped
  <1>5. failed' \in [Call -> BOOLEAN] /\ failed'[c] = (how = "failed")
    BY <1>1 DEF CallsTyped
  <1> QED
    BY <1>1, <1>2, <1>3, <1>4, <1>5 DEF CallsTyped, OthersStay

\* Where a call is after a request that failed.
Moved(c) == CallsTyped' /\ OthersStay(c) /\ stage'[c] \in {"acquire", "idle"}

\* It has one request more behind it, or it has had them all.
Counted(c) ==
    \/ /\ stage'[c] = "acquire" /\ Spent(at'[c]) = Spent(at[c]) + 1
       /\ failed'[c] = TRUE => failed[c] = TRUE
    \/ stage'[c] = "idle" /\ Spent(at[c]) + 1 = Attempts

LEMMA AdvancesIs ==
  ASSUME CallsTyped, NEW c \in Call, NEW earned \in BOOLEAN, Advances(c, earned)
  PROVE  /\ Moved(c)
         /\ earned = TRUE /\ at[c].attempt = MaxAttempts /\ at[c].keys = MaxKeyAttempts
              => Counted(c)
PROOF
  <1> DEFINE here == at[c]
             behind == Row(here.sweep - 1, ChainLength, here.model)
             far == here.attempt = MaxAttempts /\ here.keys = MaxKeyAttempts
  <1>1. here \in Place
    BY DEF CallsTyped
  <1>2. /\ here.sweep \in 1 .. ChainSweeps /\ here.model \in 1 .. ChainLength
        /\ here.sweep - 1 \in Nat /\ here.model \in Nat /\ here.model >= 1
    BY <1>1, Sizes DEF Place
  <1>3. behind \in Nat
    BY <1>2, Sizes, RowIsNat
  <1>4. far => Spent(here) + 1 = Row(Row(behind + 1, MaxAttempts, 1), MaxKeyAttempts, 1)
    BY <1>3, CarryTwice DEF Spent
  <1> HIDE DEF here
  <1>5. CASE /\ here.model < ChainLength
             /\ Requests(c, Attempt(here.sweep, here.model + 1, 1), earned)
    <2> DEFINE there == Attempt(here.sweep, here.model + 1, 1)
    <2>1. there = [sweep |-> here.sweep, model |-> here.model + 1, attempt |-> 1, keys |-> 1]
      BY DEF Attempt
    <2>2. here.model + 1 \in 1 .. ChainLength
      BY <1>2, <1>5, Sizes
    <2>3. there \in Place
      BY <1>2, <2>1, <2>2, Sizes DEF Place
    <2>4. Requests(c, there, earned)
      BY <1>5
    <2> HIDE DEF there
    <2>5. /\ CallsTyped' /\ OthersStay(c) /\ stage'[c] = "acquire" /\ at'[c] = there
          /\ failed'[c] = FALSE
      BY <2>3, <2>4, RequestsIs
    <2>6. Row(here.sweep - 1, ChainLength, here.model + 1) = behind + 1
      BY <1>2, Sizes, RowIsNat
    <2>7. Spent(there) = Row(Row(behind + 1, MaxAttempts, 1), MaxKeyAttempts, 1)
      BY <2>1, <2>6 DEF Spent
    <2> QED
      BY <1>4, <2>5, <2>7 DEF Moved, Counted, here
  <1>6. CASE /\ here.model = ChainLength /\ here.sweep < ChainSweeps
             /\ Requests(c, Attempt(here.sweep + 1, 1, 1), FALSE)
    <2> DEFINE there == Attempt(here.sweep + 1, 1, 1)
    <2>1. there = [sweep |-> here.sweep + 1, model |-> 1, attempt |-> 1, keys |-> 1]
      BY DEF Attempt
    <2>2. here.sweep + 1 \in 1 .. ChainSweeps
      BY <1>2, <1>6, Sizes
    <2>3. there \in Place
      BY <2>1, <2>2, Sizes DEF Place
    <2>4. Requests(c, there, FALSE)
      BY <1>6
    <2> HIDE DEF there
    <2>5. /\ CallsTyped' /\ OthersStay(c) /\ stage'[c] = "acquire" /\ at'[c] = there
          /\ failed'[c] = FALSE
      BY <2>3, <2>4, RequestsIs
    <2>6. Row(here.sweep - 1 + 1, ChainLength, 1) = behind + 1
      BY <1>2, <1>6, Sizes, Carry
    <2>7. there.sweep - 1 = here.sweep - 1 + 1
      BY <1>2, <2>1
    <2>8. Spent(there) = Row(Row(behind + 1, MaxAttempts, 1), MaxKeyAttempts, 1)
      BY <2>1, <2>6, <2>7 DEF Spent
    <2> QED
      BY <1>4, <2>5, <2>8 DEF Moved, Counted, here
  <1>7. CASE /\ here.model = ChainLength /\ (earned = FALSE \/ here.sweep = ChainSweeps)
             /\ Ends(c, "failed")
    <2>1. CallsTyped' /\ OthersStay(c) /\ stage'[c] = "idle"
      BY <1>7, EndsIs
    <2>2. earned = TRUE /\ far => Spent(here) + 1 = Attempts
      BY <1>7, LastIs DEF Spent
    <2> QED
      BY <2>1, <2>2 DEF Moved, Counted, here
  <1> QED
    BY <1>5, <1>6, <1>7 DEF Advances, here

LEMMA RepeatsIs ==
  ASSUME CallsTyped, NEW c \in Call, NEW earned \in BOOLEAN, Repeats(c, earned)
  PROVE  Moved(c) /\ (earned = TRUE /\ at[c].keys = MaxKeyAttempts => Counted(c))
PROOF
  <1> DEFINE here == at[c]
             there == Attempt(here.sweep, here.model, here.attempt + 1)
             behind == Row(here.sweep - 1, ChainLength, here.model)
             most == Row(behind, MaxAttempts, here.attempt)
  <1>1. here \in Place
    BY DEF CallsTyped
  <1>2. /\ here.sweep - 1 \in Nat /\ here.model \in Nat /\ here.model >= 1
        /\ here.attempt \in Nat /\ here.attempt >= 1
    BY <1>1, Sizes DEF Place
  <1>3. CASE here.attempt < MaxAttempts /\ Requests(c, there, earned)
    <2>1. there = [sweep |-> here.sweep, model |-> here.model,
                   attempt |-> here.attempt + 1, keys |-> 1]
      BY DEF Attempt
    <2>2. here.attempt + 1 \in 1 .. MaxAttempts
      BY <1>2, <1>3, Sizes
    <2>3. here.sweep \in 1 .. ChainSweeps /\ here.model \in 1 .. ChainLength
      BY <1>1 DEF Place
    <2>4. Requests(c, there, earned)
      BY <1>3
    <2> HIDE DEF there
    <2>5. there \in Place
      BY <2>1, <2>2, <2>3, Sizes DEF Place
    <2>6. /\ CallsTyped' /\ OthersStay(c) /\ stage'[c] = "acquire" /\ at'[c] = there
          /\ failed'[c] = FALSE
      BY <2>4, <2>5, RequestsIs
    <2> HIDE DEF here
    <2>7. behind \in Nat
      BY <1>2, Sizes, RowIsNat
    <2> HIDE DEF behind
    <2>8. most \in Nat /\ Row(behind, MaxAttempts, here.attempt + 1) = most + 1
      BY <1>2, <2>7, Sizes, RowIsNat
    <2>9. Spent(there) = Row(most + 1, MaxKeyAttempts, 1)
      BY <2>1, <2>8 DEF Spent, behind
    <2>10. Spent(here) = Row(most, MaxKeyAttempts, here.keys)
      BY DEF Spent, behind
    <2> HIDE DEF most
    <2>11. Row(most, MaxKeyAttempts, MaxKeyAttempts) + 1 = Row(most + 1, MaxKeyAttempts, 1)
      BY <2>8, Sizes, Carry
    <2> QED
      BY <2>6, <2>9, <2>10, <2>11 DEF Moved, Counted, here
  <1>4. CASE here.attempt = MaxAttempts /\ Advances(c, earned)
    BY <1>4, AdvancesIs
  <1> QED
    BY <1>3, <1>4 DEF Repeats

LEMMA FailsIs ==
  ASSUME CallsTyped, NEW c \in Call, NEW failure, Fails(c, failure)
  PROVE  Moved(c) /\ (failure = "invalid" /\ at[c].keys = MaxKeyAttempts => Counted(c))
PROOF
  <1>1. CASE failure = "malformed" /\ Ends(c, "raised")
    <2>1. CallsTyped' /\ OthersStay(c) /\ stage'[c] = "idle"
      BY <1>1, EndsIs
    <2> QED
      BY <1>1, <2>1 DEF Moved
  <1>2. CASE failure = "unavailable" /\ Advances(c, TRUE)
    BY <1>2, AdvancesIs
  <1>3. CASE failure = "quota" /\ Repeats(c, retryable[c])
    <2>1. retryable[c] \in BOOLEAN
      BY DEF CallsTyped
    <2>2. Moved(c)
      BY <1>3, <2>1, RepeatsIs
    <2> QED
      BY <1>3, <2>2
  <1>4. CASE failure \in {"limited", "invalid", "transient"} /\ Repeats(c, TRUE)
    BY <1>4, RepeatsIs
  <1> QED
    BY <1>1, <1>2, <1>3, <1>4 DEF Fails

-----------------------------------------------------------------------------
(* The steps. *)

LEMMA InitProvider == ProviderInit => ProviderInv
PROOF
  <1> SUFFICES ASSUME ProviderInit PROVE ProviderInv
    OBVIOUS
  <1>1. PoolInv
    <2>1. disabled \subseteq Key /\ soon = <<>> /\ cooling = <<>>
      BY DEF ProviderInit, PoolInit
    <2>2. InLine(<<>>) /\ ToSet(<<>>) = {}
      BY DEF InLine, IsInjective, ToSet
    <2> QED
      BY <2>1, <2>2 DEF PoolInv
  <1>2. RetiredAreRejected
    BY DEF ProviderInit, RetiredAreRejected
  <1>3. CallsTyped
    BY StartIs DEF ProviderInit, CallsTyped
  <1>4. heard \in [Call -> BOOLEAN]
    BY DEF ProviderInit
  <1>5. \A c \in Call : CallIsGood(c)
    BY DEF ProviderInit, CallIsGood, KeyInUse, Accounted, HadItsTurn
  <1> QED
    BY <1>1, <1>2, <1>3, <1>4, <1>5 DEF ProviderInv

\* Keys are retired, and none comes back, behind a call's back: it counts at least as many.
LEMMA CountOf ==
  ASSUME ProviderInv, NEW S
  PROVE  /\ IsFiniteSet(disabled \ S) /\ Cardinality(disabled \ S) \in Nat
         /\ \A T \in SUBSET Key : disabled \subseteq T =>
               /\ IsFiniteSet(T \ S) /\ Cardinality(T \ S) \in Nat
               /\ Cardinality(disabled \ S) <= Cardinality(T \ S)
PROOF
  <1>1. IsFiniteSet(Key) /\ disabled \subseteq Key
    BY ProviderAssumption DEF ProviderInv, PoolInv
  <1>2. ASSUME NEW T \in SUBSET Key, disabled \subseteq T
        PROVE  /\ IsFiniteSet(T \ S) /\ Cardinality(T \ S) \in Nat
               /\ Cardinality(disabled \ S) <= Cardinality(T \ S)
    <2>1. T \ S \subseteq Key /\ disabled \ S \subseteq T \ S
      BY <1>2
    <2>2. IsFiniteSet(T \ S)
      BY <1>1, <2>1, FS_Subset
    <2>3. Cardinality(disabled \ S) <= Cardinality(T \ S)
      BY <2>1, <2>2, FS_Subset
    <2> QED
      BY <2>2, <2>3, FS_CardinalityType
  <1>3. IsFiniteSet(disabled \ S) /\ Cardinality(disabled \ S) \in Nat
    BY <1>1, <1>2
  <1> QED
    BY <1>2, <1>3

\* What a step does to the others.
LEMMA OthersAreGood ==
  ASSUME ProviderInv, NEW c \in Call, OthersStay(c),
         \A d \in Call \ {c} : heard'[d] = heard[d],
         UNCHANGED rejected, disabled \subseteq disabled', disabled' \subseteq Key
  PROVE  \A d \in Call \ {c} : CallIsGood(d)'
PROOF
  <1> SUFFICES ASSUME NEW d \in Call \ {c} PROVE CallIsGood(d)'
    OBVIOUS
  <1>1. CallIsGood(d)
    BY DEF ProviderInv
  <1>2. /\ stage'[d] = stage[d] /\ at'[d] = at[d] /\ key'[d] = key[d]
        /\ failed'[d] = failed[d] /\ heard'[d] = heard[d]
    BY DEF OthersStay
  <1>3. KeyInUse(d)'
    BY <1>1, <1>2 DEF CallIsGood, KeyInUse
  <1>4. Accounted(d)'
    <2>1. Held(d)' = Held(d)
      BY <1>2 DEF Held
    <2>2. SUFFICES ASSUME RejectedAreFew, stage[d] # "idle", heard[d] = FALSE, rejected # Key
                   PROVE  Spent(at[d]) <= Cardinality(disabled' \ Held(d))
      BY <1>2, <2>1 DEF Accounted
    <2>3. Spent(at[d]) <= Cardinality(disabled \ Held(d))
      BY <1>1, <2>2 DEF CallIsGood, Accounted
    <2>4. Spent(at[d]) \in Nat
      BY SpentIsNat DEF ProviderInv, CallsTyped
    <2>5. /\ Cardinality(disabled \ Held(d)) \in Nat
          /\ Cardinality(disabled' \ Held(d)) \in Nat
          /\ Cardinality(disabled \ Held(d)) <= Cardinality(disabled' \ Held(d))
      BY CountOf
    <2> QED
      BY <2>3, <2>4, <2>5
  <1>5. HadItsTurn(d)'
    BY <1>1, <1>2 DEF CallIsGood, HadItsTurn
  <1> QED
    BY <1>3, <1>4, <1>5 DEF CallIsGood

LEMMA BeginsProvider ==
  ASSUME ProviderInv, NEW c \in Call, Begins(c)
  PROVE  ProviderInv'
PROOF
  <1>1. CallsTyped /\ heard \in [Call -> BOOLEAN]
    BY DEF ProviderInv
  <1>2. Requests(c, Start, FALSE) /\ UNCHANGED <<rejected, pool>>
    BY DEF Begins
  <1>3. /\ CallsTyped' /\ OthersStay(c) /\ stage'[c] = "acquire"
        /\ at'[c] = Start /\ failed'[c] = FALSE
    BY <1>1, <1>2, StartIs, RequestsIs
  <1>4. heard' = [heard EXCEPT ![c] = FALSE]
    BY DEF Begins
  <1>5. heard' \in [Call -> BOOLEAN] /\ \A d \in Call \ {c} : heard'[d] = heard[d]
    BY <1>1, <1>4
  <1>6. PoolInv' /\ RetiredAreRejected' /\ UNCHANGED disabled /\ disabled \subseteq Key
    BY <1>2 DEF ProviderInv, PoolInv, InLine, RetiredAreRejected, pool
  <1>7. \A d \in Call \ {c} : CallIsGood(d)'
    BY <1>2, <1>3, <1>5, <1>6, OthersAreGood
  <1>8. CallIsGood(c)'
    <2>1. KeyInUse(c)' /\ HadItsTurn(c)'
      BY <1>3 DEF KeyInUse, HadItsTurn
    <2>2. Held(c)' = {} /\ Spent(at'[c]) = 0
      BY <1>3, StartIs DEF Held
    <2>3. Cardinality(disabled \ {}) \in Nat
      BY CountOf
    <2>4. Accounted(c)'
      BY <1>6, <2>2, <2>3 DEF Accounted
    <2> QED
      BY <2>1, <2>4 DEF CallIsGood
  <1> QED
    BY <1>3, <1>5, <1>6, <1>7, <1>8 DEF ProviderInv

LEMMA AcquiresProvider ==
  ASSUME ProviderInv, NEW c \in Call, Acquires(c)
  PROVE  ProviderInv'
PROOF
  <1>1. CallsTyped /\ PoolInv /\ CallIsGood(c)
    BY DEF ProviderInv
  <1>2. PICK k \in Key :
           /\ Takes(tried[c], k)
           /\ key' = [key EXCEPT ![c] = k]
           /\ tried' = [tried EXCEPT ![c] = @ \cup {k}]
    BY DEF Acquires
  <1>3. /\ stage[c] = "acquire" /\ stage' = [stage EXCEPT ![c] = "queued"]
        /\ UNCHANGED <<rejected, at, retryable, failed, heard>>
    BY DEF Acquires, Moves
  <1>4. PoolInv' /\ k \notin disabled /\ UNCHANGED disabled
    BY <1>1, <1>2, TakesIs
  <1>5. CallsTyped'
    <2>1. stage' \in [Call -> {"idle", "acquire", "queued", "sent"}]
      BY <1>1, <1>3 DEF CallsTyped
    <2>2. tried' \in [Call -> SUBSET Key] /\ key' \in [Call -> Key \cup {"none"}]
      BY <1>1, <1>2 DEF CallsTyped
    <2> QED
      BY <1>1, <1>3, <2>1, <2>2 DEF CallsTyped
  <1>6. OthersStay(c) /\ stage'[c] = "queued" /\ key'[c] = k
    BY <1>1, <1>2, <1>3 DEF CallsTyped, OthersStay
  <1>7. \A d \in Call \ {c} : CallIsGood(d)'
    <2>1. disabled \subseteq Key
      BY <1>1 DEF PoolInv
    <2> QED
      BY <1>3, <1>4, <1>6, <2>1, OthersAreGood
  <1>8. CallIsGood(c)'
    <2>1. KeyInUse(c)'
      BY <1>6 DEF KeyInUse
    <2>2. HadItsTurn(c)'
      BY <1>1, <1>3 DEF CallIsGood, HadItsTurn
    <2>3. Held(c) = {} /\ Held(c)' = {k}
      BY <1>3, <1>6 DEF Held
    <2>4. disabled \ {k} = disabled \ {}
      BY <1>4
    <2>5. Accounted(c)'
      BY <1>1, <1>3, <1>4, <2>3, <2>4 DEF CallIsGood, Accounted
    <2> QED
      BY <2>1, <2>2, <2>5 DEF CallIsGood
  <1>9. RetiredAreRejected' /\ heard' \in [Call -> BOOLEAN]
    BY <1>3, <1>4 DEF ProviderInv, RetiredAreRejected
  <1> QED
    BY <1>4, <1>5, <1>7, <1>8, <1>9 DEF ProviderInv

LEMMA SendsProvider ==
  ASSUME ProviderInv, NEW c \in Call, Sends(c)
  PROVE  ProviderInv'
PROOF
  <1>1. CallsTyped /\ PoolInv /\ CallIsGood(c)
    BY DEF ProviderInv
  <1>2. /\ stage[c] = "queued" /\ stage' = [stage EXCEPT ![c] = "sent"]
        /\ UNCHANGED <<rejected, pool, at, tried, key, retryable, failed, heard>>
    BY DEF Sends, Moves
  <1>3. stage' \in [Call -> {"idle", "acquire", "queued", "sent"}]
    BY <1>1, <1>2 DEF CallsTyped
  <1>4. CallsTyped'
    BY <1>1, <1>2, <1>3 DEF CallsTyped
  <1>5. OthersStay(c) /\ stage'[c] = "sent"
    BY <1>1, <1>2 DEF CallsTyped, OthersStay
  <1>6. PoolInv' /\ UNCHANGED disabled /\ disabled \subseteq Key
    BY <1>1, <1>2 DEF PoolInv, InLine, pool
  <1>7. \A d \in Call \ {c} : CallIsGood(d)'
    BY <1>2, <1>5, <1>6, OthersAreGood
  <1>8. CallIsGood(c)'
    <2>1. KeyInUse(c)'
      BY <1>1, <1>2 DEF CallIsGood, KeyInUse
    <2>2. HadItsTurn(c)'
      BY <1>1, <1>2 DEF CallIsGood, HadItsTurn
    <2>3. Held(c)' = Held(c)
      BY <1>2, <1>5 DEF Held
    <2>4. Accounted(c)'
      BY <1>1, <1>2, <1>6, <2>3 DEF CallIsGood, Accounted
    <2> QED
      BY <2>1, <2>2, <2>4 DEF CallIsGood
  <1>9. RetiredAreRejected' /\ heard' \in [Call -> BOOLEAN]
    BY <1>2, <1>6 DEF ProviderInv, RetiredAreRejected
  <1> QED
    BY <1>4, <1>6, <1>7, <1>8, <1>9 DEF ProviderInv

\* acquire finds nothing: all keys are retired, and so rejected, or it has heard of
\* something else.
LEMMA KeylessProvider ==
  ASSUME ProviderInv, NEW c \in Call, FindsNoKeys(c) \/ LosesPatience(c)
  PROVE  ProviderInv'
PROOF
  <1>1. CallsTyped /\ PoolInv /\ RetiredAreRejected /\ heard \in [Call -> BOOLEAN]
    BY DEF ProviderInv
  <1>2. Fails(c, "quota") /\ UNCHANGED <<rejected, pool>>
    BY DEF FindsNoKeys, LosesPatience
  <1>3. Moved(c)
    BY <1>1, <1>2, FailsIs
  <1>4. /\ heard' \in [Call -> BOOLEAN] /\ \A d \in Call \ {c} : heard'[d] = heard[d]
        /\ heard'[c] = TRUE \/ rejected = Key
    <2>1. CASE FindsNoKeys(c)
      <3>1. disabled = Key /\ UNCHANGED heard
        BY <2>1 DEF FindsNoKeys, AllDisabled
      <3>2. rejected \subseteq Key
        BY <1>1, ProviderAssumption DEF RetiredAreRejected
      <3>3. rejected = Key
        BY <1>1, <3>1, <3>2 DEF RetiredAreRejected
      <3> QED
        BY <1>1, <3>1, <3>3
    <2>2. CASE LosesPatience(c)
      <3>1. heard' = [heard EXCEPT ![c] = TRUE]
        BY <2>2 DEF LosesPatience
      <3> QED
        BY <1>1, <3>1
    <2> QED
      BY <2>1, <2>2
  <1>5. PoolInv' /\ UNCHANGED disabled /\ disabled \subseteq Key
    BY <1>1, <1>2 DEF PoolInv, InLine, pool
  <1>6. \A d \in Call \ {c} : CallIsGood(d)'
    BY <1>2, <1>3, <1>4, <1>5, OthersAreGood DEF Moved
  <1>7. CallIsGood(c)'
    <2>1. KeyInUse(c)'
      BY <1>3 DEF Moved, KeyInUse
    <2>2. HadItsTurn(c)'
      BY <1>2, <1>4 DEF HadItsTurn
    <2>3. Accounted(c)'
      BY <1>2, <1>4 DEF Accounted
    <2> QED
      BY <2>1, <2>2, <2>3 DEF CallIsGood
  <1>8. RetiredAreRejected'
    BY <1>1, <1>2, <1>5 DEF RetiredAreRejected
  <1> QED
    BY <1>3, <1>4, <1>5, <1>6, <1>7, <1>8 DEF ProviderInv, Moved

\* How a call moves on after an answer.
LEMMA NextKeyIs ==
  ASSUME CallsTyped, NEW c \in Call, NEW answer, TriesNextKey(c, answer)
  PROVE  Moved(c) /\ (answer = "invalid" => Counted(c))
PROOF
  <1>1. CASE /\ at[c].keys < MaxKeyAttempts /\ Moves(c, "acquire")
             /\ at' = [at EXCEPT ![c].keys = @ + 1]
             /\ key' = [key EXCEPT ![c] = "none"]
             /\ UNCHANGED <<tried, retryable, failed>>
    <2> DEFINE here == at[c]
               there == [here EXCEPT !.keys = @ + 1]
               most == Row(Row(here.sweep - 1, ChainLength, here.model), MaxAttempts,
                           here.attempt)
    <2>1. here \in Place
      BY DEF CallsTyped
    <2>2. /\ here.sweep - 1 \in Nat /\ here.model \in Nat /\ here.model >= 1
          /\ here.attempt \in Nat /\ here.attempt >= 1
          /\ here.keys \in Nat /\ here.keys >= 1 /\ here.keys + 1 \in 1 .. MaxKeyAttempts
      BY <1>1, <2>1, Sizes DEF Place
    <2>3. /\ there \in Place /\ there.sweep = here.sweep /\ there.model = here.model
          /\ there.attempt = here.attempt /\ there.keys = here.keys + 1
      BY <2>1, <2>2 DEF Place
    <2>4. at' = [at EXCEPT ![c] = there]
      BY <1>1
    <2> HIDE DEF there, here
    <2>5. at' \in [Call -> Place] /\ at'[c] = there
      BY <2>3, <2>4 DEF CallsTyped
    <2>6. stage' = [stage EXCEPT ![c] = "acquire"] /\ key' = [key EXCEPT ![c] = "none"]
      BY <1>1 DEF Moves
    <2>7. /\ stage' \in [Call -> {"idle", "acquire", "queued", "sent"}]
          /\ key' \in [Call -> Key \cup {"none"}]
      BY <2>6 DEF CallsTyped
    <2>8. CallsTyped'
      BY <1>1, <2>5, <2>7 DEF CallsTyped
    <2>9. OthersStay(c) /\ stage'[c] = "acquire"
      BY <1>1, <2>4, <2>6 DEF CallsTyped, OthersStay
    <2>10. most \in Nat
      <3> DEFINE behind == Row(here.sweep - 1, ChainLength, here.model)
      <3>1. behind \in Nat
        BY <2>2, Sizes, RowIsNat
      <3> HIDE DEF behind
      <3>2. Row(behind, MaxAttempts, here.attempt) \in Nat
        BY <2>2, <3>1, Sizes, RowIsNat
      <3> QED
        BY <3>2 DEF behind
    <2>11. Spent(here) = Row(most, MaxKeyAttempts, here.keys)
      BY DEF Spent
    <2>12. Spent(there) = Row(most, MaxKeyAttempts, here.keys + 1)
      BY <2>3 DEF Spent
    <2> HIDE DEF most
    <2>13. Row(most, MaxKeyAttempts, here.keys + 1) = Row(most, MaxKeyAttempts, here.keys) + 1
      BY <2>2, <2>10, Sizes, RowIsNat
    <2>14. failed'[c] = failed[c]
      BY <1>1
    <2> QED
      BY <2>5, <2>8, <2>9, <2>11, <2>12, <2>13, <2>14 DEF Moved, Counted, here
  <1>2. CASE at[c].keys = MaxKeyAttempts /\ Fails(c, answer)
    BY <1>2, FailsIs
  <1> QED
    BY <1>1, <1>2 DEF TriesNextKey

\* An answer that is no rejection, or that one: the key is retired, which pays for the
\* request.
LEMMA ReceivesProvider ==
  ASSUME ProviderInv, NEW c \in Call, NEW answer, Receives(c, answer)
  PROVE  ProviderInv'
PROOF
  <1>1. /\ CallsTyped /\ PoolInv /\ RetiredAreRejected /\ heard \in [Call -> BOOLEAN]
        /\ CallIsGood(c)
    BY DEF ProviderInv
  <1> DEFINE k == key[c]
  <1>2. /\ stage[c] = "sent" /\ answer \in Answers(k) /\ Reports(k, answer)
        /\ UNCHANGED rejected
    BY DEF Receives
  <1>3. k \in Key /\ Held(c) = {k}
    BY <1>1, <1>2 DEF CallIsGood, KeyInUse, Held
  <1>4. Moved(c) /\ (answer = "invalid" => Counted(c))
    <2>1. CASE answer = "ok" /\ Ends(c, "answered")
      <3>1. CallsTyped' /\ OthersStay(c) /\ stage'[c] = "idle"
        BY <1>1, <2>1, EndsIs
      <3> QED
        BY <2>1, <3>1 DEF Moved
    <2>2. CASE TriesNextKey(c, answer)
      BY <1>1, <2>2, NextKeyIs
    <2>3. CASE answer \in {"unavailable", "malformed"} /\ Fails(c, answer)
      <3>1. Moved(c)
        BY <1>1, <2>3, FailsIs
      <3> QED
        BY <2>3, <3>1
    <2> QED
      BY <2>1, <2>2, <2>3 DEF Receives
  <1>5. heard' = [heard EXCEPT ![c] = @ \/ answer # "invalid"]
    BY DEF Receives
  <1>6. /\ heard' \in [Call -> BOOLEAN] /\ \A d \in Call \ {c} : heard'[d] = heard[d]
        /\ heard'[c] = (heard[c] \/ answer # "invalid")
    BY <1>1, <1>5
  <1> HIDE DEF k
  <1>7. /\ PoolInv' /\ disabled \subseteq disabled' /\ disabled' \subseteq rejected
        /\ answer = "invalid" => disabled' = disabled \cup {k}
    <2>1. CASE answer = "invalid"
      <3>1. disabled' = disabled \cup {k} /\ UNCHANGED <<soon, cooling>>
        BY <1>2, <2>1 DEF Reports, Disables
      <3>2. k \in rejected
        BY <1>2, <2>1 DEF Answers
      <3> QED
        BY <1>1, <1>3, <3>1, <3>2 DEF PoolInv, InLine, RetiredAreRejected
    <2>2. CASE answer \in {"limited", "quota"}
      <3>1. Cools(k)
        BY <1>2, <2>2 DEF Reports
      <3>2. PoolInv' /\ UNCHANGED disabled
        BY <1>1, <1>3, <3>1, CoolsIs
      <3> QED
        BY <1>1, <2>2, <3>2 DEF RetiredAreRejected
    <2>3. CASE answer \notin {"limited", "quota", "invalid"}
      <3>1. UNCHANGED pool
        BY <1>2, <2>3 DEF Reports
      <3> QED
        BY <1>1, <2>3, <3>1 DEF PoolInv, InLine, RetiredAreRejected, pool
    <2> QED
      BY <2>1, <2>2, <2>3
  <1>8. disabled' \subseteq Key /\ rejected \subseteq Key
    BY <1>1, <1>7, ProviderAssumption DEF PoolInv, RetiredAreRejected
  <1>9. \A d \in Call \ {c} : CallIsGood(d)'
    BY <1>2, <1>4, <1>6, <1>7, <1>8, OthersAreGood DEF Moved
  <1>10. KeyInUse(c)'
    BY <1>4 DEF Moved, KeyInUse
  <1>11. CASE heard'[c] = TRUE \/ rejected = Key \/ ~RejectedAreFew
    <2>1. HadItsTurn(c)' /\ Accounted(c)'
      BY <1>2, <1>11 DEF HadItsTurn, Accounted
    <2> QED
      BY <1>1, <1>2, <1>4, <1>6, <1>7, <1>9, <1>10, <2>1
      DEF ProviderInv, Moved, CallIsGood, RetiredAreRejected
  <1>12. CASE heard'[c] = FALSE /\ rejected # Key /\ RejectedAreFew
    <2>1. answer = "invalid" /\ heard[c] = FALSE
      BY <1>1, <1>6, <1>12
    <2>2. disabled' = disabled \cup {k}
      BY <1>7, <2>1
    <2>3. Spent(at[c]) <= Cardinality(disabled \ {k})
      BY <1>1, <1>2, <1>3, <1>12, <2>1 DEF CallIsGood, Accounted
    <2>4. Cardinality(disabled') = Cardinality(disabled \ {k}) + 1
      <3>1. IsFiniteSet(disabled \ {k})
        BY CountOf
      <3>2. disabled' = (disabled \ {k}) \cup {k} /\ k \notin disabled \ {k}
        BY <2>2
      <3>3. Cardinality((disabled \ {k}) \cup {k}) = Cardinality(disabled \ {k}) + 1
        BY <3>1, <3>2, FS_AddElement
      <3> QED
        BY <3>2, <3>3
    <2>5. Cardinality(disabled \ {k}) \in Nat /\ Spent(at[c]) \in Nat
      BY <1>1, CountOf, SpentIsNat DEF CallsTyped
    <2>6. Cardinality(rejected) < Attempts /\ Cardinality(disabled') <= Cardinality(rejected)
          /\ Cardinality(rejected) \in Nat
      <3>1. IsFiniteSet(rejected)
        BY <1>8, ProviderAssumption, FS_Subset
      <3> QED
        BY <1>1, <1>7, <1>12, <3>1, FS_Subset, FS_CardinalityType
        DEF RejectedAreFew, RetiredAreRejected
    <2>7. Attempts \in Nat
      <3>1. ChainSweeps * ChainLength * MaxAttempts \in Nat
        BY Sizes
      <3> DEFINE whole == ChainSweeps * ChainLength * MaxAttempts
      <3>2. whole \in Nat
        BY <3>1
      <3> HIDE DEF whole
      <3>3. whole * MaxKeyAttempts \in Nat
        BY <3>2, Sizes
      <3> QED
        BY <3>3 DEF Attempts, whole
    <2>8. Spent(at[c]) + 1 # Attempts
      BY <2>3, <2>4, <2>5, <2>6, <2>7
    <2>9. stage'[c] = "acquire" /\ Spent(at'[c]) = Spent(at[c]) + 1
      BY <1>4, <2>1, <2>8 DEF Counted
    <2>10. Accounted(c)'
      <3>1. Held(c)' = {}
        BY <2>9 DEF Held
      <3>2. disabled' \ {} = disabled'
        OBVIOUS
      <3>3. Spent(at'[c]) <= Cardinality(disabled' \ {})
        BY <2>3, <2>4, <2>5, <2>9, <3>2
      <3> QED
        BY <3>1, <3>3 DEF Accounted
    <2>11. HadItsTurn(c)'
      <3>1. failed[c] = FALSE
        BY <1>1, <1>12, <2>1 DEF CallIsGood, HadItsTurn, CallsTyped
      <3>2. failed'[c] = FALSE
        BY <1>4, <2>1, <2>8, <3>1 DEF Counted, Moved, CallsTyped
      <3> QED
        BY <3>2 DEF HadItsTurn
    <2> QED
      BY <1>1, <1>2, <1>4, <1>6, <1>7, <1>9, <1>10, <2>10, <2>11
      DEF ProviderInv, Moved, CallIsGood, RetiredAreRejected
  <1> QED
    BY <1>6, <1>11, <1>12

LEMMA PassesProvider ==
  ASSUME ProviderInv, Passes
  PROVE  ProviderInv'
PROOF
  <1>1. PoolInv' /\ UNCHANGED disabled /\ UNCHANGED <<rejected, calls>>
    BY PassingIs DEF ProviderInv, Passes
  <1>2. RetiredAreRejected' /\ CallsTyped' /\ heard' \in [Call -> BOOLEAN]
    BY <1>1 DEF ProviderInv, RetiredAreRejected, CallsTyped, calls
  <1>3. \A c \in Call : CallIsGood(c)'
    BY <1>1 DEF ProviderInv, CallIsGood, KeyInUse, Accounted, HadItsTurn, Held, calls
  <1> QED
    BY <1>1, <1>2, <1>3 DEF ProviderInv

LEMMA ProviderInductive == ProviderInv /\ [ProviderNext]_provider => ProviderInv'
PROOF
  <1> SUFFICES ASSUME ProviderInv, [ProviderNext]_provider
               PROVE  ProviderInv'
    OBVIOUS
  <1>1. CASE Passes
    BY <1>1, PassesProvider
  <1>2. ASSUME NEW c \in Call, Begins(c)
        PROVE  ProviderInv'
    BY <1>2, BeginsProvider
  <1>3. ASSUME NEW c \in Call, Acquires(c) \/ FindsNoKeys(c) \/ LosesPatience(c) \/ Sends(c)
        PROVE  ProviderInv'
    BY <1>3, AcquiresProvider, KeylessProvider, SendsProvider
  <1>4. ASSUME NEW c \in Call, NEW answer \in Answer, Receives(c, answer)
        PROVE  ProviderInv'
    BY <1>4, ReceivesProvider
  <1>5. CASE UNCHANGED provider
    <2>1. UNCHANGED <<rejected, disabled, soon, cooling, stage, at, tried, key, retryable,
                      failed, heard>>
      BY <1>5 DEF provider, pool, calls
    <2> QED
      BY <2>1 DEF ProviderInv, PoolInv, InLine, RetiredAreRejected, CallsTyped,
                  CallIsGood, KeyInUse, Accounted, HadItsTurn, Held
  <1> QED
    BY <1>1, <1>2, <1>3, <1>4, <1>5 DEF ProviderNext, Proceeds

LEMMA ProviderAlways == ProviderSpec => []ProviderInv
  BY InitProvider, ProviderInductive, PTL DEF ProviderSpec

\* Pool and calls stay well typed: no key is in line twice, however reports, recoveries
\* and keys handed out before their time interleave (KeyPool's asyncio lock makes each one
\* step).
THEOREM ProviderTypeCorrect == ProviderSpec => []TypeOK
PROOF
  <1>1. ProviderInv => TypeOK
    <2> SUFFICES ASSUME ProviderInv PROVE TypeOK
      OBVIOUS
    <2>1. PoolTypeOK
      BY RecoveringIs DEF ProviderInv
    <2>2. rejected \subseteq Key
      BY ProviderAssumption DEF ProviderInv, RetiredAreRejected
    <2> QED
      BY <2>1, <2>2 DEF ProviderInv, CallsTyped, TypeOK
  <1> QED
    BY <1>1, ProviderAlways, PTL

\* A call never fails on rejected keys alone while the pool has a key that works, for any
\* number of calls and keys and any length of the three loops of _call_with_chain and
\* _request, if fewer keys are rejected than a call may send requests.
THEOREM GoodKeysAreTried == RejectedAreFew => (ProviderSpec => []GoodKeysHaveTheirTurn)
PROOF
  <1> SUFFICES ASSUME RejectedAreFew PROVE ProviderSpec => []GoodKeysHaveTheirTurn
    OBVIOUS
  <1>1. ProviderInv => GoodKeysHaveTheirTurn
    BY DEF ProviderInv, CallIsGood, HadItsTurn, GoodKeysHaveTheirTurn
  <1> QED
    BY <1>1, ProviderAlways, PTL

-----------------------------------------------------------------------------
(* The knowledge base. *)

\* No summary outlives its section or speaks of another text than its hash says.
THEOREM SummariesAreTrue == Spec => []SummariesAreOfTheirText
<1>1. Init => SummariesAreOfTheirText
  BY DEF Init, SummariesAreOfTheirText
<1>2. SummariesAreOfTheirText /\ [Next]_vars => SummariesAreOfTheirText'
  <2> SUFFICES ASSUME SummariesAreOfTheirText, [Next]_vars
               PROVE  SummariesAreOfTheirText'
    OBVIOUS
  <2>1. CASE Edit \/ TakesPrint
    BY <2>1 DEF Edit, TakesPrint, SummariesAreOfTheirText
  <2>2. ASSUME NEW x \in Indexer, Begin(x)
        PROVE  SummariesAreOfTheirText'
    BY <2>2 DEF Begin, SummariesAreOfTheirText
  <2>3. ASSUME NEW x \in Indexer, Summarise(x)
        PROVE  SummariesAreOfTheirText'
    <3>1. PICK h \in job[x].left :
             LET s    == Sections[job[x].taken][h]
                 says == Concepts(s.hash)
             IN  IF s.id \in DOMAIN nodes
                 THEN summaries' = [n \in DOMAIN summaries \cup {s.id} |->
                        IF n = s.id THEN [hash |-> s.hash, says |-> says] ELSE summaries[n]]
                 ELSE UNCHANGED summaries
      BY <2>3 DEF Summarise
    <3> DEFINE s == Sections[job[x].taken][h]
    <3>2. UNCHANGED nodes
      BY <2>3 DEF Summarise
    <3> QED
      BY <3>1, <3>2 DEF SummariesAreOfTheirText
  <2>4. ASSUME NEW x \in Indexer, GiveUp(x) \/ Conclude(x) \/ Stop(x)
        PROVE  SummariesAreOfTheirText'
    <3>1. UNCHANGED <<nodes, summaries>>
      BY <2>4 DEF GiveUp, Conclude, Stop
    <3> QED
      BY <3>1 DEF SummariesAreOfTheirText
  <2>5. CASE UNCHANGED vars
    BY <2>5 DEF vars, SummariesAreOfTheirText
  <2> QED
    BY <2>1, <2>2, <2>3, <2>4, <2>5 DEF Next
<1> QED
  BY <1>1, <1>2, PTL DEF Spec

-----------------------------------------------------------------------------
(* IndexIsCurrent.  While the job is at work alone the rows are those of the text it took, *)
(* and what is neither summarised nor given up is still before it.                         *)

\* Nothing is to be done for the section at h of t any more.
Settled(t, h) ==
    \/ HasSummary(t, h)
    \/ <<Sections[t][h].id, Sections[t][h].hash>> \in gaveUp

Done(t, left) ==
    /\ nodes = Parsed[t]
    /\ left \subseteq DOMAIN Sections[t]
    /\ \A h \in DOMAIN Sections[t] \ left : Settled(t, h)

Shape ==
    /\ text \in Versions
    /\ torn \in BOOLEAN
    /\ DOMAIN job = Indexer
    /\ \A x \in Indexer :
          \/ job[x] = Idle
          \/ job[x].at \in {"read", "summarise"} /\ job[x].alone \in BOOLEAN

\* Whoever runs beside the job, or instead of it, has torn the index.
Torn ==
    /\ \A x \in Indexer \ {"job"} : job[x] # Idle => torn = TRUE
    /\ job["job"] # Idle /\ job["job"].alone = FALSE => torn = TRUE

\* Between its two reads, and at work.
AtWork ==
    /\ \A x \in Indexer \ {"job"} : job[x].at # "read"
    /\ job["job"] # Idle /\ job["job"].alone = TRUE =>
          /\ \A x \in Indexer \ {"job"} : job[x] = Idle
          /\ job["job"].at = "read" => job["job"].stamp = text
          /\ job["job"].at = "summarise" =>
                job["job"].stamp = job["job"].taken /\ Done(job["job"].taken, job["job"].left)

AtRest == torn = FALSE /\ job["job"] = Idle /\ print # "none" => Done(print, {})

IndexInv == Shape /\ Torn /\ AtWork /\ AtRest

LEMMA InitIndex == Init => IndexInv
PROOF
  <1> SUFFICES ASSUME Init PROVE IndexInv
    OBVIOUS
  <1>1. /\ text \in Versions /\ torn = FALSE /\ print = "none" /\ DOMAIN job = Indexer
        /\ \A x \in Indexer : job[x] = Idle
    BY DEF Init
  <1>2. \A x \in Indexer : job[x].at # "read"
    BY <1>1 DEF Idle
  <1> QED
    BY <1>1, <1>2, KnowledgeAssumption DEF IndexInv, Shape, Torn, AtWork, AtRest

\* Where the rows, the summaries and what was given up stay, so does what is done.
LEMMA DoneStays ==
  ASSUME NEW t, NEW left, Done(t, left), UNCHANGED <<nodes, summaries>>,
         gaveUp \subseteq gaveUp'
  PROVE  Done(t, left)'
  BY DEF Done, Settled, HasSummary

LEMMA EditIndex ==
  ASSUME IndexInv, Edit
  PROVE  IndexInv'
PROOF
  <1>1. text' \in Versions /\ UNCHANGED <<nodes, summaries, print, gaveUp>>
    BY DEF Edit
  <1>2. CASE job["job"].at = "read"
    <2>1. job' = [job EXCEPT !["job"] = Beside(job["job"])] /\ torn' = TRUE
      BY <1>2 DEF Edit
    <2>2. job["job"] # Idle
      BY <1>2 DEF Idle
    <2>a. /\ Beside(job["job"]).at = "read" /\ Beside(job["job"]).alone = FALSE
          /\ Beside(job["job"]) # Idle
      BY <1>2, <2>2 DEF Beside, Reading, Idle
    <2>3. /\ job'["job"] # Idle /\ job'["job"].at = "read" /\ job'["job"].alone = FALSE
          /\ \A x \in Indexer \ {"job"} : job'[x] = job[x]
          /\ DOMAIN job' = Indexer
      BY <2>1, <2>a, KnowledgeAssumption DEF IndexInv, Shape
    <2> QED
      BY <1>1, <2>1, <2>3, KnowledgeAssumption DEF IndexInv, Shape, Torn, AtWork, AtRest
  <1>3. CASE job["job"].at # "read"
    <2>1. UNCHANGED <<job, torn>>
      BY <1>3 DEF Edit
    <2> QED
      BY <1>1, <1>3, <2>1, DoneStays DEF IndexInv, Shape, Torn, AtWork, AtRest
  <1> QED
    BY <1>2, <1>3

LEMMA PrintIndex ==
  ASSUME IndexInv, TakesPrint
  PROVE  IndexInv'
PROOF
  <1> DEFINE alone == Alone("job")
  <1>1. /\ job["job"] = Idle
        /\ job' = [job EXCEPT !["job"] = Reading(text, alone)]
        /\ UNCHANGED <<text, nodes, summaries, print, gaveUp, torn>>
    BY DEF TakesPrint
  <1>2. alone \in BOOLEAN /\ (alone <=> \A x \in Indexer \ {"job"} : job[x] = Idle)
    BY DEF Alone
  <1> HIDE DEF alone
  <1>3. /\ job'["job"].at = "read" /\ job'["job"].stamp = text /\ job'["job"].alone = alone
        /\ job'["job"] # Idle
        /\ \A x \in Indexer \ {"job"} : job'[x] = job[x]
        /\ DOMAIN job' = Indexer
    BY <1>1, KnowledgeAssumption DEF IndexInv, Shape, Reading, Idle
  <1>4. Shape'
    BY <1>1, <1>2, <1>3 DEF IndexInv, Shape
  <1>5. Torn'
    BY <1>1, <1>2, <1>3 DEF IndexInv, Torn
  <1>6. AtWork' /\ AtRest'
    BY <1>1, <1>2, <1>3 DEF IndexInv, AtWork, AtRest
  <1> QED
    BY <1>4, <1>5, <1>6 DEF IndexInv

\* What is no target has its summary.
LEMMA NoTarget ==
  ASSUME NEW t, NEW h \in DOMAIN Sections[t], h \notin Targets(t, summaries)
  PROVE  HasSummary(t, h)
  BY DEF Targets, HasSummary

LEMMA BeginIndex ==
  ASSUME IndexInv, NEW x \in Indexer, Begin(x)
  PROVE  IndexInv'
PROOF
  <1>0. PICK kept, target :
          /\ kept = [id \in DOMAIN summaries \cap DOMAIN Parsed[text] |-> summaries[id]]
          /\ target = Targets(text, kept)
    OBVIOUS
  <1> DEFINE stamp == IF x = "job" THEN job[x].stamp ELSE text
             alone == IF x = "job" THEN job[x].alone ELSE Alone(x)
             after == IF target = {} THEN Idle ELSE Working(target, text, stamp, {}, alone)
  <1>1. /\ nodes' = Parsed[text]
        /\ summaries' = kept
        /\ job' = [y \in Indexer |-> IF y # x THEN Beside(job[y]) ELSE after]
        /\ print' = IF target = {} THEN Stored(x, stamp) ELSE print
        /\ torn' = IF x = "job" THEN torn /\ ~(alone /\ target = {}) ELSE TRUE
        /\ UNCHANGED <<text, gaveUp>>
        /\ job[x].at = IF x = "job" THEN "read" ELSE "idle"
    BY <1>0 DEF Begin
  <1>2. Done(text, target)'
    <2>1. target = Targets(text, summaries)'
      BY <1>0, <1>1 DEF Targets
    <2> QED
      BY <1>1, <2>1 DEF Done, Settled, Targets, HasSummary
  <1>3. alone \in BOOLEAN
    <2>1. CASE x = "job"
      <3>1. job[x] # Idle
        BY <1>1, <2>1 DEF Idle
      <3> QED
        BY <2>1, <3>1 DEF IndexInv, Shape
    <2>2. CASE x # "job"
      <3>1. Alone(x) = TRUE \/ Alone(x) = FALSE
        BY DEF Alone
      <3> QED
        BY <2>2, <3>1
    <2> QED
      BY <2>1, <2>2
  <1>a. after = Idle \/ (after.at = "summarise" /\ after.alone = alone /\ after.left = target
                          /\ after.taken = text /\ after.stamp = stamp /\ after # Idle)
    BY DEF Working, Idle
  <1>c. after = Idle \/ after.alone \in BOOLEAN
    BY <1>3 DEF Working
  <1>b. target = {} <=> after = Idle
    BY DEF Working, Idle
  <1> HIDE DEF after, stamp, alone
  <1>4. ASSUME NEW y \in Indexer, y # x
        PROVE  /\ job[y] = Idle => job'[y] = Idle
               /\ job[y] # Idle => /\ job'[y].at = job[y].at /\ job'[y].alone = FALSE
                                   /\ job'[y] # Idle
    <2>1. job'[y] = Beside(job[y])
      BY <1>1, <1>4
    <2>2. job[y] = Idle \/ job[y].at \in {"read", "summarise"}
      BY DEF IndexInv, Shape
    <2>3. /\ job[y] = Idle => Beside(job[y]) = Idle
          /\ job[y] # Idle => /\ Beside(job[y]).at = job[y].at /\ Beside(job[y]).alone = FALSE
                              /\ Beside(job[y]) # Idle
      <3>1. CASE job[y] = Idle
        BY <3>1 DEF Beside, Idle
      <3>2. CASE job[y] # Idle
        BY <2>2, <3>2 DEF Beside, Reading, Working, Idle
      <3> QED
        BY <3>1, <3>2
    <2> QED
      BY <2>1, <2>3
  <1>o. job'[x] = after
    BY <1>1
  <1>5. Shape'
    <2>1. text' \in Versions /\ torn' \in BOOLEAN /\ DOMAIN job' = Indexer
      BY <1>1, <1>3 DEF IndexInv, Shape
    <2>2. ASSUME NEW y \in Indexer
          PROVE  \/ job'[y] = Idle
                 \/ job'[y].at \in {"read", "summarise"} /\ job'[y].alone \in BOOLEAN
      <3>1. CASE y = x
        BY <1>a, <1>c, <1>o, <3>1
      <3>2. CASE y # x
        <4>1. job[y] = Idle \/ job[y].at \in {"read", "summarise"}
          BY DEF IndexInv, Shape
        <4>2. CASE job[y] = Idle
          BY <1>4, <3>2, <4>2
        <4>3. CASE job[y] # Idle
          BY <1>4, <3>2, <4>1, <4>3
        <4> QED
          BY <4>2, <4>3
      <3> QED
        BY <3>1, <3>2
    <2> QED
      BY <2>1, <2>2 DEF Shape
  <1>6. CASE x # "job"
    <2>1. torn' = TRUE
      BY <1>1, <1>6
    <2>2. job'["job"] # Idle => job'["job"].alone = FALSE
      BY <1>4, <1>6, KnowledgeAssumption
    <2>3. ASSUME NEW y \in Indexer \ {"job"} PROVE job'[y].at # "read"
      <3>1. CASE y = x
        BY <1>a, <1>o, <3>1 DEF Idle
      <3>2. CASE y # x
        BY <1>4, <3>2 DEF IndexInv, AtWork, Idle
      <3> QED
        BY <3>1, <3>2
    <2> QED
      BY <1>5, <2>1, <2>2, <2>3 DEF IndexInv, Torn, AtWork, AtRest
  <1>7. CASE x = "job"
    <2>1. job["job"] # Idle /\ job["job"].at = "read" /\ alone = job["job"].alone
          /\ stamp = job["job"].stamp
      BY <1>1, <1>7 DEF Idle, alone, stamp
    <2>2. job'["job"] = after
      BY <1>1, <1>7
    <2>3. Torn'
      <3>1. ASSUME NEW y \in Indexer \ {"job"}, job'[y] # Idle PROVE torn' = TRUE
        <4>1. job[y] # Idle
          BY <1>4, <1>7, <3>1
        <4>2. torn = TRUE /\ alone # TRUE
          BY <2>1, <4>1 DEF IndexInv, Torn, AtWork
        <4> QED
          BY <1>1, <1>7, <4>2
      <3>2. ASSUME alone = FALSE PROVE torn' = TRUE
        BY <1>1, <1>7, <2>1, <3>2 DEF IndexInv, Torn
      <3> QED
        BY <1>a, <2>2, <3>1, <3>2 DEF Torn
    <2>4. AtWork'
      <3>1. \A y \in Indexer \ {"job"} : job'[y].at # "read"
        BY <1>4, <1>7 DEF IndexInv, AtWork, Idle
      <3>2. ASSUME job'["job"] # Idle, job'["job"].alone = TRUE
            PROVE  /\ \A y \in Indexer \ {"job"} : job'[y] = Idle
                   /\ job'["job"].at = "summarise" /\ job'["job"].stamp = text
                   /\ job'["job"].taken = text /\ job'["job"].left = target
        <4>1. alone = TRUE /\ after # Idle
          BY <1>a, <2>2, <3>2
        <4>2. (\A y \in Indexer \ {"job"} : job[y] = Idle) /\ stamp = text
          BY <2>1, <4>1 DEF IndexInv, AtWork
        <4> QED
          BY <1>4, <1>7, <1>a, <2>2, <4>1, <4>2
      <3>3. ASSUME job'["job"] # Idle, job'["job"].alone = TRUE
            PROVE  Done(job["job"].taken, job["job"].left)'
        <4>1. job'["job"].taken = text /\ job'["job"].left = target
          BY <3>2, <3>3
        <4>2. /\ nodes' = Parsed[text] /\ target \subseteq DOMAIN Sections[text]
              /\ \A h \in DOMAIN Sections[text] \ target : Settled(text, h)'
          BY <1>1, <1>2 DEF Done
        <4>3. ASSUME NEW h \in DOMAIN Sections[text] \ target
              PROVE  Settled(job["job"].taken, h)'
          <5>1. text' = text /\ job'["job"].taken = text
            BY <1>1, <4>1
          <5>2. Settled(text, h)'
            BY <4>2
          <5> QED
            BY <5>1, <5>2 DEF Settled, HasSummary
        <4> QED
          BY <4>1, <4>2, <4>3 DEF Done
      <3> QED
        BY <1>1, <3>1, <3>2, <3>3 DEF AtWork
    <2>5. AtRest'
      <3> SUFFICES ASSUME torn' = FALSE, job'["job"] = Idle PROVE Done(print, {})'
        BY DEF AtRest
      <3>1. target = {} /\ print' = stamp
        BY <1>1, <1>7, <1>b, <2>2 DEF Stored
      <3>2. alone = TRUE
        BY <1>1, <1>3, <1>7, <2>1 DEF IndexInv, Torn
      <3>3. stamp = text
        BY <2>1, <3>2 DEF IndexInv, AtWork
      <3>4. Done(text, {})'
        BY <1>2, <3>1 DEF Done
      <3> QED
        BY <1>1, <3>1, <3>3, <3>4 DEF Done, Settled, HasSummary
    <2> QED
      BY <1>5, <2>3, <2>4, <2>5 DEF IndexInv
  <1> QED
    BY <1>6, <1>7

\* One section of t gets its summary; t's rows are those in the table.
LEMMA SettlesOne ==
  ASSUME NEW t, NEW left, NEW h \in DOMAIN Sections[t], Done(t, left),
         UNCHANGED nodes,
         LET s == Sections[t][h]
         IN  /\ summaries' = [n \in DOMAIN summaries \cup {s.id} |->
                    IF n = s.id THEN [hash |-> s.hash, says |-> Concepts(s.hash)]
                    ELSE summaries[n]]
             /\ gaveUp' = gaveUp \ {<<s.id, s.hash>>}
  PROVE  Done(t, left \ {h})'
PROOF
  <1> DEFINE id == Sections[t][h].id
             hash == Sections[t][h].hash
  <1>1. /\ id \in DOMAIN summaries' /\ summaries'[id].hash = hash
        /\ \A n \in DOMAIN summaries : n # id => n \in DOMAIN summaries'
                                                /\ summaries'[n] = summaries[n]
        /\ gaveUp' = gaveUp \ {<<id, hash>>}
    OBVIOUS
  <1> HIDE DEF id, hash
  <1>2. ASSUME NEW k \in DOMAIN Sections[t] \ (left \ {h}) PROVE Settled(t, k)'
    <2>1. CASE Sections[t][k].id = id
      <3>1. HasSummary(t, k)'
        BY <1>1, <2>1 DEF HasSummary, id, hash
      <3> QED
        BY <3>1 DEF Settled
    <2>2. CASE Sections[t][k].id # id
      <3>1. k \notin left
        BY <1>2, <2>2 DEF id
      <3>2. Settled(t, k)
        BY <1>2, <3>1 DEF Done
      <3>3. CASE HasSummary(t, k)
        BY <1>1, <2>2, <3>3 DEF Settled, HasSummary
      <3>4. CASE <<Sections[t][k].id, Sections[t][k].hash>> \in gaveUp
        BY <1>1, <2>2, <3>4 DEF Settled
      <3> QED
        BY <3>2, <3>3, <3>4 DEF Settled
    <2> QED
      BY <2>1, <2>2
  <1> QED
    BY <1>2 DEF Done

\* An indexer that stops has torn the index, whatever it leaves behind.
LEMMA StoppedIndex ==
  ASSUME IndexInv, NEW x \in Indexer, job[x] # Idle, Stopped(x), UNCHANGED <<text, print>>
  PROVE  IndexInv'
PROOF
  <1>1. job' = [job EXCEPT ![x] = Idle] /\ torn' = TRUE
    BY DEF Stopped
  <1>2. job'["job"] # Idle /\ job'["job"].alone = TRUE => FALSE
    BY <1>1, KnowledgeAssumption DEF IndexInv, Shape, AtWork
  <1>3. \A y \in Indexer \ {"job"} : job'[y].at # "read"
    BY <1>1 DEF IndexInv, Shape, AtWork, Idle
  <1> QED
    BY <1>1, <1>2, <1>3, KnowledgeAssumption DEF IndexInv, Shape, Torn, AtWork, AtRest

\* One that goes on without a section keeps the index, if that section is settled.
LEMMA GoesOnIndex ==
  ASSUME IndexInv, NEW x \in Indexer, NEW h, NEW names, GoesOn(x, h, names),
         job[x].at = "summarise", NEW t, NEW left, t = job[x].taken, left = job[x].left,
         Done(t, left) => Done(t, left \ {h})',
         UNCHANGED <<text, print, torn>>
  PROVE  IndexInv'
PROOF
  <1>1. /\ job' = [job EXCEPT ![x] = Working(left \ {h}, t, job[x].stamp, names, job[x].alone)]
        /\ job[x] # Idle
    BY DEF GoesOn, Idle
  <1>2. /\ job'[x].at = "summarise" /\ job'[x].left = left \ {h} /\ job'[x].taken = t
        /\ job'[x].stamp = job[x].stamp /\ job'[x].alone = job[x].alone /\ job'[x] # Idle
        /\ \A y \in Indexer \ {x} : job'[y] = job[y]
        /\ DOMAIN job' = Indexer
    BY <1>1 DEF IndexInv, Shape, Working, Idle
  <1>3. Shape' /\ Torn'
    BY <1>1, <1>2, KnowledgeAssumption DEF IndexInv, Shape, Torn
  <1>4. AtWork'
    <2>1. \A y \in Indexer \ {"job"} : job'[y].at # "read"
      BY <1>2 DEF IndexInv, AtWork
    <2>2. CASE x = "job"
      BY <1>1, <1>2, <2>1, <2>2 DEF IndexInv, AtWork
    <2>3. CASE x # "job"
      <3>1. ~(job'["job"] # Idle /\ job'["job"].alone = TRUE)
        BY <1>1, <1>2, <2>3, KnowledgeAssumption DEF IndexInv, AtWork
      <3> QED
        BY <2>1, <3>1 DEF AtWork
    <2> QED
      BY <2>2, <2>3
  <1>5. AtRest'
    BY <1>1, <1>2, KnowledgeAssumption DEF IndexInv, Torn, AtRest
  <1> QED
    BY <1>3, <1>4, <1>5 DEF IndexInv

LEMMA SummariseIndex ==
  ASSUME IndexInv, NEW x \in Indexer, Summarise(x)
  PROVE  IndexInv'
PROOF
  <1>0. PICK t, left : t = job[x].taken /\ left = job[x].left
    OBVIOUS
  <1>1. job[x].at = "summarise" /\ job[x] # Idle
    BY DEF Summarise, Idle
  <1>2. UNCHANGED <<text, nodes, print>>
    BY DEF Summarise
  <1>3. PICK h \in left :
           LET s == Sections[t][h]
           IN  IF s.id \in DOMAIN nodes
               THEN /\ summaries' = [n \in DOMAIN summaries \cup {s.id} |->
                        IF n = s.id THEN [hash |-> s.hash, says |-> Concepts(s.hash)]
                        ELSE summaries[n]]
                    /\ GoesOn(x, h, job[x].names \cup Concepts(s.hash))
                    /\ gaveUp' = gaveUp \ {<<s.id, s.hash>>}
                    /\ UNCHANGED torn
               ELSE Stopped(x)
    BY <1>0 DEF Summarise
  <1>4. CASE Stopped(x)
    BY <1>1, <1>2, <1>4, StoppedIndex
  <1>5. CASE ~Stopped(x)
    <2> DEFINE id == Sections[t][h].id
               hash == Sections[t][h].hash
    <2>1. PICK names : GoesOn(x, h, names)
      BY <1>3, <1>5
    <2>2. /\ UNCHANGED torn
          /\ summaries' = [n \in DOMAIN summaries \cup {id} |->
                IF n = id THEN [hash |-> hash, says |-> Concepts(hash)] ELSE summaries[n]]
          /\ gaveUp' = gaveUp \ {<<id, hash>>}
      BY <1>3, <1>5
    <2>3. ASSUME Done(t, left) PROVE Done(t, left \ {h})'
      <3>1. h \in DOMAIN Sections[t]
        BY <1>3, <2>3 DEF Done
      <3> QED
        BY <1>2, <2>2, <2>3, <3>1, SettlesOne
    <2> HIDE DEF id, hash
    <2> QED
      BY <1>0, <1>1, <1>2, <2>1, <2>2, <2>3, GoesOnIndex
  <1> QED
    BY <1>4, <1>5

LEMMA GiveUpIndex ==
  ASSUME IndexInv, NEW x \in Indexer, GiveUp(x)
  PROVE  IndexInv'
PROOF
  <1>0. PICK t, left : t = job[x].taken /\ left = job[x].left
    OBVIOUS
  <1>1. job[x].at = "summarise" /\ UNCHANGED <<text, nodes, summaries, print, torn>>
    BY DEF GiveUp
  <1>2. PICK h \in left :
          /\ GoesOn(x, h, job[x].names)
          /\ gaveUp' = gaveUp \cup {<<Sections[t][h].id, Sections[t][h].hash>>}
    BY <1>0 DEF GiveUp
  <1>3. ASSUME Done(t, left) PROVE Done(t, left \ {h})'
    <2>1. ASSUME NEW k \in DOMAIN Sections[t] \ (left \ {h}) PROVE Settled(t, k)'
      <3>1. CASE k = h
        BY <1>2, <3>1 DEF Settled
      <3>2. CASE k # h
        <4>1. Settled(t, k)
          BY <1>3, <2>1, <3>2 DEF Done
        <4> QED
          BY <1>1, <1>2, <4>1 DEF Settled, HasSummary
      <3> QED
        BY <3>1, <3>2
    <2> QED
      BY <1>1, <1>3, <2>1 DEF Done
  <1> QED
    BY <1>0, <1>1, <1>2, <1>3, GoesOnIndex

LEMMA ConcludeIndex ==
  ASSUME IndexInv, NEW x \in Indexer, Conclude(x)
  PROVE  IndexInv'
PROOF
  <1>1. /\ job[x].at = "summarise" /\ job[x].left = {} /\ job[x] # Idle
        /\ print' = Stored(x, job[x].stamp)
        /\ job' = [job EXCEPT ![x] = Idle]
        /\ torn' = (torn /\ ~(x = "job" /\ job[x].alone))
        /\ UNCHANGED <<text, nodes, summaries, gaveUp>>
    BY DEF Conclude, Idle
  <1>2. Shape' /\ Torn'
    BY <1>1, KnowledgeAssumption DEF IndexInv, Shape, Torn, AtWork
  <1>3. AtWork'
    BY <1>1, KnowledgeAssumption DEF IndexInv, Shape, AtWork, Idle
  <1>4. CASE x = "job"
    <2>1. job'["job"] = Idle /\ print' = job["job"].stamp
      BY <1>1, <1>4, KnowledgeAssumption DEF IndexInv, Shape, Stored
    <2> SUFFICES ASSUME torn' = FALSE PROVE Done(print, {})'
      BY <1>2, <1>3 DEF IndexInv, AtRest
    <2>2. job["job"].alone = TRUE
      BY <1>1, <1>4 DEF IndexInv, Shape, Torn
    <2>3. print' = job["job"].taken /\ Done(job["job"].taken, {})
      BY <1>1, <1>4, <2>1, <2>2 DEF IndexInv, AtWork
    <2>4. Done(print', {})
      BY <2>3
    <2> QED
      BY <1>1, <2>4 DEF Done, Settled, HasSummary
  <1>5. CASE x # "job"
    <2>1. torn' = TRUE
      BY <1>1, <1>5 DEF IndexInv, Shape, Torn
    <2> QED
      BY <1>2, <1>3, <2>1 DEF IndexInv, AtRest
  <1> QED
    BY <1>4, <1>5

LEMMA StopIndex ==
  ASSUME IndexInv, NEW x \in Indexer, Stop(x)
  PROVE  IndexInv'
PROOF
  <1>1. Stopped(x) /\ job[x] # Idle /\ UNCHANGED <<text, print>>
    BY DEF Stop
  <1> QED
    BY <1>1, StoppedIndex

LEMMA IndexInductive == IndexInv /\ [Next]_vars => IndexInv'
PROOF
  <1> SUFFICES ASSUME IndexInv, [Next]_vars
               PROVE  IndexInv'
    OBVIOUS
  <1>1. CASE UNCHANGED vars
    <2>1. UNCHANGED <<text, nodes, summaries, print, job, gaveUp, torn>>
      BY <1>1 DEF vars
    <2> QED
      BY <2>1, DoneStays DEF IndexInv, Shape, Torn, AtWork, AtRest
  <1>2. ASSUME NEW x \in Indexer,
               Begin(x) \/ Summarise(x) \/ GiveUp(x) \/ Conclude(x) \/ Stop(x)
        PROVE  IndexInv'
    BY <1>2, BeginIndex, SummariseIndex, GiveUpIndex, ConcludeIndex, StopIndex
  <1> QED
    BY <1>1, <1>2, EditIndex, PrintIndex DEF Next

LEMMA IndexImplies == IndexInv => IndexIsCurrent
  BY KnowledgeAssumption
  DEF IndexInv, Shape, AtRest, Done, Settled, IndexIsCurrent, Current

\* When the job finds nothing to do after a pass of its own, in which nobody edited
\* between its two reads, the rows are those of the manuscript as it is, and every section
\* has a summary of its text or of a section that shares its id, up to what the model
\* failed for.
THEOREM IndexIsSound == Spec => []KnowledgeIsCurrent
PROOF
  <1>1. Spec => []IndexInv
    BY InitIndex, IndexInductive, PTL DEF Spec
  <1>2. Spec => []IndexIsCurrent
    BY <1>1, IndexImplies, PTL
  <1>3. Spec => []SummariesAreOfTheirText
    BY SummariesAreTrue
  <1>4. IndexIsCurrent /\ SummariesAreOfTheirText => KnowledgeIsCurrent
    BY DEF KnowledgeIsCurrent
  <1> QED
    BY <1>2, <1>3, <1>4, PTL

=============================================================================

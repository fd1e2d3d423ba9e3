------------------------- MODULE OrchestratorProofs -------------------------
(* What the table of pipelines keeps whatever the jobs do, for any clusters,  *)
(* limits and numbers of pipelines.                                           *)
EXTENDS Orchestrator, NaturalsInduction, WellFoundedInduction, TLAPS

-----------------------------------------------------------------------------
(* Filtering a sequence *)

\* A set of naturals that is not empty has a least member.
LEMMA SmallestOf ==
    ASSUME NEW T, T \subseteq Nat, T # {}
    PROVE  \E i \in T : \A j \in T : i <= j
  <1> DEFINE R == {ss \in Nat \X Nat : ss[1] < ss[2]}
  <1>1. IsWellFoundedOn(R, Nat)
    BY NatLessThanWellFounded DEF OpToRel
  <1>2. PICK i \in T : \A j \in T : <<j, i>> \notin R
    BY <1>1, WFMin
  <1>3. ASSUME NEW j \in T PROVE i <= j
    <2>1. <<j, i>> \in Nat \X Nat /\ <<j, i>>[1] = j /\ <<j, i>>[2] = i
      OBVIOUS
    <2>2. ~ (j < i)
      BY <1>2, <2>1
    <2> QED BY <2>2
  <1> QED BY <1>3

\* One step of the filter.
Taken(seq, set, g, n) ==
    IF n = 0 THEN <<>>
    ELSE IF seq[n] \in set THEN Append(g[n - 1], seq[n]) ELSE g[n - 1]

\* The recursion of Among has a solution, so the function it names is one.
LEMMA AmongIsDefined ==
    ASSUME NEW S, NEW seq \in Seq(S), NEW set
    PROVE  \E f : /\ f = [n \in 0 .. Len(seq) |-> Taken(seq, set, f, n)]
                  /\ Among(seq, set) = f[Len(seq)]
  <1> DEFINE Solves(g, m) == g = [n \in 0 .. m |-> Taken(seq, set, g, n)]
             Bad == {m \in 0 .. Len(seq) : ~ \E g : Solves(g, m)}
  <1>1. Len(seq) \in Nat
    OBVIOUS
  <1>2. ASSUME NEW m \in Bad, \A k \in Bad : m <= k PROVE FALSE
    <2>1. CASE m = 0
      <3>1. Solves([n \in 0 .. 0 |-> <<>>], 0)
        BY DEF Taken
      <3> QED BY <3>1, <2>1
    <2>2. CASE m # 0
      <3>1. m - 1 \in 0 .. Len(seq) /\ m - 1 \notin Bad /\ m \in Nat
        BY <1>1, <1>2, <2>2
      <3>2. PICK g : Solves(g, m - 1)
        BY <3>1
      <3> DEFINE h == [n \in 0 .. m |-> IF n = m THEN Taken(seq, set, g, m) ELSE g[n]]
      <3>3. ASSUME NEW n \in 0 .. m PROVE h[n] = Taken(seq, set, h, n)
        <4>1. CASE n = m
          <5>1. h[m - 1] = g[m - 1]
            BY <3>1, <2>2
          <5> QED BY <5>1, <4>1, <2>2 DEF Taken
        <4>2. CASE n # m
          <5>1. n \in 0 .. (m - 1) /\ h[n] = g[n]
            BY <4>2, <3>1
          <5>2. g[n] = Taken(seq, set, g, n)
            BY <5>1, <3>2
          <5>3. n # 0 => h[n - 1] = g[n - 1]
            BY <5>1, <3>1
          <5> QED BY <5>1, <5>2, <5>3 DEF Taken
        <4> QED BY <4>1, <4>2
      <3>4. Solves(h, m)
        BY <3>3
      <3> QED BY <3>4
    <2> QED BY <2>1, <2>2
  <1>3. Bad \subseteq Nat
    BY <1>1
  <1>4. Bad = {}
    BY <1>2, <1>3, SmallestOf
  <1>5. \E g : Solves(g, Len(seq))
    BY <1>1, <1>4
  <1> DEFINE f == CHOOSE f : f = [n \in 0 .. Len(seq) |->
                     IF n = 0 THEN <<>>
                     ELSE IF seq[n] \in set THEN Append(f[n - 1], seq[n]) ELSE f[n - 1]]
  <1>6. f = [n \in 0 .. Len(seq) |-> Taken(seq, set, f, n)]
    BY <1>5 DEF Taken
  <1>7. Among(seq, set) = f[Len(seq)]
    BY DEF Among
  <1> QED BY <1>6, <1>7

OneEach(seq) == \A i, j \in DOMAIN seq : seq[i] = seq[j] => i = j

\* What has come of the first n.
Filters(S, seq, set, r, n) ==
    /\ r \in Seq(S \cap set)
    /\ \A k \in 1 .. Len(r) : \E j \in 1 .. n : r[k] = seq[j]
    /\ \A j \in 1 .. n : seq[j] \in set => \E k \in 1 .. Len(r) : r[k] = seq[j]
    /\ OneEach(seq) => OneEach(r)

LEMMA FilterStep ==
    ASSUME NEW S, NEW seq \in Seq(S), NEW set, NEW r, NEW n \in 0 .. Len(seq), n # 0,
           Filters(S, seq, set, r, n - 1)
    PROVE  Filters(S, seq, set, IF seq[n] \in set THEN Append(r, seq[n]) ELSE r, n)
  <1>0. n \in Nat /\ n \in 1 .. Len(seq) /\ n - 1 \in Nat
    OBVIOUS
  <1>1. CASE seq[n] \notin set
    <2>1. \A j \in 1 .. n : j = n \/ j \in 1 .. (n - 1)
      BY <1>0
    <2>2. \A j \in 1 .. (n - 1) : j \in 1 .. n
      BY <1>0
    <2> QED BY <1>1, <2>1, <2>2 DEF Filters
  <1>2. CASE seq[n] \in set
    <2> DEFINE q == Append(r, seq[n])
    <2>1. r \in Seq(S \cap set) /\ seq[n] \in S \cap set
      BY <1>0, <1>2 DEF Filters
    <2>2. /\ q \in Seq(S \cap set) /\ Len(q) = Len(r) + 1 /\ Len(r) \in Nat
          /\ q[Len(r) + 1] = seq[n]
          /\ \A k \in 1 .. Len(r) : q[k] = r[k]
      BY <2>1
    <2>3. \A k \in 1 .. Len(q) : k = Len(r) + 1 \/ k \in 1 .. Len(r)
      BY <2>2
    <2>4. ASSUME NEW k \in 1 .. Len(q) PROVE \E j \in 1 .. n : q[k] = seq[j]
      <3>1. CASE k = Len(r) + 1
        BY <3>1, <2>2, <1>0
      <3>2. CASE k \in 1 .. Len(r)
        <4>1. PICK j \in 1 .. (n - 1) : r[k] = seq[j]
          BY <3>2 DEF Filters
        <4> QED BY <4>1, <3>2, <2>2, <1>0
      <3> QED BY <3>1, <3>2, <2>3
    <2>5. ASSUME NEW j \in 1 .. n, seq[j] \in set
          PROVE  \E k \in 1 .. Len(q) : q[k] = seq[j]
      <3>1. CASE j = n
        <4>1. Len(r) + 1 \in 1 .. Len(q)
          BY <2>2
        <4> QED BY <4>1, <3>1, <2>2
      <3>2. CASE j # n
        <4>1. j \in 1 .. (n - 1)
          BY <3>2, <1>0
        <4>2. PICK k \in 1 .. Len(r) : r[k] = seq[j]
          BY <4>1, <2>5 DEF Filters
        <4>3. k \in 1 .. Len(q)
          BY <2>2
        <4> QED BY <4>2, <4>3, <2>2
      <3> QED BY <3>1, <3>2
    <2>6. ASSUME OneEach(seq) PROVE OneEach(q)
      <3>1. DOMAIN q = 1 .. Len(q) /\ DOMAIN r = 1 .. Len(r) /\ DOMAIN seq = 1 .. Len(seq)
        BY <2>1, <2>2
      <3>2. OneEach(r)
        BY <2>6 DEF Filters
      <3>3. \A k \in 1 .. Len(r) : r[k] # seq[n]
        <4>1. SUFFICES ASSUME NEW k \in 1 .. Len(r), r[k] = seq[n] PROVE FALSE
          OBVIOUS
        <4>2. PICK j \in 1 .. (n - 1) : r[k] = seq[j]
          BY DEF Filters
        <4>3. j \in DOMAIN seq /\ n \in DOMAIN seq /\ j # n
          BY <1>0, <3>1
        <4> QED BY <4>1, <4>2, <4>3, <2>6 DEF OneEach
      <3>4. ASSUME NEW i \in 1 .. Len(q), NEW j \in 1 .. Len(q), q[i] = q[j] PROVE i = j
        <4>1. CASE i \in 1 .. Len(r) /\ j \in 1 .. Len(r)
          BY <4>1, <3>4, <3>2, <3>1, <2>2 DEF OneEach
        <4>2. CASE i = Len(r) + 1 /\ j \in 1 .. Len(r)
          BY <4>2, <3>4, <3>3, <2>2
        <4>3. CASE j = Len(r) + 1 /\ i \in 1 .. Len(r)
          BY <4>3, <3>4, <3>3, <2>2
        <4> QED BY <4>1, <4>2, <4>3, <2>3
      <3> QED BY <3>4, <3>1 DEF OneEach
    <2> QED BY <2>2, <2>4, <2>5, <2>6, <1>2 DEF Filters
  <1> QED BY <1>1, <1>2

\* Among keeps exactly what is in the set, and nothing twice that was not there twice.
LEMMA AmongIs ==
    ASSUME NEW S, NEW seq \in Seq(S), NEW set
    PROVE  Filters(S, seq, set, Among(seq, set), Len(seq))
  <1>1. PICK f : /\ f = [n \in 0 .. Len(seq) |-> Taken(seq, set, f, n)]
                 /\ Among(seq, set) = f[Len(seq)]
    BY AmongIsDefined
  <1> DEFINE Bad == {m \in 0 .. Len(seq) : ~ Filters(S, seq, set, f[m], m)}
  <1>2. Len(seq) \in Nat
    OBVIOUS
  <1>3. \A m \in 0 .. Len(seq) : f[m] = Taken(seq, set, f, m)
    BY <1>1
  <1>4. ASSUME NEW m \in Bad, \A k \in Bad : m <= k PROVE FALSE
    <2>1. CASE m = 0
      <3>1. f[0] = <<>>
        BY <1>2, <1>3 DEF Taken
      <3>2. Filters(S, seq, set, <<>>, 0)
        BY DEF Filters, OneEach
      <3> QED BY <2>1, <3>1, <3>2
    <2>2. CASE m # 0
      <3>1. m - 1 \in 0 .. Len(seq) /\ m - 1 \notin Bad /\ m \in 0 .. Len(seq)
        BY <1>2, <1>4, <2>2
      <3>2. Filters(S, seq, set, f[m - 1], m - 1)
        BY <3>1
      <3>3. f[m] = IF seq[m] \in set THEN Append(f[m - 1], seq[m]) ELSE f[m - 1]
        BY <1>3, <2>2 DEF Taken
      <3>4. Filters(S, seq, set, f[m], m)
        BY <3>1, <3>2, <3>3, <2>2, FilterStep
      <3> QED BY <3>4
    <2> QED BY <2>1, <2>2
  <1>5. Bad \subseteq Nat
    BY <1>2
  <1>6. Bad = {}
    BY <1>4, <1>5, SmallestOf
  <1> QED BY <1>1, <1>2, <1>6

-----------------------------------------------------------------------------
(* Types *)

Entry == [pipe : Pipelines, row : Row]

\* A list as a job reads it: of rows that a tick can move.
ActiveList(t) == \A i \in DOMAIN t : t[i].row.state \in Active

\* A worker that awaits a handler has an entry to await it for.
Sound(w) ==
    /\ ActiveList(todo[w])
    /\ busy[w] => todo[w] # <<>>
    /\ pass[w] = "idle" => todo[w] = <<>>

Base ==
    /\ TypeOK
    /\ OneEach(order)
    /\ \A w \in Workers : Sound(w)

LEMMA BumpedIs ==
    ASSUME TypeOK, OneEach(order), NEW p \in Pipelines
    PROVE  /\ Bumped(p) \in Seq(Pipelines)
           /\ \A q \in Pipelines : \E i \in DOMAIN Bumped(p) : Bumped(p)[i] = q
           /\ OneEach(Bumped(p))
  <1> DEFINE r == Among(order, Pipelines \ {p})
  <1>1. Filters(Pipelines, order, Pipelines \ {p}, r, Len(order))
    BY AmongIs DEF TypeOK
  <1>2. r \in Seq(Pipelines) /\ (\A k \in 1 .. Len(r) : r[k] # p)
    <2>1. r \in Seq(Pipelines \cap (Pipelines \ {p}))
      BY <1>1 DEF Filters
    <2>2. \A k \in 1 .. Len(r) : r[k] \in Pipelines \cap (Pipelines \ {p})
      BY <2>1
    <2>3. \A k \in 1 .. Len(r) : r[k] \in Pipelines /\ r[k] # p
      BY <2>2
    <2>4. Seq(Pipelines \cap (Pipelines \ {p})) \subseteq Seq(Pipelines)
      OBVIOUS
    <2> QED BY <2>1, <2>3, <2>4
  <1>3. /\ Bumped(p) = Append(r, p) /\ Len(Append(r, p)) = Len(r) + 1 /\ Len(r) \in Nat
        /\ Append(r, p)[Len(r) + 1] = p
        /\ \A k \in 1 .. Len(r) : Append(r, p)[k] = r[k]
        /\ Append(r, p) \in Seq(Pipelines)
    BY <1>2 DEF Bumped
  <1>4. DOMAIN r = 1 .. Len(r) /\ DOMAIN Bumped(p) = 1 .. (Len(r) + 1)
    BY <1>2, <1>3
  <1>5. ASSUME NEW q \in Pipelines PROVE \E i \in DOMAIN Bumped(p) : Bumped(p)[i] = q
    <2>1. CASE q = p
      <3>1. Len(r) + 1 \in 1 .. (Len(r) + 1)
        BY <1>3
      <3> QED BY <3>1, <2>1, <1>3, <1>4
    <2>2. CASE q # p
      <3>1. PICK j \in 1 .. Len(order) : order[j] = q
        BY DEF TypeOK
      <3>2. PICK k \in 1 .. Len(r) : r[k] = q
        BY <3>1, <2>2, <1>1 DEF Filters
      <3>3. k \in 1 .. (Len(r) + 1)
        BY <1>3
      <3> QED BY <3>2, <3>3, <1>3, <1>4
    <2> QED BY <2>1, <2>2
  <1>6. ASSUME NEW i \in 1 .. (Len(r) + 1), NEW j \in 1 .. (Len(r) + 1),
               Append(r, p)[i] = Append(r, p)[j]
        PROVE  i = j
    <2>1. OneEach(r)
      BY <1>1 DEF Filters
    <2>2. CASE i \in 1 .. Len(r) /\ j \in 1 .. Len(r)
      BY <2>1, <2>2, <1>6, <1>3, <1>4 DEF OneEach
    <2>3. CASE i = Len(r) + 1 /\ j \in 1 .. Len(r)
      BY <2>3, <1>6, <1>2, <1>3
    <2>4. CASE j = Len(r) + 1 /\ i \in 1 .. Len(r)
      BY <2>4, <1>6, <1>2, <1>3
    <2>5. \A k \in 1 .. (Len(r) + 1) : k = Len(r) + 1 \/ k \in 1 .. Len(r)
      BY <1>3
    <2> QED BY <2>2, <2>3, <2>4, <2>5
  <1> QED BY <1>3, <1>4, <1>5, <1>6 DEF OneEach

\* What a query returns: the rows as they are, none of them twice.
LEMMA ListingIs ==
    ASSUME TypeOK, OneEach(order), NEW states
    PROVE  LET t == Listing(states)
           IN  /\ t \in Seq(Entry)
               /\ \A i \in DOMAIN t : /\ t[i].row = rows[t[i].pipe]
                                      /\ t[i].row.state \in states
               /\ \A i, j \in DOMAIN t : t[i].pipe = t[j].pipe => i = j
  <1> DEFINE set == {p \in Pipelines : rows[p].state \in states}
             found == Among(order, set)
             n == IF Len(found) < Limit THEN Len(found) ELSE Limit
             t == [i \in 1 .. n |-> [pipe |-> found[i], row |-> rows[found[i]]]]
  <1>1. Filters(Pipelines, order, set, found, Len(order))
    BY AmongIs DEF TypeOK
  <1>2. found \in Seq(set) /\ OneEach(found)
    <2>1. Pipelines \cap set = set
      OBVIOUS
    <2> QED BY <2>1, <1>1 DEF Filters
  <1>3. n \in Nat /\ n <= Len(found) /\ Len(found) \in Nat
    BY <1>2, OrchestratorAssumption
  <1>4. \A i \in 1 .. n : i \in DOMAIN found /\ found[i] \in set
    BY <1>2, <1>3
  <1>5. \A i \in 1 .. n : t[i] \in Entry /\ t[i].pipe = found[i] /\ t[i].row = rows[found[i]]
    <2> SUFFICES ASSUME NEW i \in 1 .. n
                 PROVE  t[i] \in Entry /\ t[i].pipe = found[i] /\ t[i].row = rows[found[i]]
      OBVIOUS
    <2>1. found[i] \in Pipelines
      BY <1>4
    <2>2. rows[found[i]] \in Row
      BY <2>1 DEF TypeOK, Pipelines
    <2>3. t[i] = [pipe |-> found[i], row |-> rows[found[i]]]
      OBVIOUS
    <2> HIDE DEF t, found
    <2> QED BY <2>1, <2>2, <2>3 DEF Entry
  <1>6. t \in Seq(Entry) /\ DOMAIN t = 1 .. n
    <2>1. DOMAIN t = 1 .. n /\ t = [i \in 1 .. n |-> t[i]]
      OBVIOUS
    <2> HIDE DEF t, n
    <2>2. t \in [1 .. n -> Entry]
      BY <1>5, <2>1
    <2> QED BY <1>3, <2>1, <2>2
  <1>7. Listing(states) = t
    BY DEF Listing
  <1>8. \A i, j \in 1 .. n : t[i].pipe = t[j].pipe => i = j
    BY <1>2, <1>4, <1>5 DEF OneEach
  <1>9. \A i \in 1 .. n : t[i].row = rows[t[i].pipe] /\ t[i].row.state \in states
    BY <1>4, <1>5
  <1> HIDE DEF t, n
  <1> QED BY <1>6, <1>7, <1>8, <1>9

LEMMA LandingIs ==
    ASSUME NEW from, NEW to \in State, NEW revisions \in Nat
    PROVE  /\ Landing(from, to, revisions) \in State
           /\ RevisionsAfter(from, to, revisions) \in Nat
  BY DEF Landing, RevisionsAfter, State, OnPath

LEMMA WrittenIs ==
    ASSUME NEW p, NEW row \in Row, NEW to \in State
    PROVE  /\ Written(p, row, to) \in Row
           /\ Written(p, row, to).cluster = row.cluster
           /\ Written(p, row, to).state = Landing(row.state, to, row.revisions)
           /\ Written(p, row, to).revisions = RevisionsAfter(row.state, to, row.revisions)
  BY LandingIs DEF Written, Row

\* A row is written: the table keeps its length, and its order names everyone once.
LEMMA WritesIs ==
    ASSUME TypeOK, OneEach(order), NEW p \in Pipelines, NEW row \in Row, NEW to \in State,
           Writes(p, row, to)
    PROVE  /\ rows' \in Seq(Row) /\ Pipelines' = Pipelines
           /\ rows'[p] = Written(p, row, to)
           /\ \A q \in Pipelines : q # p => rows'[q] = rows[q]
           /\ order' \in Seq(Pipelines')
           /\ \A q \in Pipelines' : \E i \in DOMAIN order' : order'[i] = q
           /\ OneEach(order')
  <1>1. rows' = [rows EXCEPT ![p] = Written(p, row, to)] /\ order' = Bumped(p)
    BY DEF Writes
  <1>2. rows' \in Seq(Row) /\ Pipelines' = Pipelines
    BY <1>1, WrittenIs DEF TypeOK, Pipelines
  <1>3. /\ rows'[p] = Written(p, row, to)
        /\ \A q \in Pipelines : q # p => rows'[q] = rows[q]
    BY <1>1 DEF Pipelines
  <1>4. /\ order' \in Seq(Pipelines')
        /\ \A q \in Pipelines' : \E i \in DOMAIN order' : order'[i] = q
        /\ OneEach(order')
    BY <1>1, <1>2, BumpedIs
  <1> QED BY <1>2, <1>3, <1>4

LEMMA InFront ==
    ASSUME NEW S, NEW e \in S, NEW r \in Seq(S)
    PROVE  /\ <<e>> \o r \in Seq(S) /\ Len(<<e>> \o r) = 1 + Len(r)
           /\ (<<e>> \o r)[1] = e
           /\ \A i \in 2 .. Len(<<e>> \o r) : (<<e>> \o r)[i] = r[i - 1]
  <1> DEFINE one == <<e>>
  <1>1. one \in Seq(S) /\ Len(one) = 1 /\ one[1] = e
    OBVIOUS
  <1> HIDE DEF one
  <1> DEFINE t == one \o r
  <1>2. /\ t \in Seq(S) /\ Len(t) = Len(one) + Len(r) /\ Len(r) \in Nat
        /\ \A i \in 1 .. Len(one) : t[i] = one[i]
        /\ \A i \in 1 .. Len(r) : t[Len(one) + i] = r[i]
    <2>1. one \in Seq(S) /\ r \in Seq(S)
      BY <1>1
    <2>2. t \in Seq(S) /\ Len(one) \in Nat /\ Len(r) \in Nat
      BY <2>1
    <2>3. Len(t) = Len(one) + Len(r)
      BY <2>1
    <2>4. \A i \in 1 .. Len(one) : t[i] = one[i]
      BY <2>1
    <2>5. \A i \in 1 .. Len(r) : t[Len(one) + i] = r[i]
      BY <2>1
    <2> QED BY <2>2, <2>3, <2>4, <2>5
  <1> HIDE DEF t
  <1>3. 1 \in 1 .. Len(one) /\ t[1] = e /\ Len(t) = 1 + Len(r)
    BY <1>1, <1>2
  <1>4. ASSUME NEW i \in 2 .. Len(t) PROVE t[i] = r[i - 1]
    <2>1. i - 1 \in 1 .. Len(r) /\ Len(one) + (i - 1) = i
      BY <1>1, <1>2
    <2> QED BY <2>1, <1>2
  <1> QED BY <1>2, <1>3, <1>4 DEF t, one

\* What a step leaves of the list of its worker: the tail, or the same pipeline again
\* with what was written.
LEMMA ProceedsIs ==
    ASSUME TypeOK, NEW w \in Workers, todo[w] # <<>>, NEW row \in Row, Proceeds(w, row)
    PROVE  LET t == todo[w]
               u == todo'[w]
           IN  /\ todo' \in [Workers -> Seq(Entry)]
               /\ busy' \in [Workers -> BOOLEAN] /\ busy'[w] = FALSE
               /\ \A v \in Workers : v # w => todo'[v] = todo[v] /\ busy'[v] = busy[v]
               /\ pass' = pass
               /\ \/ /\ Len(u) = Len(t) - 1
                     /\ \A i \in 1 .. Len(u) : u[i] = t[i + 1]
                  \/ /\ row.state \in Active
                     /\ Len(u) = Len(t)
                     /\ u[1].pipe = t[1].pipe /\ u[1].row = row
                     /\ \A i \in 2 .. Len(u) : u[i] = t[i]
  <1> DEFINE t == todo[w]
             again == /\ pass[w] = "drive" /\ row.state \in Active
                      /\ row.state # Head(t).row.state
             e == [Head(t) EXCEPT !.row = row]
             u == (IF again THEN <<e>> ELSE <<>>) \o Tail(t)
  <1>1. todo' = [todo EXCEPT ![w] = u] /\ busy' = [busy EXCEPT ![w] = FALSE] /\ pass' = pass
    BY DEF Proceeds
  <1>2. t \in Seq(Entry) /\ t # <<>>
    BY DEF TypeOK, Entry
  <1> HIDE DEF t, again
  <1>3. /\ Head(t) \in Entry /\ Head(t) = t[1] /\ Tail(t) \in Seq(Entry)
        /\ Len(t) \in Nat /\ Len(t) >= 1 /\ Len(Tail(t)) = Len(t) - 1
        /\ \A i \in 1 .. (Len(t) - 1) : Tail(t)[i] = t[i + 1]
    BY <1>2
  <1>4. e \in Entry /\ e.pipe = t[1].pipe /\ e.row = row
    BY <1>3 DEF Entry
  <1> HIDE DEF e
  <1>5. CASE ~again
    <2>1. u = Tail(t)
      BY <1>3, <1>5
    <2>2. todo'[w] = Tail(t) /\ todo' \in [Workers -> Seq(Entry)]
      BY <1>1, <1>3, <2>1 DEF TypeOK, Entry
    <2> QED BY <1>1, <1>3, <2>2 DEF TypeOK, t
  <1>6. CASE again
    <2>1. u = <<e>> \o Tail(t)
      BY <1>6
    <2>2. /\ u \in Seq(Entry) /\ Len(u) = Len(t) /\ u[1] = e
          /\ \A i \in 2 .. Len(u) : u[i] = Tail(t)[i - 1]
      <3> DEFINE r == Tail(t)
                 v == <<e>> \o r
      <3>1. r \in Seq(Entry) /\ Len(r) = Len(t) - 1 /\ Len(t) \in Nat
        BY <1>3
      <3>2. u = v
        BY <2>1
      <3> HIDE DEF r, u
      <3>3. /\ v \in Seq(Entry) /\ Len(v) = 1 + Len(r) /\ v[1] = e
            /\ \A i \in 2 .. Len(v) : v[i] = r[i - 1]
        BY <3>1, <1>4, InFront
      <3> HIDE DEF v
      <3>4. Len(v) = Len(t)
        BY <3>1, <3>3
      <3> QED BY <3>2, <3>3, <3>4 DEF r
    <2> HIDE DEF u
    <2>3. \A i \in 2 .. Len(u) : u[i] = t[i]
      <3> SUFFICES ASSUME NEW i \in 2 .. Len(u) PROVE u[i] = t[i]
        OBVIOUS
      <3>1. i - 1 \in 1 .. (Len(t) - 1) /\ (i - 1) + 1 = i
        BY <1>3, <2>2
      <3> QED BY <3>1, <1>3, <2>2
    <2>4. todo'[w] = u /\ todo' \in [Workers -> Seq(Entry)]
      BY <1>1, <2>2 DEF TypeOK, Entry
    <2>5. row.state \in Active
      BY <1>6 DEF again
    <2> QED BY <1>1, <1>4, <2>2, <2>3, <2>4, <2>5 DEF TypeOK, t
  <1> QED BY <1>5, <1>6

\* A new list is begun by a worker that has none.
LEMMA BeginsBase ==
    ASSUME Base, NEW w \in Workers, todo[w] = <<>>, NEW list \in Seq(Entry),
           ActiveList(list), NEW kind \in {"idle", "verdict", "tick", "drive"},
           kind = "idle" => list = <<>>, Begins(w, kind, list)
    PROVE  Base'
  <1>1. /\ pass' = [pass EXCEPT ![w] = kind] /\ todo' = [todo EXCEPT ![w] = list]
        /\ UNCHANGED <<rows, order, busy>>
    BY DEF Begins
  <1>2. Pipelines' = Pipelines
    BY <1>1 DEF Pipelines
  <1>3. TypeOK'
    BY <1>1, <1>2 DEF Base, TypeOK, Entry
  <1>4. OneEach(order)'
    BY <1>1 DEF Base, OneEach
  <1>5. ASSUME NEW v \in Workers PROVE Sound(v)'
    <2>1. CASE v = w
      <3>1. todo'[v] = list /\ pass'[v] = kind /\ ~busy[v] /\ busy' = busy
        BY <1>1, <2>1 DEF Base, TypeOK, Sound
      <3> QED BY <3>1 DEF ActiveList, Sound
    <2>2. CASE v # w
      <3>1. todo'[v] = todo[v] /\ pass'[v] = pass[v] /\ busy'[v] = busy[v]
        BY <1>1, <2>2 DEF Base, TypeOK
      <3> QED BY <3>1 DEF Base, ActiveList, Sound
    <2> QED BY <2>1, <2>2
  <1> QED BY <1>3, <1>4, <1>5 DEF Base

LEMMA StatesAre ==
    /\ "SYNTHESIZED" \in Active /\ "VERDICT_PENDING" \in Active
    /\ Active \subseteq State /\ "FAILED" \in State
  BY DEF Active, State, OnPath, Terminal, Parked

\* The list of the verdict job, and of the tick.
LEMMA ListsAre ==
    ASSUME Base
    PROVE  /\ LET t == Listing({"SYNTHESIZED"}) \o Listing({"VERDICT_PENDING"})
              IN  /\ t \in Seq(Entry) /\ ActiveList(t)
                  /\ \A i \in DOMAIN t : t[i].row = rows[t[i].pipe]
                  /\ \A i, j \in DOMAIN t : t[i].pipe = t[j].pipe => i = j
           /\ LET t == Listing(Active)
              IN  /\ t \in Seq(Entry) /\ ActiveList(t)
                  /\ \A i \in DOMAIN t : t[i].row = rows[t[i].pipe]
                  /\ \A i, j \in DOMAIN t : t[i].pipe = t[j].pipe => i = j
  <1> DEFINE a == Listing({"SYNTHESIZED"})
             b == Listing({"VERDICT_PENDING"})
             t == a \o b
  <1>1. /\ a \in Seq(Entry)
        /\ \A i \in DOMAIN a : a[i].row = rows[a[i].pipe] /\ a[i].row.state = "SYNTHESIZED"
        /\ \A i, j \in DOMAIN a : a[i].pipe = a[j].pipe => i = j
    <2>1. \A x : x \in {"SYNTHESIZED"} <=> x = "SYNTHESIZED"
      OBVIOUS
    <2> HIDE DEF a
    <2> QED BY <2>1, ListingIs DEF Base, a
  <1>2. /\ b \in Seq(Entry)
        /\ \A i \in DOMAIN b : b[i].row = rows[b[i].pipe] /\ b[i].row.state = "VERDICT_PENDING"
        /\ \A i, j \in DOMAIN b : b[i].pipe = b[j].pipe => i = j
    <2>1. \A x : x \in {"VERDICT_PENDING"} <=> x = "VERDICT_PENDING"
      OBVIOUS
    <2> HIDE DEF b
    <2> QED BY <2>1, ListingIs DEF Base, b
  <1> HIDE DEF a, b
  <1>3. /\ t \in Seq(Entry) /\ Len(t) = Len(a) + Len(b)
        /\ Len(a) \in Nat /\ Len(b) \in Nat
        /\ DOMAIN t = 1 .. (Len(a) + Len(b)) /\ DOMAIN a = 1 .. Len(a) /\ DOMAIN b = 1 .. Len(b)
        /\ \A i \in 1 .. Len(a) : t[i] = a[i]
        /\ \A i \in 1 .. Len(b) : t[Len(a) + i] = b[i]
    BY <1>1, <1>2
  <1> HIDE DEF t
  <1>4. \A i \in DOMAIN t : \/ i \in DOMAIN a /\ t[i] = a[i]
                            \/ i - Len(a) \in DOMAIN b /\ t[i] = b[i - Len(a)]
    <2> SUFFICES ASSUME NEW i \in DOMAIN t, i \notin DOMAIN a
                 PROVE  i - Len(a) \in DOMAIN b /\ t[i] = b[i - Len(a)]
      BY <1>3
    <2>1. i - Len(a) \in 1 .. Len(b) /\ Len(a) + (i - Len(a)) = i
      BY <1>3
    <2> QED BY <2>1, <1>3
  <1>5. \A i \in DOMAIN t : t[i].row = rows[t[i].pipe] /\ t[i].row.state \in Active
    BY <1>1, <1>2, <1>4, StatesAre
  <1>6. ASSUME NEW i \in DOMAIN t, NEW j \in DOMAIN t, t[i].pipe = t[j].pipe
        PROVE  i = j
    <2>1. t[i].row = t[j].row
      BY <1>5, <1>6
    <2>2. CASE i \in DOMAIN a /\ t[i] = a[i]
      <3>1. j \in DOMAIN a /\ t[j] = a[j]
        BY <2>1, <2>2, <1>1, <1>2, <1>4
      <3> QED BY <3>1, <2>2, <1>1, <1>6
    <2>3. CASE i - Len(a) \in DOMAIN b /\ t[i] = b[i - Len(a)]
      <3>1. j - Len(a) \in DOMAIN b /\ t[j] = b[j - Len(a)]
        BY <2>1, <2>3, <1>1, <1>2, <1>4
      <3>2. i - Len(a) = j - Len(a)
        BY <3>1, <2>3, <1>2, <1>6
      <3>3. i \in Int /\ j \in Int
        BY <1>3
      <3> QED BY <3>2, <3>3, <1>3
    <2> QED BY <1>4, <2>2, <2>3
  <1>7. /\ t \in Seq(Entry) /\ ActiveList(t)
        /\ \A i \in DOMAIN t : t[i].row = rows[t[i].pipe]
        /\ \A i, j \in DOMAIN t : t[i].pipe = t[j].pipe => i = j
    BY <1>3, <1>5, <1>6 DEF ActiveList
  <1>8. LET l == Listing(Active)
        IN  /\ l \in Seq(Entry) /\ ActiveList(l)
            /\ \A i \in DOMAIN l : l[i].row = rows[l[i].pipe]
            /\ \A i, j \in DOMAIN l : l[i].pipe = l[j].pipe => i = j
    BY ListingIs DEF Base, ActiveList
  <1> QED BY <1>7, <1>8 DEF t, a, b

-----------------------------------------------------------------------------
(* The base of the other invariants is kept *)

LEMMA HeadIs ==
    ASSUME Base, NEW w \in Workers, todo[w] # <<>>
    PROVE  /\ todo[w] \in Seq(Entry) /\ 1 \in DOMAIN todo[w] /\ Head(todo[w]) = todo[w][1]
           /\ Head(todo[w]).pipe \in Pipelines /\ Head(todo[w]).row \in Row
           /\ Head(todo[w]).row.state \in Active
  <1>1. todo[w] \in Seq(Entry) /\ ActiveList(todo[w])
    BY DEF Base, TypeOK, Entry, Sound
  <1>2. 1 \in DOMAIN todo[w] /\ Head(todo[w]) = todo[w][1] /\ Head(todo[w]) \in Entry
    BY <1>1
  <1> QED BY <1>1, <1>2 DEF Entry, ActiveList

\* A row is written and nothing else happens.
LEMMA RewritesBase ==
    ASSUME Base, NEW p \in Pipelines, NEW row \in Row, NEW to \in State,
           Writes(p, row, to), UNCHANGED <<pass, todo, busy>>
    PROVE  Base'
  <1>1. /\ rows' \in Seq(Row) /\ Pipelines' = Pipelines
        /\ order' \in Seq(Pipelines')
        /\ \A q \in Pipelines' : \E i \in DOMAIN order' : order'[i] = q
        /\ OneEach(order')
    BY WritesIs DEF Base
  <1>2. TypeOK'
    BY <1>1 DEF Base, TypeOK
  <1>3. \A v \in Workers : Sound(v)'
    BY DEF Base, Sound, ActiveList
  <1> QED BY <1>1, <1>2, <1>3 DEF Base

\* A row is written by a handler, and its worker goes on.
LEMMA HandlesBase ==
    ASSUME Base, NEW w \in Workers, todo[w] # <<>>, NEW p \in Pipelines,
           NEW old \in Row, NEW to \in State, Writes(p, old, to),
           Proceeds(w, Written(p, old, to))
    PROVE  Base'
  <1> DEFINE new == Written(p, old, to)
  <1>1. /\ rows' \in Seq(Row) /\ Pipelines' = Pipelines
        /\ order' \in Seq(Pipelines')
        /\ \A q \in Pipelines' : \E i \in DOMAIN order' : order'[i] = q
        /\ OneEach(order')
    BY WritesIs DEF Base
  <1>2. new \in Row
    BY WrittenIs
  <1> HIDE DEF new
  <1>3. /\ todo' \in [Workers -> Seq(Entry)]
        /\ busy' \in [Workers -> BOOLEAN] /\ busy'[w] = FALSE
        /\ \A v \in Workers : v # w => todo'[v] = todo[v] /\ busy'[v] = busy[v]
        /\ pass' = pass
        /\ \/ /\ Len(todo'[w]) = Len(todo[w]) - 1
              /\ \A i \in 1 .. Len(todo'[w]) : todo'[w][i] = todo[w][i + 1]
           \/ /\ new.state \in Active
              /\ Len(todo'[w]) = Len(todo[w])
              /\ todo'[w][1].pipe = todo[w][1].pipe /\ todo'[w][1].row = new
              /\ \A i \in 2 .. Len(todo'[w]) : todo'[w][i] = todo[w][i]
    BY <1>2, ProceedsIs DEF Base, new
  <1>4. TypeOK'
    BY <1>1, <1>3 DEF Base, TypeOK, Entry
  <1>5. ASSUME NEW v \in Workers PROVE Sound(v)'
    <2>1. CASE v # w
      BY <2>1, <1>3 DEF Base, Sound, ActiveList
    <2>2. CASE v = w
      <3>1. pass'[w] # "idle" /\ ~busy'[w]
        BY <1>3 DEF Base, Sound
      <3>2. ActiveList(todo'[w])
        <4>1. /\ todo[w] \in Seq(Entry) /\ todo'[w] \in Seq(Entry) /\ ActiveList(todo[w])
              /\ DOMAIN todo[w] = 1 .. Len(todo[w]) /\ Len(todo[w]) \in Nat
              /\ DOMAIN todo'[w] = 1 .. Len(todo'[w]) /\ Len(todo'[w]) \in Nat
          <5>1. ActiveList(todo[w])
            BY DEF Base, Sound
          <5>2. todo[w] \in Seq(Entry)
            BY DEF Base, TypeOK, Entry
          <5>3. todo'[w] \in Seq(Entry)
            BY <1>3
          <5> QED BY <5>1, <5>2, <5>3
        <4>2. ASSUME NEW i \in 1 .. Len(todo'[w]) PROVE todo'[w][i].row.state \in Active
          <5>1. CASE /\ Len(todo'[w]) = Len(todo[w]) - 1
                     /\ \A k \in 1 .. Len(todo'[w]) : todo'[w][k] = todo[w][k + 1]
            <6>1. i + 1 \in DOMAIN todo[w]
              BY <4>1, <5>1
            <6> QED BY <6>1, <4>1, <5>1 DEF ActiveList
          <5>2. CASE /\ new.state \in Active
                     /\ Len(todo'[w]) = Len(todo[w])
                     /\ todo'[w][1].pipe = todo[w][1].pipe /\ todo'[w][1].row = new
                     /\ \A k \in 2 .. Len(todo'[w]) : todo'[w][k] = todo[w][k]
            <6>1. i = 1 \/ i \in 2 .. Len(todo'[w])
              BY <4>1
            <6>2. i \in DOMAIN todo[w]
              BY <4>1, <5>2
            <6> QED BY <6>1, <6>2, <4>1, <5>2 DEF ActiveList
          <5> QED BY <1>3, <5>1, <5>2
        <4> QED BY <4>1, <4>2 DEF ActiveList
      <3> QED BY <2>2, <3>1, <3>2 DEF Sound, ActiveList
    <2> QED BY <2>1, <2>2
  <1> QED BY <1>1, <1>4, <1>5 DEF Base

LEMMA AbortsBase ==
    ASSUME Base, NEW w \in Workers, Aborts(w), UNCHANGED <<rows, order>>
    PROVE  Base'
  <1>1. /\ pass' \in [Workers -> {"idle", "verdict", "tick", "drive"}]
        /\ todo' \in [Workers -> Seq(Entry)]
        /\ busy' \in [Workers -> BOOLEAN]
        /\ Pipelines' = Pipelines
    <2>1. <<>> \in Seq(Entry) /\ todo \in [Workers -> Seq(Entry)]
      <3>1. <<>> \in Seq(Entry)
        OBVIOUS
      <3>2. todo \in [Workers -> Seq(Entry)]
        BY DEF Base, TypeOK, Entry
      <3> QED BY <3>1, <3>2
    <2>2. todo' = [todo EXCEPT ![w] = <<>>]
      BY DEF Aborts
    <2>3. todo' \in [Workers -> Seq(Entry)]
      BY <2>1, <2>2
    <2>4. /\ pass' \in [Workers -> {"idle", "verdict", "tick", "drive"}]
          /\ busy' \in [Workers -> BOOLEAN]
      BY DEF Aborts, Base, TypeOK
    <2> QED BY <2>3, <2>4 DEF Pipelines
  <1>2. TypeOK'
    BY <1>1 DEF Base, TypeOK, Entry
  <1>3. ASSUME NEW v \in Workers PROVE Sound(v)'
    <2>1. CASE v = w
      <3>1. todo'[w] = <<>> /\ ~busy'[w]
        BY DEF Aborts, Base, TypeOK
      <3> QED BY <2>1, <3>1 DEF Sound, ActiveList
    <2>2. CASE v # w
      <3>1. todo'[v] = todo[v] /\ pass'[v] = pass[v] /\ busy'[v] = busy[v]
        BY <2>2 DEF Aborts, Base, TypeOK
      <3> QED BY <3>1 DEF Base, Sound, ActiveList
    <2> QED BY <2>1, <2>2
  <1> QED BY <1>2, <1>3 DEF Base, OneEach

LEMMA StepsBase ==
    ASSUME Base, NEW w \in Workers, Steps(w)
    PROVE  Base'
  <1>1. Head(todo[w]).pipe \in Pipelines
    BY HeadIs DEF Steps
  <1>2. /\ order' \in Seq(Pipelines)
        /\ \A q \in Pipelines : \E i \in DOMAIN order' : order'[i] = q
        /\ OneEach(order')
    BY <1>1, BumpedIs DEF Steps, Base
  <1>3. Pipelines' = Pipelines
    BY DEF Steps, Pipelines
  <1>4. TypeOK'
    BY <1>2, <1>3 DEF Steps, Base, TypeOK
  <1>5. ASSUME NEW v \in Workers PROVE Sound(v)'
    BY DEF Steps, Base, TypeOK, Sound, ActiveList
  <1> QED BY <1>2, <1>4, <1>5 DEF Base

LEMMA SynthesisesBase ==
    ASSUME Base, NEW c \in Cluster, Synthesises(c)
    PROVE  /\ Base' /\ Pipelines' = Pipelines \cup {Len(rows) + 1}
           /\ Len(rows) \in Nat /\ Pipelines = 1 .. Len(rows)
           /\ \A p \in Pipelines : rows'[p] = rows[p]
           /\ rows'[Len(rows) + 1] = [cluster |-> c, state |-> "SYNTHESIZED", revisions |-> 0]
  <1> DEFINE new == [cluster |-> c, state |-> "SYNTHESIZED", revisions |-> 0]
             n == Len(rows) + 1
  <1>1. new \in Row
    BY DEF Row, State, OnPath
  <1>2. rows \in Seq(Row) /\ rows' = Append(rows, new) /\ order' = Append(order, n)
    BY DEF Base, TypeOK, Synthesises
  <1> HIDE DEF new
  <1>3. /\ rows' \in Seq(Row) /\ Len(rows) \in Nat /\ Pipelines = 1 .. Len(rows)
        /\ Pipelines' = 1 .. n
        /\ \A p \in Pipelines : rows'[p] = rows[p]
        /\ rows'[n] = new
    BY <1>1, <1>2 DEF Pipelines
  <1>4. Pipelines' = Pipelines \cup {n} /\ n \notin Pipelines
    BY <1>3
  <1> HIDE DEF n
  <1>5. order \in Seq(Pipelines') /\ Seq(Pipelines) \subseteq Seq(Pipelines')
    BY <1>4 DEF Base, TypeOK
  <1>6. /\ order' \in Seq(Pipelines') /\ Len(order') = Len(order) + 1 /\ Len(order) \in Nat
        /\ DOMAIN order' = 1 .. (Len(order) + 1) /\ DOMAIN order = 1 .. Len(order)
        /\ order'[Len(order) + 1] = n
        /\ \A i \in 1 .. Len(order) : order'[i] = order[i]
    BY <1>2, <1>4, <1>5
  <1>7. ASSUME NEW q \in Pipelines' PROVE \E i \in DOMAIN order' : order'[i] = q
    <2>1. CASE q = n
      <3>1. Len(order) + 1 \in DOMAIN order'
        BY <1>6
      <3> QED BY <3>1, <2>1, <1>6
    <2>2. CASE q \in Pipelines
      <3>1. PICK i \in DOMAIN order : order[i] = q
        BY <2>2 DEF Base, TypeOK
      <3>2. i \in DOMAIN order'
        BY <1>6
      <3> QED BY <3>1, <3>2, <1>6
    <2> QED BY <2>1, <2>2, <1>4
  <1>8. OneEach(order')
    <2> SUFFICES ASSUME NEW i \in DOMAIN order', NEW j \in DOMAIN order',
                        order'[i] = order'[j]
                 PROVE  i = j
      BY DEF OneEach
    <2>1. \A k \in DOMAIN order' : k = Len(order) + 1 \/ k \in DOMAIN order
      BY <1>6
    <2>2. \A k \in DOMAIN order : order'[k] = order[k] /\ order[k] # n
      BY <1>4, <1>6 DEF Base, TypeOK
    <2>3. CASE i \in DOMAIN order /\ j \in DOMAIN order
      BY <2>2, <2>3 DEF Base, OneEach
    <2>4. CASE i = Len(order) + 1 \/ j = Len(order) + 1
      BY <2>1, <2>2, <2>4, <1>6
    <2> QED BY <2>1, <2>3, <2>4
  <1>9. todo' \in [Workers -> Seq([pipe : Pipelines', row : Row])]
    <2>1. [pipe : Pipelines, row : Row] \subseteq [pipe : Pipelines', row : Row]
      BY <1>4
    <2>2. \A v \in Workers : todo[v] \in Seq([pipe : Pipelines', row : Row])
      <3> DEFINE A == [pipe : Pipelines, row : Row]
                 B == [pipe : Pipelines', row : Row]
      <3>1. \A v \in Workers : todo[v] \in Seq(A)
        BY DEF Base, TypeOK
      <3> HIDE DEF A, B
      <3>2. A \subseteq B => Seq(A) \subseteq Seq(B)
        OBVIOUS
      <3> QED BY <2>1, <3>1, <3>2 DEF A, B
    <2>3. todo' = todo /\ todo = [v \in Workers |-> todo[v]]
      BY DEF Synthesises, Base, TypeOK
    <2> QED BY <2>2, <2>3
  <1>10. TypeOK'
    BY <1>3, <1>6, <1>7, <1>9 DEF Synthesises, Base, TypeOK
  <1>11. \A v \in Workers : Sound(v)'
    BY DEF Synthesises, Base, Sound, ActiveList
  <1> QED BY <1>3, <1>4, <1>8, <1>10, <1>11 DEF Base, new, n

\* A command needs a row to be there, and writes it.
LEMMA BaseStep ==
    ASSUME Base, [Next]_vars
    PROVE  Base'
  <1>1. CASE UNCHANGED vars
    BY <1>1 DEF vars, Base, TypeOK, Pipelines, OneEach, Sound, ActiveList
  <1>2. ASSUME NEW w \in Workers, Works(w) PROVE Base'
    <2>1. CASE StartsVerdict(w)
      <3>1. todo[w] = <<>>
        BY <2>1 DEF StartsVerdict, Base, Sound
      <3> DEFINE list == Listing({"SYNTHESIZED"}) \o Listing({"VERDICT_PENDING"})
      <3>2. list \in Seq(Entry) /\ ActiveList(list) /\ Begins(w, "verdict", list)
        BY <2>1, ListsAre DEF StartsVerdict
      <3> HIDE DEF list
      <3> QED BY <3>1, <3>2, BeginsBase
    <2>2. CASE StartsTick(w)
      <3>1. todo[w] = <<>>
        BY <2>2 DEF StartsTick, Base, Sound
      <3>2. /\ Listing(Active) \in Seq(Entry) /\ ActiveList(Listing(Active))
            /\ Begins(w, "tick", Listing(Active))
        BY <2>2, ListsAre DEF StartsTick
      <3> QED BY <3>1, <3>2, BeginsBase
    <2>3. CASE StartsDrive(w)
      <3>1. todo[w] = <<>>
        BY <2>3 DEF StartsDrive
      <3>2. /\ Listing(Active) \in Seq(Entry) /\ ActiveList(Listing(Active))
            /\ Begins(w, "drive", Listing(Active))
        BY <2>3, ListsAre DEF StartsDrive
      <3> QED BY <3>1, <3>2, BeginsBase
    <2>4. CASE Ends(w)
      <3>1. todo[w] = <<>> /\ Begins(w, "idle", <<>>) /\ <<>> \in Seq(Entry)
        BY <2>4 DEF Ends
      <3>2. ActiveList(<<>>)
        BY DEF ActiveList
      <3> QED BY <3>1, <3>2, BeginsBase
    <2>5. CASE Steps(w)
      BY <2>5, StepsBase
    <2>6. ASSUME NEW to \in State, Finishes(w, to) PROVE Base'
      <3>1. todo[w] # <<>>
        BY <2>6 DEF Finishes, Base, Sound
      <3> QED BY <3>1, <2>6, HeadIs, HandlesBase DEF Finishes
    <2>7. ASSUME NEW to \in State, Raises(w, to) PROVE Base'
      BY <2>7, AbortsBase DEF Raises
    <2>8. CASE Fails(w)
      <3>1. todo[w] # <<>>
        BY <2>8 DEF Fails, Base, Sound
      <3>2. Head(todo[w]).pipe \in Pipelines /\ rows[Head(todo[w]).pipe] \in Row
        <4>1. Head(todo[w]).pipe \in Pipelines
          BY <3>1, HeadIs
        <4>2. \A p \in Pipelines : rows[p] \in Row
          BY DEF Base, TypeOK, Pipelines
        <4> QED BY <4>1, <4>2
      <3> QED BY <3>1, <3>2, <2>8, StatesAre, HandlesBase DEF Fails
    <2>9. CASE FailsTooLate(w)
      BY <2>9, AbortsBase DEF FailsTooLate
    <2> QED BY <1>2, <2>1, <2>2, <2>3, <2>4, <2>5, <2>6, <2>7, <2>8, <2>9 DEF Works
  <1>3. ASSUME NEW c \in Cluster, Synthesises(c) PROVE Base'
    BY <1>3, SynthesisesBase
  <1>4. ASSUME NEW p \in Pipelines PROVE rows[p] \in Row
    BY DEF Base, TypeOK, Pipelines
  <1>5. ASSUME NEW p \in Pipelines, Sweeps(p) PROVE Base'
    <2>1. "VERDICT_PENDING" \in State
      BY StatesAre
    <2> QED BY <1>4, <1>5, <2>1, RewritesBase DEF Sweeps
  <1>6. ASSUME NEW p \in Pipelines, Commands(p) PROVE Base'
    <2>1. PICK to \in State : Writes(p, rows[p], to)
      BY <1>6 DEF Commands
    <2>2. UNCHANGED <<pass, todo, busy>>
      BY <1>6 DEF Commands
    <2> QED BY <1>4, <2>1, <2>2, RewritesBase
  <1> QED BY <1>1, <1>2, <1>3, <1>5, <1>6 DEF Next

LEMMA BaseInit == Init => Base
  <1> SUFFICES ASSUME Init PROVE Base
    OBVIOUS
  <1>1. rows = <<>> /\ order = <<>> /\ Pipelines = {}
    BY DEF Init, Pipelines
  <1>2. rows \in Seq(Row) /\ order \in Seq(Pipelines)
    BY <1>1
  <1>3. TypeOK
    BY <1>1, <1>2 DEF Init, TypeOK
  <1>4. OneEach(order)
    BY <1>1 DEF OneEach
  <1>5. \A w \in Workers : Sound(w)
    BY DEF Init, Sound, ActiveList
  <1> QED BY <1>3, <1>4, <1>5 DEF Base

\* The table, its order by updated_at and the lists of the jobs are well formed, however
\* many jobs run and whatever operators do in between.
THEOREM TypeCorrect == Spec => []TypeOK
  <1>1. Init => Base
    BY BaseInit
  <1>2. Base /\ [Next]_vars => Base'
    BY BaseStep
  <1>3. Base => TypeOK
    BY DEF Base
  <1> QED BY <1>1, <1>2, <1>3, PTL DEF Spec

-----------------------------------------------------------------------------
(* The budget *)

\* A row with more revisions than its limit waits for a person, or has failed.
InBudget(row) ==
    row.state \in {"NEEDS_HUMAN", "FAILED"} \/ row.revisions <= MaxRevisions

Budget ==
    /\ \A p \in Pipelines : InBudget(rows[p])
    /\ \A w \in Workers : \A i \in DOMAIN todo[w] : InBudget(todo[w][i].row)

\* What is written over a row within its budget is within it.
LEMMA WrittenInBudget ==
    ASSUME NEW p, NEW row \in Row, NEW to \in State, InBudget(row),
           row.state \notin {"NEEDS_HUMAN", "FAILED"} \/ to = "FAILED"
    PROVE  InBudget(Written(p, row, to))
  <1> DEFINE n == Written(p, row, to)
  <1>1. /\ n.state = Landing(row.state, to, row.revisions)
        /\ n.revisions = RevisionsAfter(row.state, to, row.revisions)
        /\ row.revisions \in Nat
    BY WrittenIs DEF Row
  <1> SUFFICES InBudget(n)
    OBVIOUS
  <1> HIDE DEF n
  <1>2. CASE to = "FAILED"
    <2>1. <<row.state, "FAILED">> \notin BackwardEdges
      BY DEF BackwardEdges
    <2> QED BY <1>1, <1>2, <2>1 DEF Landing, InBudget
  <1>3. CASE row.state \notin {"NEEDS_HUMAN", "FAILED"} /\ row.revisions <= MaxRevisions
    <2>1. CASE <<row.state, to>> \in BackwardEdges
      <3>1. n.state = "NEEDS_HUMAN" \/ row.revisions + 1 <= MaxRevisions
        BY <1>1, <2>1, MaxRevisionsAssumption DEF Landing
      <3> QED BY <3>1, <1>1, <2>1 DEF RevisionsAfter, InBudget
    <2>2. CASE <<row.state, to>> \notin BackwardEdges
      BY <1>1, <1>3, <2>2 DEF RevisionsAfter, InBudget
    <2> QED BY <2>1, <2>2
  <1> QED BY <1>2, <1>3 DEF InBudget

\* Lists read off the table are within the budget.
LEMMA BeginsInBudget ==
    ASSUME Base, Budget, NEW w \in Workers, NEW list \in Seq(Entry),
           \A i \in DOMAIN list : list[i].row = rows[list[i].pipe],
           NEW kind, Begins(w, kind, list)
    PROVE  Budget'
  <1>1. \A i \in DOMAIN list : InBudget(list[i].row)
    <2>1. \A i \in DOMAIN list : list[i] \in Entry
      OBVIOUS
    <2>2. \A i \in DOMAIN list : list[i].pipe \in Pipelines
      BY <2>1 DEF Entry
    <2> QED BY <2>2 DEF Budget
  <1>2. todo' = [todo EXCEPT ![w] = list] /\ rows' = rows
    BY DEF Begins
  <1>3. \A v \in Workers : todo'[v] = IF v = w THEN list ELSE todo[v]
    BY <1>2 DEF Base, TypeOK
  <1>4. ASSUME NEW v \in Workers, NEW i \in DOMAIN todo'[v]
        PROVE  InBudget(todo'[v][i].row)
    BY <1>1, <1>3 DEF Budget
  <1> QED BY <1>2, <1>4 DEF Budget, Pipelines, InBudget

LEMMA WritesInBudget ==
    ASSUME Base, Budget, NEW p \in Pipelines, NEW row \in Row, NEW to \in State,
           Writes(p, row, to), InBudget(Written(p, row, to))
    PROVE  \A q \in Pipelines' : InBudget(rows'[q])
  <1>1. /\ Pipelines' = Pipelines /\ rows'[p] = Written(p, row, to)
        /\ \A q \in Pipelines : q # p => rows'[q] = rows[q]
    BY WritesIs DEF Base
  <1> QED BY <1>1 DEF Budget

LEMMA HandlesInBudget ==
    ASSUME Base, Budget, NEW w \in Workers, todo[w] # <<>>, NEW p \in Pipelines,
           NEW old \in Row, NEW to \in State, Writes(p, old, to),
           InBudget(Written(p, old, to)), Proceeds(w, Written(p, old, to))
    PROVE  Budget'
  <1> DEFINE new == Written(p, old, to)
  <1>1. new \in Row /\ InBudget(new)
    BY WrittenIs
  <1> HIDE DEF new
  <1>2. \A q \in Pipelines' : InBudget(rows'[q])
    BY WritesInBudget
  <1>3. /\ todo' \in [Workers -> Seq(Entry)]
        /\ \A v \in Workers : v # w => todo'[v] = todo[v]
        /\ \/ /\ Len(todo'[w]) = Len(todo[w]) - 1
              /\ \A i \in 1 .. Len(todo'[w]) : todo'[w][i] = todo[w][i + 1]
           \/ /\ Len(todo'[w]) = Len(todo[w])
              /\ todo'[w][1].row = new
              /\ \A i \in 2 .. Len(todo'[w]) : todo'[w][i] = todo[w][i]
    BY <1>1, ProceedsIs DEF Base, new
  <1>4. /\ DOMAIN todo[w] = 1 .. Len(todo[w]) /\ Len(todo[w]) \in Nat
        /\ DOMAIN todo'[w] = 1 .. Len(todo'[w]) /\ Len(todo'[w]) \in Nat
    <2>1. todo[w] \in Seq(Entry)
      BY DEF Base, TypeOK, Entry
    <2>2. todo'[w] \in Seq(Entry)
      BY <1>3
    <2> QED BY <2>1, <2>2
  <1>5. ASSUME NEW i \in 1 .. Len(todo'[w]) PROVE InBudget(todo'[w][i].row)
    <2>1. CASE /\ Len(todo'[w]) = Len(todo[w]) - 1
               /\ \A k \in 1 .. Len(todo'[w]) : todo'[w][k] = todo[w][k + 1]
      <3>1. i + 1 \in DOMAIN todo[w]
        BY <1>4, <2>1
      <3> QED BY <3>1, <2>1 DEF Budget
    <2>2. CASE /\ Len(todo'[w]) = Len(todo[w])
               /\ todo'[w][1].row = new
               /\ \A k \in 2 .. Len(todo'[w]) : todo'[w][k] = todo[w][k]
      <3>1. i = 1 \/ i \in 2 .. Len(todo'[w])
        BY <1>4
      <3>2. i \in DOMAIN todo[w]
        BY <1>4, <2>2
      <3> QED BY <3>1, <3>2, <1>1, <2>2 DEF Budget
    <2> QED BY <1>3, <2>1, <2>2
  <1>6. ASSUME NEW v \in Workers, NEW i \in DOMAIN todo'[v]
        PROVE  InBudget(todo'[v][i].row)
    BY <1>3, <1>4, <1>5 DEF Budget
  <1> QED BY <1>2, <1>6 DEF Budget, InBudget

LEMMA AbortsInBudget ==
    ASSUME Base, Budget, NEW w \in Workers, Aborts(w), UNCHANGED <<rows, order>>
    PROVE  Budget'
  <1>1. \A v \in Workers : todo'[v] = IF v = w THEN <<>> ELSE todo[v]
    BY DEF Aborts, Base, TypeOK
  <1>2. ASSUME NEW v \in Workers, NEW i \in DOMAIN todo'[v]
        PROVE  InBudget(todo'[v][i].row)
    BY <1>1 DEF Budget
  <1> QED BY <1>2 DEF Budget, InBudget, Pipelines

LEMMA BudgetStep ==
    ASSUME Operators = "never", Base, Budget, [Next]_vars
    PROVE  Budget'
  <1>1. CASE UNCHANGED vars
    BY <1>1 DEF vars, Budget, Pipelines, InBudget
  <1>2. ASSUME NEW p \in Pipelines PROVE rows[p] \in Row /\ InBudget(rows[p])
    BY DEF Base, TypeOK, Pipelines, Budget
  <1>3. ASSUME NEW w \in Workers, Works(w) PROVE Budget'
    <2>1. CASE StartsVerdict(w)
      <3> DEFINE list == Listing({"SYNTHESIZED"}) \o Listing({"VERDICT_PENDING"})
      <3>1. /\ list \in Seq(Entry) /\ Begins(w, "verdict", list)
            /\ \A i \in DOMAIN list : list[i].row = rows[list[i].pipe]
        BY <2>1, ListsAre DEF StartsVerdict
      <3> HIDE DEF list
      <3> QED BY <3>1, BeginsInBudget
    <2>2. ASSUME NEW kind, Begins(w, kind, Listing(Active)) PROVE Budget'
      <3>1. /\ Listing(Active) \in Seq(Entry)
            /\ \A i \in DOMAIN Listing(Active) :
                  Listing(Active)[i].row = rows[Listing(Active)[i].pipe]
        BY ListsAre
      <3> QED BY <2>2, <3>1, BeginsInBudget
    <2>3. CASE StartsTick(w) \/ StartsDrive(w)
      BY <2>2, <2>3 DEF StartsTick, StartsDrive
    <2>4. CASE Ends(w)
      <3>1. Begins(w, "idle", <<>>) /\ <<>> \in Seq(Entry) /\ DOMAIN <<>> = {}
        BY <2>4 DEF Ends
      <3>2. \A i \in DOMAIN <<>> : <<>>[i].row = rows[<<>>[i].pipe]
        BY <3>1
      <3> QED BY <3>1, <3>2, BeginsInBudget
    <2>5. CASE Steps(w)
      BY <2>5 DEF Steps, Budget, Pipelines, InBudget
    <2>6. ASSUME NEW to \in State, Finishes(w, to) PROVE Budget'
      <3> DEFINE p == Head(todo[w]).pipe
                 old == Head(todo[w]).row
      <3>1. todo[w] # <<>>
        BY <2>6 DEF Finishes, Base, Sound
      <3>2. /\ p \in Pipelines /\ old \in Row /\ old.state \in Active
            /\ InBudget(old)
        BY <3>1, HeadIs DEF Budget
      <3>3. Writes(p, old, to) /\ Proceeds(w, Written(p, old, to))
        BY <2>6 DEF Finishes
      <3> HIDE DEF p, old
      <3>4. InBudget(Written(p, old, to))
        BY <3>2, WrittenInBudget DEF Active, Terminal, Parked
      <3> QED BY <3>1, <3>2, <3>3, <3>4, HandlesInBudget
    <2>7. ASSUME NEW to \in State, Raises(w, to) PROVE Budget'
      BY <2>7, AbortsInBudget DEF Raises
    <2>8. CASE Fails(w)
      <3> DEFINE p == Head(todo[w]).pipe
      <3>1. todo[w] # <<>>
        BY <2>8 DEF Fails, Base, Sound
      <3>2. p \in Pipelines
        BY <3>1, HeadIs
      <3>3. Writes(p, rows[p], "FAILED") /\ Proceeds(w, Written(p, rows[p], "FAILED"))
        BY <2>8 DEF Fails
      <3> HIDE DEF p
      <3>4. rows[p] \in Row /\ InBudget(Written(p, rows[p], "FAILED"))
        BY <1>2, <3>2, StatesAre, WrittenInBudget
      <3> QED BY <3>1, <3>2, <3>3, <3>4, StatesAre, HandlesInBudget
    <2>9. CASE FailsTooLate(w)
      BY <2>9, AbortsInBudget DEF FailsTooLate
    <2> QED BY <1>3, <2>1, <2>3, <2>4, <2>5, <2>6, <2>7, <2>8, <2>9 DEF Works
  <1>4. ASSUME NEW c \in Cluster, Synthesises(c) PROVE Budget'
    <2>1. /\ Pipelines' = Pipelines \cup {Len(rows) + 1}
          /\ \A p \in Pipelines : rows'[p] = rows[p]
          /\ rows'[Len(rows) + 1].revisions = 0
      <3>1. /\ Pipelines' = Pipelines \cup {Len(rows) + 1}
            /\ \A p \in Pipelines : rows'[p] = rows[p]
            /\ rows'[Len(rows) + 1] = [cluster |-> c, state |-> "SYNTHESIZED", revisions |-> 0]
        BY <1>4, SynthesisesBase
      <3> QED BY <3>1
    <2>2. ASSUME NEW p \in Pipelines' PROVE InBudget(rows'[p])
      <3>1. CASE p \in Pipelines
        BY <1>2, <2>1, <3>1
      <3>2. CASE p = Len(rows) + 1
        <4>1. rows'[p].revisions <= MaxRevisions
          BY <2>1, <3>2, MaxRevisionsAssumption
        <4> QED BY <4>1 DEF InBudget
      <3> QED BY <2>1, <3>1, <3>2
    <2>3. todo' = todo
      BY <1>4 DEF Synthesises
    <2> QED BY <2>2, <2>3 DEF Budget, InBudget
  <1>5. ASSUME NEW p \in Pipelines, Sweeps(p) PROVE Budget'
    <2>1. /\ Writes(p, rows[p], "VERDICT_PENDING") /\ todo' = todo
          /\ rows[p].state = "MONITORING"
      BY <1>5 DEF Sweeps
    <2>2. InBudget(Written(p, rows[p], "VERDICT_PENDING"))
      BY <1>2, <2>1, StatesAre, WrittenInBudget
    <2>3. \A q \in Pipelines' : InBudget(rows'[q])
      BY <1>2, <2>1, <2>2, StatesAre, WritesInBudget
    <2> QED BY <2>1, <2>3 DEF Budget, InBudget
  <1>6. \A p \in Pipelines : ~ Commands(p)
    BY DEF Commands
  <1> QED BY <1>1, <1>3, <1>4, <1>5, <1>6 DEF Next

\* However many jobs run at once over lists of any age, none of them works on a pipeline
\* that has used up its revisions, as long as no operator sends one back.
THEOREM BudgetKept == Operators = "never" => (Spec => []WorkIsWithinBudget)
  <1> SUFFICES ASSUME Operators = "never" PROVE Spec => []WorkIsWithinBudget
    OBVIOUS
  <1>1. Init => Base /\ Budget
    BY BaseInit DEF Init, Budget, Pipelines
  <1>2. Base /\ Budget /\ [Next]_vars => Base' /\ Budget'
    BY BaseStep, BudgetStep
  <1>3. Base /\ Budget => WorkIsWithinBudget
    <2> SUFFICES ASSUME Base, Budget, NEW w \in Workers, busy[w]
                 PROVE  Head(todo[w]).row.revisions <= MaxRevisions
      BY DEF WorkIsWithinBudget
    <2>1. todo[w] # <<>>
      BY DEF Base, Sound
    <2>2. InBudget(Head(todo[w]).row) /\ Head(todo[w]).row.state \in Active
      BY <2>1, HeadIs DEF Budget
    <2> QED BY <2>2 DEF InBudget, Active, Terminal, Parked
  <1> QED BY <1>1, <1>2, <1>3, PTL DEF Spec

-----------------------------------------------------------------------------
(* One job at a time *)

\* One worker, operators not during a pass, and nobody revives what has failed.
Alone == (\A v, w \in Workers : v = w) /\ Operators # "anytime" /\ ~Revives

\* Then the copies a job holds are the rows of the table, each pipeline's once,
Fresh ==
    \A w \in Workers :
        /\ \A i \in DOMAIN todo[w] : todo[w][i].row = rows[todo[w][i].pipe]
        /\ \A i, j \in DOMAIN todo[w] : todo[w][i].pipe = todo[w][j].pipe => i = j

\* and a cluster's pipelines are over, but for the last one created.
Over == {"REJECTED", "COMPLETED", "FAILED"}

OlderAreOver ==
    \A p, q \in Pipelines :
        rows[p].cluster = rows[q].cluster /\ p < q => rows[p].state \in Over

Legal ==
    \A p \in Pipelines :
        rows'[p].state # rows[p].state => CanTransition(rows[p].state, rows'[p].state)

\* A diverted edge is one of the table as well.
LEMMA LandingIsLegal ==
    ASSUME NEW from, NEW to, NEW revisions, CanTransition(from, to)
    PROVE  CanTransition(from, Landing(from, to, revisions))
  <1>1. CASE <<from, to>> \notin BackwardEdges
    BY <1>1 DEF Landing
  <1>2. CASE <<from, to>> \in BackwardEdges
    <2>1. CanTransition(from, "NEEDS_HUMAN")
      <3>1. from \in {"TECHNICAL_VERIFY", "CITATION_VERIFY", "EDITORIAL_VERIFY", "BOOK_QA",
                      "CITATION_FIND"}
        BY <1>2 DEF BackwardEdges
      <3> QED BY <3>1 DEF CanTransition, Anywhere
    <2> QED BY <2>1 DEF Landing
  <1> QED BY <1>1, <1>2

\* A legal write of a row that is not over, or stays over, keeps both.
LEMMA LegalWrite ==
    ASSUME Base, OlderAreOver, NEW p \in Pipelines, NEW to \in State,
           Writes(p, rows[p], to), CanTransition(rows[p].state, to),
           rows[p].state \in Over => to = "REJECTED"
    PROVE  OlderAreOver' /\ Legal
  <1>1. rows[p] \in Row
    BY DEF Base, TypeOK, Pipelines
  <1>2. /\ Pipelines' = Pipelines /\ rows'[p] = Written(p, rows[p], to)
        /\ \A q \in Pipelines : q # p => rows'[q] = rows[q]
    BY <1>1, WritesIs DEF Base
  <1>3. /\ rows'[p].cluster = rows[p].cluster
        /\ rows'[p].state = Landing(rows[p].state, to, rows[p].revisions)
    BY <1>1, <1>2, WrittenIs
  <1>4. CanTransition(rows[p].state, rows'[p].state)
    BY <1>3, LandingIsLegal
  <1>5. rows[p].state \in Over => rows'[p].state \in Over
    <2> SUFFICES ASSUME rows[p].state \in Over PROVE rows'[p].state \in Over
      OBVIOUS
    <2>1. <<rows[p].state, "REJECTED">> \notin BackwardEdges
      BY DEF BackwardEdges
    <2> QED BY <1>3, <2>1 DEF Landing, Over
  <1>6. ASSUME NEW a \in Pipelines, NEW b \in Pipelines,
               rows'[a].cluster = rows'[b].cluster, a < b
        PROVE  rows'[a].state \in Over
    <2>1. rows[a].state \in Over
      BY <1>2, <1>3, <1>6 DEF OlderAreOver
    <2> QED BY <2>1, <1>2, <1>5
  <1>7. OlderAreOver'
    BY <1>2, <1>6 DEF OlderAreOver
  <1>8. Legal
    BY <1>2, <1>4 DEF Legal
  <1> QED BY <1>7, <1>8

\* A handler leaves the lists fresh if it wrote the row of its own entry.
LEMMA HandlesFresh ==
    ASSUME Alone, Base, Fresh, NEW w \in Workers, todo[w] # <<>>, NEW to \in State,
           Writes(todo[w][1].pipe, rows[todo[w][1].pipe], to),
           Proceeds(w, Written(todo[w][1].pipe, rows[todo[w][1].pipe], to))
    PROVE  Fresh'
  <1> DEFINE t == todo[w]
             u == todo'[w]
             p == t[1].pipe
             new == Written(p, rows[p], to)
  <1>1. p \in Pipelines /\ t \in Seq(Entry) /\ 1 \in DOMAIN t
    BY HeadIs
  <1>2. rows[p] \in Row
    BY <1>1 DEF Base, TypeOK, Pipelines
  <1>3. /\ Pipelines' = Pipelines /\ rows'[p] = new
        /\ \A q \in Pipelines : q # p => rows'[q] = rows[q]
    BY <1>1, <1>2, WritesIs DEF Base
  <1>4. new \in Row
    BY <1>2, WrittenIs
  <1>5. Proceeds(w, new)
    OBVIOUS
  <1> HIDE DEF new
  <1>6. /\ todo' \in [Workers -> Seq(Entry)]
        /\ \/ /\ Len(u) = Len(t) - 1
              /\ \A i \in 1 .. Len(u) : u[i] = t[i + 1]
           \/ /\ Len(u) = Len(t)
              /\ u[1].pipe = t[1].pipe /\ u[1].row = new
              /\ \A i \in 2 .. Len(u) : u[i] = t[i]
    BY <1>4, <1>5, ProceedsIs DEF Base
  <1>7. /\ DOMAIN t = 1 .. Len(t) /\ Len(t) \in Nat
        /\ DOMAIN u = 1 .. Len(u) /\ Len(u) \in Nat
    <2>1. u \in Seq(Entry)
      BY <1>6
    <2> QED BY <1>1, <2>1
  <1>8. /\ \A i \in DOMAIN t : t[i].row = rows[t[i].pipe] /\ t[i].pipe \in Pipelines
        /\ \A i, j \in DOMAIN t : t[i].pipe = t[j].pipe => i = j
    <2>1. \A i \in DOMAIN t : t[i] \in Entry
      BY <1>1
    <2> QED BY <2>1 DEF Fresh, Entry
  <1> HIDE DEF t, u, p
  <1>9. \A i \in DOMAIN t : i # 1 => t[i].row = rows'[t[i].pipe]
    BY <1>1, <1>3, <1>8 DEF p
  <1>10. /\ \A i \in DOMAIN u : u[i].row = rows'[u[i].pipe]
         /\ \A i, j \in DOMAIN u : u[i].pipe = u[j].pipe => i = j
    <2>1. CASE /\ Len(u) = Len(t) - 1
               /\ \A i \in 1 .. Len(u) : u[i] = t[i + 1]
      <3>1. \A i \in DOMAIN u : /\ i + 1 \in DOMAIN t /\ i + 1 # 1 /\ u[i] = t[i + 1]
                               /\ i \in Int
        BY <1>7, <2>1
      <3>2. \A i \in DOMAIN u : u[i].row = rows'[u[i].pipe]
        BY <1>9, <3>1
      <3>3. ASSUME NEW i \in DOMAIN u, NEW j \in DOMAIN u, u[i].pipe = u[j].pipe
            PROVE  i = j
        <4>1. i + 1 = j + 1
          BY <1>8, <3>1, <3>3
        <4> QED BY <3>1, <4>1
      <3> QED BY <3>2, <3>3
    <2>2. CASE /\ Len(u) = Len(t)
               /\ u[1].pipe = t[1].pipe /\ u[1].row = new
               /\ \A i \in 2 .. Len(u) : u[i] = t[i]
      <3>1. DOMAIN u = DOMAIN t
        BY <1>7, <2>2
      <3>2. \A i \in DOMAIN u : /\ u[i].pipe = t[i].pipe
                               /\ u[i].row = IF i = 1 THEN new ELSE t[i].row
        <4> SUFFICES ASSUME NEW i \in DOMAIN u
                     PROVE  /\ u[i].pipe = t[i].pipe
                            /\ u[i].row = IF i = 1 THEN new ELSE t[i].row
          OBVIOUS
        <4>1. i = 1 \/ i \in 2 .. Len(u)
          BY <1>7
        <4> QED BY <4>1, <2>2
      <3>3. u[1].row = rows'[u[1].pipe]
        BY <1>3, <2>2 DEF p
      <3>4. \A i \in DOMAIN u : u[i].row = rows'[u[i].pipe]
        BY <1>9, <3>1, <3>2, <3>3
      <3> QED BY <1>8, <3>1, <3>2, <3>4
    <2> QED BY <1>6, <2>1, <2>2
  <1>11. \A v \in Workers : v = w
    BY DEF Alone
  <1> QED BY <1>10, <1>11 DEF Fresh, u

LEMMA BeginsAlone ==
    ASSUME Alone, Base, OlderAreOver, NEW w \in Workers, NEW list \in Seq(Entry),
           \A i \in DOMAIN list : list[i].row = rows[list[i].pipe],
           \A i, j \in DOMAIN list : list[i].pipe = list[j].pipe => i = j,
           NEW kind, Begins(w, kind, list)
    PROVE  Fresh' /\ OlderAreOver' /\ Legal
  <1>1. todo'[w] = list /\ rows' = rows
    BY DEF Begins, Base, TypeOK
  <1>2. \A v \in Workers : v = w
    BY DEF Alone
  <1> QED BY <1>1, <1>2 DEF Fresh, OlderAreOver, Legal, Pipelines

LEMMA AbortsAlone ==
    ASSUME Alone, Base, OlderAreOver, NEW w \in Workers, Aborts(w), UNCHANGED <<rows, order>>
    PROVE  Fresh' /\ OlderAreOver' /\ Legal
  <1>1. todo'[w] = <<>>
    BY DEF Aborts, Base, TypeOK
  <1>2. \A v \in Workers : v = w
    BY DEF Alone
  <1> QED BY <1>1, <1>2 DEF Fresh, OlderAreOver, Legal, Pipelines

LEMMA ListedIs ==
    ASSUME Base, NEW v \in Workers, NEW i \in DOMAIN todo[v]
    PROVE  todo[v][i] \in Entry /\ todo[v][i].row.state \in Active
  <1>1. todo[v] \in Seq(Entry)
    BY DEF Base, TypeOK, Entry
  <1>2. ActiveList(todo[v])
    BY DEF Base, Sound
  <1> QED BY <1>1, <1>2 DEF ActiveList

LEMMA ActiveAreNotOver == Active \cap Over = {} /\ "MONITORING" \notin Active \cup Over
  BY DEF Active, Over, Terminal, Parked

LEMMA AloneStep ==
    ASSUME Alone, Base, Fresh, OlderAreOver, [Next]_vars
    PROVE  Fresh' /\ OlderAreOver' /\ Legal
  <1>1. CASE UNCHANGED vars
    BY <1>1 DEF vars, Fresh, OlderAreOver, Legal, Pipelines
  <1>2. ASSUME NEW w \in Workers, Works(w) PROVE Fresh' /\ OlderAreOver' /\ Legal
    <2>1. CASE StartsVerdict(w)
      <3> DEFINE list == Listing({"SYNTHESIZED"}) \o Listing({"VERDICT_PENDING"})
      <3>1. /\ list \in Seq(Entry) /\ Begins(w, "verdict", list)
            /\ \A i \in DOMAIN list : list[i].row = rows[list[i].pipe]
            /\ \A i, j \in DOMAIN list : list[i].pipe = list[j].pipe => i = j
        BY <2>1, ListsAre DEF StartsVerdict
      <3> HIDE DEF list
      <3> QED BY <3>1, BeginsAlone
    <2>2. ASSUME NEW kind, Begins(w, kind, Listing(Active))
          PROVE  Fresh' /\ OlderAreOver' /\ Legal
      <3> DEFINE list == Listing(Active)
      <3>1. /\ list \in Seq(Entry) /\ Begins(w, kind, list)
            /\ \A i \in DOMAIN list : list[i].row = rows[list[i].pipe]
            /\ \A i, j \in DOMAIN list : list[i].pipe = list[j].pipe => i = j
        BY <2>2, ListsAre
      <3> HIDE DEF list
      <3> QED BY <3>1, BeginsAlone
    <2>3. CASE StartsTick(w) \/ StartsDrive(w)
      BY <2>2, <2>3 DEF StartsTick, StartsDrive
    <2>4. CASE Ends(w)
      <3> DEFINE list == <<>>
      <3>1. Begins(w, "idle", list) /\ list \in Seq(Entry) /\ DOMAIN list = {}
        BY <2>4 DEF Ends
      <3> HIDE DEF list
      <3> QED BY <3>1, BeginsAlone
    <2>5. CASE Steps(w)
      BY <2>5 DEF Steps, Fresh, OlderAreOver, Legal, Pipelines
    <2>6. ASSUME NEW to \in State, NEW p, p = todo[w][1].pipe, todo[w] # <<>>,
                 rows[p].state \notin Over, CanTransition(rows[p].state, to),
                 Writes(p, rows[p], to), Proceeds(w, Written(p, rows[p], to))
          PROVE  Fresh' /\ OlderAreOver' /\ Legal
      <3>1. p \in Pipelines
        BY <2>6, HeadIs
      <3>2. Fresh'
        BY <2>6, HandlesFresh
      <3>3. OlderAreOver' /\ Legal
        BY <2>6, <3>1, LegalWrite
      <3> QED BY <3>2, <3>3
    <2>7. ASSUME todo[w] # <<>>
          PROVE  /\ Head(todo[w]) = todo[w][1]
                 /\ Head(todo[w]).row = rows[todo[w][1].pipe]
                 /\ rows[todo[w][1].pipe].state \notin Over
      <3>1. /\ 1 \in DOMAIN todo[w] /\ Head(todo[w]) = todo[w][1]
            /\ Head(todo[w]).row.state \in Active
        BY <2>7, HeadIs
      <3>2. todo[w][1].row = rows[todo[w][1].pipe]
        BY <3>1 DEF Fresh
      <3> QED BY <3>1, <3>2, ActiveAreNotOver
    <2>8. ASSUME NEW to \in State, Finishes(w, to) PROVE Fresh' /\ OlderAreOver' /\ Legal
      <3>1. todo[w] # <<>>
        BY <2>8 DEF Finishes, Base, Sound
      <3> QED BY <3>1, <2>6, <2>7, <2>8 DEF Finishes
    <2>9. ASSUME NEW to \in State, Raises(w, to) PROVE Fresh' /\ OlderAreOver' /\ Legal
      BY <2>9, AbortsAlone DEF Raises
    <2>10. CASE Fails(w)
      <3>1. todo[w] # <<>>
        BY <2>10 DEF Fails, Base, Sound
      <3> QED BY <3>1, <2>6, <2>7, <2>10, StatesAre DEF Fails
    <2>11. CASE FailsTooLate(w)
      BY <2>11, AbortsAlone DEF FailsTooLate
    <2> QED BY <1>2, <2>1, <2>3, <2>4, <2>5, <2>8, <2>9, <2>10, <2>11 DEF Works
  <1>3. ASSUME NEW c \in Cluster, Synthesises(c) PROVE Fresh' /\ OlderAreOver' /\ Legal
    <2> DEFINE n == Len(rows) + 1
    <2>1. /\ Pipelines' = Pipelines \cup {n} /\ Len(rows) \in Nat
          /\ Pipelines = 1 .. Len(rows)
          /\ \A p \in Pipelines : rows'[p] = rows[p]
          /\ rows'[n] = [cluster |-> c, state |-> "SYNTHESIZED", revisions |-> 0]
      BY <1>3, SynthesisesBase
    <2>2. \A v \in Workers : \A i \in DOMAIN todo[v] : todo[v][i].pipe \in Pipelines
      <3>1. \A v \in Workers : \A i \in DOMAIN todo[v] : todo[v][i] \in Entry
        BY ListedIs
      <3> QED BY <3>1 DEF Entry
    <2>3. Fresh'
      BY <1>3, <2>1, <2>2 DEF Synthesises, Fresh
    <2>4. ASSUME NEW p \in Pipelines, rows[p].cluster = c PROVE rows[p].state \in Over
      <3>1. CASE \E q \in {r \in Pipelines : rows[r].cluster = c} : q > p
        BY <2>4, <3>1, <2>1 DEF OlderAreOver
      <3> QED BY <3>1, <2>4, <1>3 DEF Synthesises, Over
    <2>5. ASSUME NEW p \in Pipelines', NEW q \in Pipelines',
                 rows'[p].cluster = rows'[q].cluster, p < q
          PROVE  rows'[p].state \in Over
      <3>1. p \in Pipelines
        BY <2>1, <2>5
      <3>2. CASE q \in Pipelines
        BY <2>1, <2>5, <3>1, <3>2 DEF OlderAreOver
      <3>3. CASE q = n
        BY <2>1, <2>4, <2>5, <3>1, <3>3
      <3> QED BY <2>1, <3>2, <3>3
    <2>6. Legal
      BY <2>1 DEF Legal
    <2> QED BY <2>3, <2>5, <2>6 DEF OlderAreOver
  <1>4. ASSUME NEW p \in Pipelines, Sweeps(p) PROVE Fresh' /\ OlderAreOver' /\ Legal
    <2>1. /\ Writes(p, rows[p], "VERDICT_PENDING") /\ todo' = todo
          /\ rows[p].state = "MONITORING"
      BY <1>4 DEF Sweeps
    <2>2. CanTransition(rows[p].state, "VERDICT_PENDING") /\ rows[p].state \notin Over
      BY <2>1 DEF CanTransition, Over
    <2>3. OlderAreOver' /\ Legal
      BY <2>1, <2>2, StatesAre, LegalWrite
    <2>4. \A q \in Pipelines : q # p => rows'[q] = rows[q]
      BY <2>1 DEF Writes, Pipelines
    <2>5. \A v \in Workers : \A i \in DOMAIN todo[v] :
             todo[v][i].pipe \in Pipelines /\ todo[v][i].pipe # p
      <3>1. \A v \in Workers : \A i \in DOMAIN todo[v] :
               todo[v][i] \in Entry /\ todo[v][i].row.state \in Active
        BY ListedIs
      <3>2. \A v \in Workers : \A i \in DOMAIN todo[v] :
               rows[todo[v][i].pipe].state \in Active
        BY <3>1 DEF Fresh
      <3> QED BY <2>1, <3>1, <3>2, ActiveAreNotOver DEF Entry
    <2>6. Fresh'
      BY <2>1, <2>4, <2>5 DEF Fresh
    <2> QED BY <2>3, <2>6
  <1>5. ASSUME NEW p \in Pipelines, Commands(p) PROVE Fresh' /\ OlderAreOver' /\ Legal
    <2>1. PICK to \in State : /\ CanTransition(rows[p].state, to)
                              /\ rows[p].state = "FAILED" => to = "REJECTED"
                              /\ Writes(p, rows[p], to)
      BY <1>5 DEF Commands, Alone
    <2>2. rows[p].state \in Over => to = "REJECTED"
      BY <2>1 DEF CanTransition, Over
    <2>3. OlderAreOver' /\ Legal
      BY <2>1, <2>2, LegalWrite
    <2>4. \A v \in Workers : todo[v] = <<>> /\ todo'[v] = <<>>
      BY <1>5 DEF Commands, Alone
    <2>5. Fresh'
      BY <2>4 DEF Fresh
    <2> QED BY <2>3, <2>5
  <1> QED BY <1>1, <1>2, <1>3, <1>4, <1>5 DEF Next

LEMMA AloneInit == Init => Fresh /\ OlderAreOver
  BY DEF Init, Fresh, OlderAreOver, Pipelines

\* With one job at a time, operators between its passes, and nothing failed revived, a
\* cluster never has two pipelines in flight.
THEOREM OneInFlight == Alone => (Spec => []OnePipelinePerCluster)
  <1> SUFFICES ASSUME Alone PROVE Spec => []OnePipelinePerCluster
    OBVIOUS
  <1>1. Init => Base /\ Fresh /\ OlderAreOver
    BY BaseInit, AloneInit
  <1>2. Base /\ Fresh /\ OlderAreOver /\ [Next]_vars => Base' /\ Fresh' /\ OlderAreOver'
    BY BaseStep, AloneStep
  <1>3. Base /\ OlderAreOver => OnePipelinePerCluster
    <2> SUFFICES ASSUME Base, OlderAreOver, NEW p \in Pipelines, NEW q \in Pipelines,
                        rows[p].cluster = rows[q].cluster,
                        rows[p].state \in InFlight, rows[q].state \in InFlight
                 PROVE  p = q
      BY DEF OnePipelinePerCluster
    <2>1. p \in Nat /\ q \in Nat
      BY DEF Base, TypeOK, Pipelines
    <2>2. ~ (p < q) /\ ~ (q < p)
      BY DEF OlderAreOver, InFlight, Over
    <2> QED BY <2>1, <2>2
  <1> QED BY <1>1, <1>2, <1>3, PTL DEF Spec

\* And every change of a stored state is an edge of the table.
THEOREM TableKept == Alone => (Spec => RowsFollowTable)
  <1> SUFFICES ASSUME Alone PROVE Spec => RowsFollowTable
    OBVIOUS
  <1>1. Init => Base /\ Fresh /\ OlderAreOver
    BY BaseInit, AloneInit
  <1>2. Base /\ Fresh /\ OlderAreOver /\ [Next]_vars => Base' /\ Fresh' /\ OlderAreOver'
    BY BaseStep, AloneStep
  <1>3. Base /\ Fresh /\ OlderAreOver /\ [Next]_vars =>
           [\A p \in Pipelines :
               rows'[p].state # rows[p].state
                  => CanTransition(rows[p].state, rows'[p].state)]_vars
    BY AloneStep DEF Legal
  <1> QED BY <1>1, <1>2, <1>3, PTL DEF Spec, RowsFollowTable

=============================================================================

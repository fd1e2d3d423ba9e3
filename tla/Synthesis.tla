----------------------------- MODULE Synthesis -----------------------------
(***************************************************************************)
(* skills/research/synthesis.py without its model: which items are one     *)
(* paper, and which belong together.                                       *)
(*                                                                         *)
(* Rows map an item to the payload loaded with it.  Similarities are       *)
(* percentages; the embedding service may not answer, and then every       *)
(* cosine counts as 0.                                                     *)
(***************************************************************************)
EXTENDS Evidence, FiniteSetsExt, SequencesExt

CONSTANTS
    Cosine,             \* [{i, j} |-> similarity of the embeddings], in percent
    SameAt,             \* synthesis.dedupe_cosine_threshold
    JoinAt,             \* synthesis.cluster_cosine_threshold
    MaxClusters         \* synthesis.max_clusters_per_cycle

-----------------------------------------------------------------------------
(* Deduplication *)

\* Mutant: of the duplicates, the concepts alone are kept.
MergedConcepts(rows, keeper, others) ==
    [source |-> rows[keeper].source, identity |-> rows[keeper].identity,
     evidence |-> rows[keeper].evidence,
     concepts |-> UNION {rows[i].concepts : i \in others \cup {keeper}}]

\* _merge_duplicate, for all the others: evidence and concepts, in the keeper's row.
Merged(rows, keeper, others) ==
    [source |-> rows[keeper].source, identity |-> rows[keeper].identity,
     evidence |-> UNION {rows[i].evidence : i \in others \cup {keeper}},
     concepts |-> UNION {rows[i].concepts : i \in others \cup {keeper}}]

\* The elements of a sequence that are in a set, in their order.
Those(seq, set) ==
    FoldLeft(LAMBDA acc, x : IF x \in set THEN Append(acc, x) ELSE acc, <<>>, seq)

\* Of items in that order, those that are twins of none kept before them.
Kept(order, twins) ==
    FoldLeft(LAMBDA acc, i : IF \E n \in DOMAIN acc : <<acc[n], i>> \in twins THEN acc
                             ELSE Append(acc, i), <<>>, order)

\* One pass in that order: an item that is not kept is folded into the first one kept
\* that is its twin.
Pass(order, rows, twins) ==
    LET kept == Kept(order, twins)
        first(i) == Min({n \in DOMAIN kept : <<kept[n], i>> \in twins})
        folded(j) == {i \in DOMAIN rows : /\ i \in ToSet(order) \ ToSet(kept)
                                          /\ kept[first(i)] = j}
    IN  [kept |-> kept, rows |-> [j \in DOMAIN rows |-> Merged(rows, j, folded(j))]]

\* _paper_identity: the DOI or arXiv id, "" when it has none.
SamePaper(rows, i, j) == rows[i].identity # "" /\ rows[i].identity = rows[j].identity

\* The items that are one paper, and those with nearly the same embedding.
Papers(rows) == {p \in (DOMAIN rows) \X (DOMAIN rows) : SamePaper(rows, p[1], p[2])}
Alike(rows, embedded) ==
    {p \in (DOMAIN rows) \X (DOMAIN rows) : embedded /\ Cosine[{p[1], p[2]}] >= SameAt}

\* _deduplicate: by identity, those that have one ahead of the others, then by embedding.
Deduplicated(order, rows, embedded) ==
    LET papers == Pass(order, rows, Papers(rows))
        named == {i \in DOMAIN rows : rows[i].identity # ""}
        unique == Those(papers.kept, named) \o Those(papers.kept, DOMAIN rows \ named)
    IN  Pass(unique, papers.rows, Alike(rows, embedded))

-----------------------------------------------------------------------------
(* Clustering *)

\* affinity: the larger of concept overlap and cosine.
Affinity(rows, embedded, i, j) ==
    LET ci == rows[i].concepts
        cj == rows[j].concepts
        least == Min({Cardinality(ci), Cardinality(cj)})
        overlap == IF least = 0 THEN 0 ELSE (100 * Cardinality(ci \cap cj)) \div least
    IN  Max({overlap, IF embedded THEN Cosine[{i, j}] ELSE 0})

\* Mutant: single linkage, the best member speaks for the cluster.
BestFit(rows, embedded, i, cluster) ==
    Len(cluster) * Max({Affinity(rows, embedded, i, cluster[n]) : n \in DOMAIN cluster})

\* The sum of an item's affinities to the members of a cluster.
Fit(rows, embedded, i, cluster) ==
    FoldLeft(LAMBDA sum, j : sum + Affinity(rows, embedded, i, j), 0, cluster)

\* An item behind those that have as many concepts as it, or more.
Inserted(seq, i, rows) ==
    LET size(j) == Cardinality(rows[j].concepts)
        ahead == {j \in DOMAIN rows : size(j) >= size(i)}
    IN  Those(seq, ahead) \o <<i>> \o Those(seq, DOMAIN rows \ ahead)

\* Items with more concepts first, otherwise in the order given.
ByConcepts(order, rows) ==
    FoldLeft(LAMBDA seq, i : Inserted(seq, i, rows), <<>>, order)

\* Where an item goes: to the first cluster of the greatest mean fit, if that reaches
\* the threshold.
Placed(clusters, rows, embedded, i) ==
    LET fit(n) == Fit(rows, embedded, i, clusters[n])
        best(n) == /\ fit(n) > 0
                   /\ \A m \in DOMAIN clusters :
                          LET mine == fit(n) * Len(clusters[m])
                              its == fit(m) * Len(clusters[n])
                          IN  mine > its \/ (mine = its /\ n <= m)
        joins == {n \in DOMAIN clusters : best(n) /\ fit(n) >= JoinAt * Len(clusters[n])}
    IN  IF joins = {} THEN Append(clusters, <<i>>)
        ELSE [clusters EXCEPT ![Min(joins)] = Append(@, i)]

\* The clusters, one item after the other.
Grouped(order, rows, embedded) ==
    FoldLeft(LAMBDA clusters, i : Placed(clusters, rows, embedded, i), <<>>, order)

\* _cluster: the groups, as sets of items.
Clustered(order, rows, embedded) ==
    LET clusters == Grouped(ByConcepts(order, rows), rows, embedded)
    IN  {g \in SUBSET DOMAIN rows : \E n \in DOMAIN clusters : g = ToSet(clusters[n])}

\* _group_weight, in quarters, with the default relevance of one half for every item.
Weight(rows, group) ==
    MapThenSumSet(LAMBDA i : 4 + Cardinality(rows[i].evidence), group)

\* The groups run goes on with: the heaviest, as many as a cycle may make.
Heaviest(groups, rows) ==
    {taken \in SUBSET groups :
        /\ Cardinality(taken) = Min({Cardinality(groups), MaxClusters})
        /\ \A g \in taken, h \in groups \ taken : Weight(rows, g) >= Weight(rows, h)}

\* _synthesise_group: the row of a group's cluster, given the maturity the model states.
ClusterRow(rows, group, stated) ==
    LET evidence == UNION {rows[i].evidence : i \in group}
    IN  [evidence |-> evidence,
         sources |-> {rows[i].source : i \in group},
         size |-> Cardinality(group),
         maturity |-> MinMaturity(stated, ComputeMaturity(evidence, Cardinality(group)))]

-----------------------------------------------------------------------------
(* What a cluster is for: its members fit one another on average, so a chain of
   neighbours does not become one topic. *)
Closeness(rows, embedded, pair) ==
    LET i == CHOOSE i \in pair : TRUE
        j == CHOOSE j \in pair : j # i
    IN  Affinity(rows, embedded, i, j)

Cohesion(rows, embedded, pairs) ==
    MapThenSumSet(LAMBDA p : Closeness(rows, embedded, p), pairs)

HoldsTogether(rows, embedded, group) ==
    LET pairs == kSubset(2, group)
    IN  Cohesion(rows, embedded, pairs) >= JoinAt * Cardinality(pairs)

=============================================================================

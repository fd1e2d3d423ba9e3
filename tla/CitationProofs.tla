--------------------------- MODULE CitationProofs ---------------------------
(***************************************************************************)
(* Theorems about Citation, for any drafts, sources, registries, answers   *)
(* of the language model and numbers of pipelines.  What enters            *)
(* references.bib has been vetted, and stays (Inv).  Rows and tasks are of *)
(* their type (Typed).  Without overlap keys differ (Keyed), and if the    *)
(* services are truthful each citation is of the work that was verified    *)
(* (Worked, an invariant with overlap too; only the last step needs Keyed).*)
(***************************************************************************)
EXTENDS Citation, SequenceTheorems, FiniteSetTheorems, WellFoundedInduction, TLAPS

-----------------------------------------------------------------------------
(* Choosing *)

\* A set of natural numbers has a smallest one.
LEMMA SmallestOf ==
    ASSUME NEW T, T \subseteq Nat, T # {}
    PROVE  \E i \in T : \A j \in T : i <= j
  <1> DEFINE R == {ss \in Nat \X Nat : ss[1] < ss[2]}
  <1>1. IsWellFoundedOn(R, Nat)
    BY NatLessThanWellFounded DEF OpToRel
  <1>2. PICK i \in T : \A j \in T : <<j, i>> \notin R
    BY <1>1, WFMin
  <1>3. ASSUME NEW j \in T PROVE i <= j
    <2>1. <<j, i>> \in Nat \X Nat /\ <<j, i>>[1] = j /\ <<j, i>>[2] = i
      OBVIOUS
    <2>2. <<j, i>> \notin R
      BY <1>2
    <2>3. ~ (j < i)
      BY <2>1, <2>2
    <2> QED BY <2>3
  <1> QED BY <1>3

\* The verdict of the model passes only with what the gates ask for.
LEMMA AcceptedIsVetted ==
    ASSUME NEW c, NEW a, NEW strict \in BOOLEAN, Judged(c, a, strict).verdict = "accept"
    PROVE  Vetted(Judged(c, a, strict))
  BY DEF Judged, Vetted

\* What the verifier chooses and accepts is one of its attempts.
LEMMA ChosenIsAnAttempt ==
    ASSUME NEW n \in Nat \ {0}, NEW attempts, DOMAIN attempts = 1..n
    PROVE  \E i \in 1..n : Chosen(attempts) = attempts[i]
  <1> DEFINE First(T) == CHOOSE i \in T : \A j \in T : i <= j
             accepted == {i \in DOMAIN attempts : attempts[i].verdict = "accept"}
             leads    == {i \in DOMAIN attempts :
                            attempts[i].verdict = "needs_primary" /\ attempts[i].lead}
             partial  == {i \in DOMAIN attempts : attempts[i].supports = "partial"}
  <1>1. ASSUME NEW T, T \subseteq 1..n, T # {} PROVE First(T) \in 1..n
    <2>1. T \subseteq Nat
      BY <1>1
    <2>2. \E i \in T : \A j \in T : i <= j
      BY <2>1, <1>1, SmallestOf, Zenon
    <2>3. First(T) \in T
      BY <2>2, Zenon
    <2> QED BY <2>3, <1>1
  <1>2. accepted \subseteq 1..n /\ leads \subseteq 1..n /\ partial \subseteq 1..n
    OBVIOUS
  <1>3. Chosen(attempts) = IF accepted # {} THEN attempts[First(accepted)]
                           ELSE IF leads # {} THEN attempts[First(leads)]
                           ELSE IF partial # {} THEN attempts[First(partial)]
                           ELSE attempts[1]
    BY DEF Chosen
  <1> HIDE DEF accepted, leads, partial, First
  <1>4. CASE accepted # {}
    <2>1. First(accepted) \in 1..n
      BY <1>1, <1>2, <1>4
    <2> QED BY <2>1, <1>3, <1>4
  <1>5. CASE accepted = {} /\ leads # {}
    <2>1. First(leads) \in 1..n
      BY <1>1, <1>2, <1>5
    <2> QED BY <2>1, <1>3, <1>5
  <1>6. CASE accepted = {} /\ leads = {} /\ partial # {}
    <2>1. First(partial) \in 1..n
      BY <1>1, <1>2, <1>6
    <2> QED BY <2>1, <1>3, <1>6
  <1>7. CASE accepted = {} /\ leads = {} /\ partial = {}
    BY <1>3, <1>7
  <1> QED BY <1>4, <1>5, <1>6, <1>7

\* Whatever the verifier concludes, an accepted conclusion is vetted.
LEMMA ConcludedIsVetted ==
    ASSUME NEW pool, NEW strict \in BOOLEAN, Len(pool) \in Nat,
           NEW v \in Conclusions(pool, strict), v.verdict = "accept"
    PROVE  Vetted(v)
  <1> DEFINE n == IF Len(pool) < MaxTries THEN Len(pool) ELSE MaxTries
  <1>1. n \in Nat
    BY CitationAssumption
  <1>2. CASE n = 0
    <2>1. v = Kept(Unverifiable(strict))
      BY <1>2 DEF Conclusions
    <2>2. Unverifiable(strict).verdict = "reject"
      BY DEF Unverifiable
    <2>3. v.verdict = "reject"
      BY <2>1, <2>2 DEF Kept
    <2> QED BY <2>3
  <1>3. CASE n # 0
    <2>1. PICK said \in [1..n -> Answer] :
             v = Kept(Chosen([i \in 1..n |-> Judged(pool[i], said[i], strict)]))
      BY <1>3 DEF Conclusions
    <2> DEFINE attempts == [i \in 1..n |-> Judged(pool[i], said[i], strict)]
    <2>2. PICK i \in 1..n : Chosen(attempts) = attempts[i]
      <3>1. DOMAIN attempts = 1..n
        OBVIOUS
      <3> HIDE DEF attempts, n
      <3> QED BY <3>1, <1>1, <1>3, ChosenIsAnAttempt
    <2>3. attempts[i] = Judged(pool[i], said[i], strict)
      OBVIOUS
    <2>4. v = Kept(Judged(pool[i], said[i], strict))
      BY <2>1, <2>2, <2>3
    <2>5. v = Judged(pool[i], said[i], strict)
      BY <2>4 DEF Kept
    <2> QED BY <2>5, AcceptedIsVetted
  <1> QED BY <1>2, <1>3

-----------------------------------------------------------------------------
(* The inductive invariant *)

Fields == {"state", "revisions", "draft", "gaps", "pools", "settled", "cited",
           "unsupported"}

\* What the gaps and pools of a row are, as far as the verifier reads them.
RowsOK ==
    /\ DOMAIN row = Pipeline
    /\ \A p \in Pipeline :
         /\ DOMAIN row[p] = Fields
         /\ \A c \in DOMAIN row[p].gaps : row[p].gaps[c] \in BOOLEAN
         /\ row[p].state = "CITATION_FIND" =>
              \A c \in DOMAIN row[p].gaps : Len(row[p].pools[c]) \in Nat

\* A task under way: all it still has to enter is vetted.
TaskOK(t) ==
    /\ t.at \in {"entering", "asking"}
    /\ \A c \in Accepted(t.found) : Vetted(t.found[c])
    /\ t.left \subseteq Accepted(t.found)
    /\ t.at = "asking" => t.claim \in t.left

TasksOK ==
    /\ DOMAIN task = Pipeline
    /\ \A p \in Pipeline : task[p] = Idle \/ TaskOK(task[p])

BibOK == \E S : bib \in Seq(S)

Inv == RowsOK /\ TasksOK /\ BibOK /\ VettedEntries

LEMMA InitInv == Init => Inv
  <1> SUFFICES ASSUME Init PROVE Inv
    OBVIOUS
  <1>1. PICK case \in Cases :
          row = [p \in Pipeline |->
                   [state |-> "TECHNICAL_VERIFY", revisions |-> 0,
                    draft |-> case.draft[p], gaps |-> <<>>, pools |-> <<>>,
                    settled |-> <<>>, cited |-> <<>>, unsupported |-> <<>>]]
    BY DEF Init
  <1>2. RowsOK
    BY <1>1 DEF RowsOK, Fields
  <1>3. TasksOK
    BY DEF Init, TasksOK
  <1>4. BibOK
    BY CitationAssumption DEF Init, BibOK
  <1>5. VettedEntries
    BY CitationAssumption DEF Init, VettedEntries, Author
  <1> QED BY <1>2, <1>3, <1>4, <1>5 DEF Inv

\* A handler of Next other than the verifier's leaves gaps and pools that fit.
LEMMA RowStep ==
    ASSUME RowsOK, NEW p \in Pipeline, NEW r, row' = [row EXCEPT ![p] = r],
           DOMAIN r = Fields,
           \A c \in DOMAIN r.gaps : r.gaps[c] \in BOOLEAN,
           r.state = "CITATION_FIND" =>
              \A c \in DOMAIN r.gaps : Len(r.pools[c]) \in Nat
    PROVE  RowsOK'
  <1>1. DOMAIN row' = Pipeline
    BY DEF RowsOK
  <1>2. \A q \in Pipeline : row'[q] = IF q = p THEN r ELSE row[q]
    BY DEF RowsOK
  <1> QED BY <1>1, <1>2 DEF RowsOK

\* A task that is replaced by one that is fit leaves all of them fit.
LEMMA TaskStep ==
    ASSUME TasksOK, NEW p \in Pipeline, NEW t, task' = [task EXCEPT ![p] = t],
           t = Idle \/ TaskOK(t)
    PROVE  TasksOK'
  <1>1. DOMAIN task' = Pipeline
    BY DEF TasksOK
  <1>2. \A q \in Pipeline : task'[q] = IF q = p THEN t ELSE task[q]
    BY DEF TasksOK
  <1> QED BY <1>1, <1>2 DEF TasksOK, TaskOK, Idle, Accepted, Vetted

\* The next verification of a task whose accepted ones are vetted.
LEMMA EnteringIsFit ==
    ASSUME NEW t, TaskOK(t), NEW left, left \subseteq Accepted(t.found), NEW key,
           NEW attempts
    PROVE  TaskOK(Entering(t, left, key, attempts))
  BY DEF TaskOK, Entering, Accepted

\* What is appended is vetted, and what there was stays.
LEMMA AppendStep ==
    ASSUME BibOK, VettedEntries, NEW e, Vetted(e.by), bib' = Append(bib, e)
    PROVE  /\ BibOK'
           /\ VettedEntries'
           /\ \A i \in DOMAIN bib : i \in DOMAIN bib' /\ bib'[i] = bib[i]
  <1>1. PICK S : bib \in Seq(S)
    BY DEF BibOK
  <1> DEFINE T == S \cup {e}
  <1>2. bib \in Seq(T)
    BY <1>1, SeqMonotonic
  <1>3. /\ bib' \in Seq(T)
        /\ Len(bib') = Len(bib) + 1
        /\ \A i \in 1 .. Len(bib) : bib'[i] = bib[i]
        /\ bib'[Len(bib) + 1] = e
    BY <1>2, AppendProperties
  <1>4. DOMAIN bib = 1 .. Len(bib) /\ Len(bib) \in Nat
    BY <1>2, LenProperties
  <1>5. DOMAIN bib' = 1 .. Len(bib) + 1
    BY <1>3, LenProperties
  <1>6. BibOK'
    BY <1>3 DEF BibOK
  <1>7. \A i \in DOMAIN bib : i \in DOMAIN bib' /\ bib'[i] = bib[i]
    BY <1>3, <1>4, <1>5
  <1>8. ASSUME NEW i \in DOMAIN bib' PROVE bib'[i].by = Author \/ Vetted(bib'[i].by)
    <2>1. CASE i \in DOMAIN bib
      BY <2>1, <1>7 DEF VettedEntries
    <2>2. CASE i = Len(bib) + 1
      BY <2>2, <1>3
    <2> QED BY <2>1, <2>2, <1>4, <1>5
  <1>9. VettedEntries'
    BY <1>8 DEF VettedEntries, Vetted, Author
  <1> QED BY <1>6, <1>7, <1>9

-----------------------------------------------------------------------------
(* Steps *)

Stays == \A i \in DOMAIN bib : i \in DOMAIN bib' /\ bib'[i] = bib[i]

\* The file is left alone.
LEMMA SameFile ==
    ASSUME BibOK, VettedEntries, UNCHANGED bib
    PROVE  BibOK' /\ VettedEntries' /\ Stays
  BY DEF BibOK, VettedEntries, Vetted, Author, Stays

LEMMA SameRows == ASSUME RowsOK, UNCHANGED row PROVE RowsOK'
  BY DEF RowsOK

LEMMA SameTasks == ASSUME TasksOK, UNCHANGED task PROVE TasksOK'
  BY DEF TasksOK, TaskOK, Idle, Accepted, Vetted

LEMMA PoolsAreSequences ==
    ASSUME NEW file, NEW claim, NEW s \in Pools(file, claim)
    PROVE  Len(s) \in Nat
  <1>1. PICK n \in 0 .. MaxPool : s \in [1 .. n -> Offered(file, claim)]
    BY DEF Pools
  <1>2. n \in Nat
    BY <1>1, CitationAssumption
  <1>3. s \in Seq(Offered(file, claim))
    BY <1>1, <1>2, SeqDef
  <1> QED BY <1>3, LenProperties

LEMMA AuditStep == ASSUME Inv, NEW p \in Pipeline, Audit(p) PROVE Inv' /\ Stays
  <1>1. PICK found, declared :
          row' = [row EXCEPT ![p].state = "CITATION_AUDIT",
                             ![p].gaps = [c \in found \cup declared |->
                                             c \in found /\ c \in Strict]]
    BY DEF Audit
  <1> DEFINE r == [row[p] EXCEPT !.state = "CITATION_AUDIT",
                                 !.gaps = [c \in found \cup declared |->
                                              c \in found /\ c \in Strict]]
  <1>2. row' = [row EXCEPT ![p] = r]
    BY <1>1 DEF Inv, RowsOK
  <1>3. /\ DOMAIN r = Fields
        /\ r.gaps = [c \in found \cup declared |-> c \in found /\ c \in Strict]
        /\ r.state = "CITATION_AUDIT"
    BY DEF Inv, RowsOK, Fields
  <1>4. \A c \in DOMAIN r.gaps : r.gaps[c] \in BOOLEAN
    BY <1>3
  <1> HIDE DEF r
  <1>5. RowsOK'
    BY <1>2, <1>3, <1>4, RowStep DEF Inv
  <1>6. TasksOK'
    BY SameTasks DEF Inv, Audit
  <1> QED BY <1>5, <1>6, SameFile DEF Inv, Audit

LEMMA FindStep == ASSUME Inv, NEW p \in Pipeline, Find(p) PROVE Inv' /\ Stays
  <1>1. PICK pools :
          /\ pools \in [DOMAIN row[p].gaps ->
                          UNION {Pools(bib, c) : c \in DOMAIN row[p].gaps}]
          /\ \A c \in DOMAIN pools : pools[c] \in Pools(bib, c)
          /\ row' = [row EXCEPT ![p].state = "CITATION_FIND", ![p].pools = pools]
    BY DEF Find
  <1> DEFINE r == [row[p] EXCEPT !.state = "CITATION_FIND", !.pools = pools]
  <1>2. row' = [row EXCEPT ![p] = r]
    BY <1>1 DEF Inv, RowsOK
  <1>3. DOMAIN r = Fields /\ r.gaps = row[p].gaps /\ r.pools = pools
    BY DEF Inv, RowsOK, Fields
  <1>4. \A c \in DOMAIN r.gaps : r.gaps[c] \in BOOLEAN
    BY <1>3 DEF Inv, RowsOK
  <1>5. \A c \in DOMAIN r.gaps : Len(r.pools[c]) \in Nat
    BY <1>1, <1>3, PoolsAreSequences
  <1> HIDE DEF r
  <1>6. RowsOK'
    BY <1>2, <1>3, <1>4, <1>5, RowStep DEF Inv
  <1>7. TasksOK'
    BY SameTasks DEF Inv, Find
  <1> QED BY <1>6, <1>7, SameFile DEF Inv, Find

LEMMA VerifyStep == ASSUME Inv, NEW p \in Pipeline, Verify(p) PROVE Inv' /\ Stays
  <1> DEFINE gaps == row[p].gaps
  <1>1. PICK found :
          /\ DOMAIN found = DOMAIN gaps
          /\ \A c \in DOMAIN gaps : found[c] \in Conclusions(row[p].pools[c], gaps[c])
          /\ task' = [task EXCEPT ![p] =
                        [at |-> "entering", found |-> found, left |-> Accepted(found),
                         key |-> [c \in DOMAIN gaps |-> found[c].cand.key],
                         attempts |-> 1]]
    BY DEF Verify
  <1>2. ASSUME NEW c \in Accepted(found) PROVE Vetted(found[c])
    <2>1. c \in DOMAIN gaps /\ found[c].verdict = "accept"
      BY <1>1, <1>2 DEF Accepted
    <2>2. gaps[c] \in BOOLEAN /\ Len(row[p].pools[c]) \in Nat
      BY <2>1 DEF Inv, RowsOK, Verify, Steps
    <2> QED BY <1>1, <2>1, <2>2, ConcludedIsVetted
  <1> DEFINE t == [at |-> "entering", found |-> found, left |-> Accepted(found),
                   key |-> [c \in DOMAIN gaps |-> found[c].cand.key], attempts |-> 1]
  <1>3. t.at = "entering" /\ t.found = found /\ t.left = Accepted(found)
    OBVIOUS
  <1>4. task' = [task EXCEPT ![p] = t]
    BY <1>1
  <1> HIDE DEF t
  <1>5. TaskOK(t)
    BY <1>2, <1>3 DEF TaskOK
  <1>6. TasksOK'
    BY <1>4, <1>5, TaskStep DEF Inv
  <1>7. RowsOK'
    BY SameRows DEF Inv, Verify
  <1> QED BY <1>6, <1>7, SameFile DEF Inv, Verify

LEMMA ReuseStep ==
    ASSUME Inv, NEW p \in Pipeline, NEW c, Reuse(p, c) PROVE Inv' /\ Stays
  <1> DEFINE t == task[p]
  <1>1. TaskOK(t)
    BY DEF Inv, TasksOK, Idle, Reuse
  <1>2. t.left \ {c} \subseteq Accepted(t.found)
    BY <1>1 DEF TaskOK
  <1>3. PICK key : task' = [task EXCEPT ![p] = Entering(t, t.left \ {c}, key, t.attempts)]
    BY DEF Reuse
  <1>4. TaskOK(Entering(t, t.left \ {c}, key, t.attempts))
    BY <1>1, <1>2, EnteringIsFit
  <1>5. TasksOK'
    BY <1>3, <1>4, TaskStep DEF Inv
  <1>6. RowsOK'
    BY SameRows DEF Inv, Reuse
  <1> QED BY <1>5, <1>6, SameFile DEF Inv, Reuse

LEMMA AskStep ==
    ASSUME Inv, NEW p \in Pipeline, NEW c, Ask(p, c) PROVE Inv' /\ Stays
  <1>1. TaskOK(task[p])
    BY DEF Inv, TasksOK, Idle, Ask
  <1> DEFINE t == [at |-> "asking", found |-> task[p].found, left |-> task[p].left,
                   key |-> task[p].key, attempts |-> task[p].attempts, claim |-> c,
                   view |-> bib]
  <1>2. task' = [task EXCEPT ![p] = t] /\ c \in task[p].left
    BY DEF Ask
  <1>3. TaskOK(t)
    BY <1>1, <1>2 DEF TaskOK
  <1> HIDE DEF t
  <1>4. TasksOK'
    BY <1>2, <1>3, TaskStep DEF Inv
  <1>5. RowsOK'
    BY SameRows DEF Inv, Ask
  <1> QED BY <1>4, <1>5, SameFile DEF Inv, Ask

LEMMA EnterStep == ASSUME Inv, NEW p \in Pipeline, Enter(p) PROVE Inv' /\ Stays
  <1> DEFINE t == task[p]
             cand == t.found[t.claim].cand
  <1>0. task[p].at = "asking"
    BY Zenon DEF Enter
  <1>1. TaskOK(t) /\ t.at = "asking"
    BY <1>0 DEF Inv, TasksOK, Idle
  <1>2. t.left \ {t.claim} \subseteq Accepted(t.found) /\ t.claim \in Accepted(t.found)
    BY <1>1 DEF TaskOK
  <1>3. PICK data, key :
          /\ bib' = Append(bib, NewEntry(KeysOf(t.view), cand, data, t.found[t.claim]))
          /\ task' = [task EXCEPT ![p] =
                        Entering(t, t.left \ {t.claim}, key, t.attempts)]
    BY DEF Enter
  <1>4. NewEntry(KeysOf(t.view), cand, data, t.found[t.claim]).by = t.found[t.claim]
    BY DEF NewEntry
  <1>5. Vetted(t.found[t.claim])
    BY <1>1, <1>2 DEF TaskOK
  <1> DEFINE e == NewEntry(KeysOf(t.view), cand, data, t.found[t.claim])
  <1>6. bib' = Append(bib, e) /\ Vetted(e.by)
    BY <1>3, <1>4, <1>5
  <1> HIDE DEF e
  <1>7. BibOK' /\ VettedEntries' /\ Stays
    BY <1>6, AppendStep DEF Inv, Stays
  <1>8. TaskOK(Entering(t, t.left \ {t.claim}, key, t.attempts))
    BY <1>1, <1>2, EnteringIsFit
  <1>9. TasksOK'
    BY <1>3, <1>8, TaskStep DEF Inv
  <1>10. RowsOK'
    BY SameRows DEF Inv, Enter
  <1> QED BY <1>7, <1>9, <1>10 DEF Inv

LEMMA RefuseStep == ASSUME Inv, NEW p \in Pipeline, Refuse(p) PROVE Inv' /\ Stays
  <1> DEFINE t == task[p]
  <1>1. TaskOK(t)
    BY DEF Inv, TasksOK, Idle, Refuse
  <1>2. t.left \ {t.claim} \subseteq Accepted(t.found)
    BY <1>1 DEF TaskOK
  <1>3. TaskOK(Entering(t, t.left \ {t.claim}, t.key, t.attempts))
    BY <1>1, <1>2, EnteringIsFit
  <1>4. TasksOK'
    BY <1>3, TaskStep DEF Inv, Refuse
  <1>5. RowsOK'
    BY SameRows DEF Inv, Refuse
  <1> QED BY <1>4, <1>5, SameFile DEF Inv, Refuse

LEMMA StumbleStep == ASSUME Inv, NEW p \in Pipeline, Stumble(p) PROVE Inv' /\ Stays
  <1> DEFINE t == task[p]
  <1>1. TaskOK(t)
    BY DEF Inv, TasksOK, Idle, Stumble
  <1>2. CASE t.attempts < MaxAttempts
    <2>1. TaskOK(Entering(t, Accepted(t.found), t.key, t.attempts + 1))
      BY <1>1, EnteringIsFit
    <2>2. TasksOK'
      BY <1>2, <2>1, TaskStep DEF Inv, Stumble
    <2>3. RowsOK'
      BY <1>2, SameRows DEF Inv, Stumble
    <2> QED BY <2>2, <2>3, SameFile DEF Inv, Stumble
  <1>3. CASE ~ (t.attempts < MaxAttempts)
    <2>1. TasksOK'
      BY <1>3, TaskStep DEF Inv, Stumble
    <2> DEFINE r == [row[p] EXCEPT !.state = "FAILED"]
    <2>2. row' = [row EXCEPT ![p] = r]
      BY <1>3 DEF Inv, RowsOK, Stumble
    <2>3. DOMAIN r = Fields /\ r.gaps = row[p].gaps /\ r.state = "FAILED"
      BY DEF Inv, RowsOK, Fields
    <2>4. \A c \in DOMAIN r.gaps : r.gaps[c] \in BOOLEAN
      BY <2>3 DEF Inv, RowsOK
    <2> HIDE DEF r
    <2>5. RowsOK'
      BY <2>2, <2>3, <2>4, RowStep DEF Inv
    <2> QED BY <2>1, <2>5, SameFile DEF Inv, Stumble
  <1> QED BY <1>2, <1>3

LEMMA ConcludeStep == ASSUME Inv, NEW p \in Pipeline, Conclude(p) PROVE Inv' /\ Stays
  <1> DEFINE t == task[p]
             done == [row[p] EXCEPT !.gaps = <<>>, !.pools = <<>>]
  <1>1. DOMAIN done = Fields /\ done.gaps = <<>>
    BY DEF Inv, RowsOK, Fields
  <1>2. PICK r :
          /\ row' = [row EXCEPT ![p] = r]
          /\ DOMAIN r = Fields
          /\ r.gaps = <<>>
    <2>1. CASE DOMAIN t.found \ Accepted(t.found) # {} /\ Unsourced(t) # {}
      <3>1. PICK first :
              row' = [row EXCEPT ![p] =
                [done EXCEPT
                   !.state = Landing("CITATION_FIND", "DRAFTED", row[p].revisions),
                   !.revisions = RevisionsAfter("CITATION_FIND", "DRAFTED", @),
                   !.unsupported = [c \in Unsourced(t) |-> first]]]
        BY <2>1, Zenon DEF Conclude
      <3> HIDE DEF done
      <3> DEFINE r == [done EXCEPT
                   !.state = Landing("CITATION_FIND", "DRAFTED", row[p].revisions),
                   !.revisions = RevisionsAfter("CITATION_FIND", "DRAFTED", @),
                   !.unsupported = [c \in Unsourced(t) |-> first]]
      <3>2. DOMAIN r = Fields /\ r.gaps = <<>>
        BY <1>1 DEF Fields
      <3> QED BY <3>1, <3>2
    <2>2. CASE ~ (DOMAIN t.found \ Accepted(t.found) # {} /\ Unsourced(t) # {})
      <3>1. row' = [row EXCEPT ![p] =
                [done EXCEPT !.state = "CITATION_VERIFY",
                             !.settled = t.found, !.cited = t.key]]
        BY <2>2, Zenon DEF Conclude
      <3> HIDE DEF done
      <3> DEFINE r == [done EXCEPT !.state = "CITATION_VERIFY",
                                   !.settled = t.found, !.cited = t.key]
      <3>2. DOMAIN r = Fields /\ r.gaps = <<>>
        BY <1>1 DEF Fields
      <3> QED BY <3>1, <3>2
    <2> QED BY <2>1, <2>2
  <1>3. DOMAIN r.gaps = {}
    BY <1>2
  <1>4. RowsOK'
    BY <1>2, <1>3, RowStep DEF Inv
  <1>5. task' = [task EXCEPT ![p] = Idle] /\ UNCHANGED bib
    BY DEF Conclude
  <1>6. TasksOK'
    BY <1>5, TaskStep DEF Inv
  <1> QED BY <1>4, <1>5, <1>6, SameFile DEF Inv

LEMMA RedraftStep == ASSUME Inv, NEW p \in Pipeline, Redraft(p) PROVE Inv' /\ Stays
  <1>1. PICK kept :
          row' = [row EXCEPT ![p].state = "TECHNICAL_VERIFY", ![p].draft = kept,
                             ![p].unsupported = <<>>]
    BY DEF Redraft
  <1> DEFINE r == [row[p] EXCEPT !.state = "TECHNICAL_VERIFY", !.draft = kept,
                                 !.unsupported = <<>>]
  <1>2. row' = [row EXCEPT ![p] = r]
    BY <1>1 DEF Inv, RowsOK
  <1>3. DOMAIN r = Fields /\ r.gaps = row[p].gaps /\ r.state = "TECHNICAL_VERIFY"
    BY DEF Inv, RowsOK, Fields
  <1>4. \A c \in DOMAIN r.gaps : r.gaps[c] \in BOOLEAN
    BY <1>3 DEF Inv, RowsOK
  <1> HIDE DEF r
  <1>5. RowsOK'
    BY <1>2, <1>3, <1>4, RowStep DEF Inv
  <1>6. TasksOK'
    BY SameTasks DEF Inv, Redraft
  <1> QED BY <1>5, <1>6, SameFile DEF Inv, Redraft

LEMMA CrashStep == ASSUME Inv, Crash PROVE Inv' /\ Stays
  <1>1. TasksOK'
    BY DEF Crash, TasksOK
  <1>2. RowsOK'
    BY SameRows DEF Inv, Crash
  <1> QED BY <1>1, <1>2, SameFile DEF Inv, Crash

LEMMA NextInv == ASSUME Inv, [Next]_vars PROVE Inv' /\ Stays
  <1>1. CASE UNCHANGED vars
    BY <1>1, SameFile, SameRows, SameTasks DEF vars, Inv
  <1>2. CASE Crash
    BY <1>2, CrashStep
  <1>3. ASSUME NEW p \in Pipeline,
               \/ Audit(p) \/ Find(p) \/ Verify(p) \/ Enter(p) \/ Refuse(p)
               \/ Stumble(p) \/ Conclude(p) \/ Redraft(p)
               \/ \E c \in Claim : Reuse(p, c) \/ Ask(p, c)
        PROVE  Inv' /\ Stays
    BY <1>3, AuditStep, FindStep, VerifyStep, EnterStep, RefuseStep, StumbleStep,
       ConcludeStep, RedraftStep, ReuseStep, AskStep
  <1> QED BY <1>1, <1>2, <1>3 DEF Next

-----------------------------------------------------------------------------
(* Types *)

\* What TypeOK says of one pipeline; and who is over the limit waits for a human.
RowTyped(r) ==
    /\ r.state \in State
    /\ r.state # "NEEDS_HUMAN" => r.revisions <= MaxRevisions
    /\ r.revisions \in 0 .. MaxRevisions + 1
    /\ r.draft \subseteq Claim
    /\ r.state \in {"CITATION_AUDIT", "CITATION_FIND"} => r.gaps # <<>>
    /\ r.state = "CITATION_FIND" => DOMAIN r.pools = DOMAIN r.gaps

TaskTyped(t, r) ==
    t # Idle =>
        /\ r.state = "CITATION_FIND"
        /\ DOMAIN t.found = DOMAIN r.gaps
        /\ DOMAIN t.key = DOMAIN r.gaps
        /\ t.left \subseteq Accepted(t.found)
        /\ t.at = "asking" => t.claim \in t.left

PairTyped(t, r) == RowTyped(r) /\ TaskTyped(t, r)

Typed ==
    /\ \A p \in Pipeline : PairTyped(task[p], row[p])
    /\ Len(bib) >= Len(Authored)
    /\ crashes \in 0 .. MaxCrashes

LEMMA TypedImpliesTypeOK == Typed => TypeOK
  BY DEF Typed, TypeOK, PairTyped, RowTyped, TaskTyped

LEMMA InitTypes == Init => Typed
  <1> SUFFICES ASSUME Init PROVE Typed
    OBVIOUS
  <1>1. PICK case \in Cases :
          row = [p \in Pipeline |->
                   [state |-> "TECHNICAL_VERIFY", revisions |-> 0,
                    draft |-> case.draft[p], gaps |-> <<>>, pools |-> <<>>,
                    settled |-> <<>>, cited |-> <<>>, unsupported |-> <<>>]]
    BY DEF Init
  <1>2. ASSUME NEW p \in Pipeline PROVE PairTyped(task[p], row[p])
    <2>1. case.draft \in [Pipeline -> SUBSET Claim]
      BY <1>1, CitationAssumption
    <2>2. row[p].draft \subseteq Claim
      BY <1>1, <2>1
    <2>3. row[p].state = "TECHNICAL_VERIFY" /\ row[p].revisions = 0
      BY <1>1
    <2>4. RowTyped(row[p])
      BY <2>2, <2>3, MaxRevisionsAssumption DEF RowTyped, State, OnPath
    <2>5. TaskTyped(task[p], row[p])
      BY DEF Init, TaskTyped
    <2> QED BY <2>4, <2>5 DEF PairTyped
  <1>3. Len(bib) >= Len(Authored)
    <2>1. Len(Authored) \in Nat
      BY CitationAssumption, LenProperties
    <2> QED BY <2>1 DEF Init
  <1>4. crashes \in 0 .. MaxCrashes
    BY CitationAssumption DEF Init
  <1> QED BY <1>2, <1>3, <1>4 DEF Typed

\* A step of p's handler that leaves the file alone, or appends to it.
LEMMA PairStep ==
    ASSUME Typed, NEW p \in Pipeline, NEW t, NEW r, PairTyped(t, r),
           \A q \in Pipeline : task'[q] = IF q = p THEN t ELSE task[q],
           \A q \in Pipeline : row'[q] = IF q = p THEN r ELSE row[q],
           Len(bib') >= Len(Authored), UNCHANGED crashes
    PROVE  Typed'
  <1>1. ASSUME NEW q \in Pipeline PROVE PairTyped(task'[q], row'[q])
    BY DEF Typed
  <1> QED BY <1>1 DEF Typed, PairTyped, RowTyped, TaskTyped, Accepted, Idle

\* The same for steps that only change the row, or only the task.
LEMMA RowOnlyStep ==
    ASSUME Inv, Typed, NEW p \in Pipeline, NEW r, row' = [row EXCEPT ![p] = r],
           task[p] = Idle, RowTyped(r), UNCHANGED <<task, bib, crashes>>
    PROVE  Typed'
  <1>1. \A q \in Pipeline : task'[q] = IF q = p THEN Idle ELSE task[q]
    OBVIOUS
  <1>2. \A q \in Pipeline : row'[q] = IF q = p THEN r ELSE row[q]
    BY DEF Inv, RowsOK
  <1>3. PairTyped(Idle, r)
    BY DEF PairTyped, TaskTyped
  <1>4. Len(bib') >= Len(Authored)
    BY DEF Typed
  <1> QED BY <1>1, <1>2, <1>3, <1>4, PairStep

LEMMA TaskOnlyStep ==
    ASSUME Inv, Typed, NEW p \in Pipeline, NEW t, task' = [task EXCEPT ![p] = t],
           TaskTyped(t, row[p]), Len(bib') >= Len(Authored), UNCHANGED <<row, crashes>>
    PROVE  Typed'
  <1>1. \A q \in Pipeline : task'[q] = IF q = p THEN t ELSE task[q]
    BY DEF Inv, TasksOK
  <1>2. \A q \in Pipeline : row'[q] = IF q = p THEN row[p] ELSE row[q]
    OBVIOUS
  <1>3. PairTyped(t, row[p])
    BY DEF Typed, PairTyped
  <1> QED BY <1>1, <1>2, <1>3, PairStep

\* The next verification of a task: claims and keys of its gaps.
LEMMA EnteringIsTyped ==
    ASSUME NEW t, NEW r, TaskTyped(t, r), t # Idle, NEW left,
           left \subseteq Accepted(t.found), NEW key, DOMAIN key = DOMAIN t.key,
           NEW attempts
    PROVE  TaskTyped(Entering(t, left, key, attempts), r)
  BY DEF TaskTyped, Entering, Accepted

LEMMA AuditTypes == ASSUME Inv, Typed, NEW p \in Pipeline, Audit(p) PROVE Typed'
  <1>1. PICK found \in SUBSET row[p].draft, declared \in SUBSET row[p].draft :
          /\ found \cup declared # {}
          /\ row' = [row EXCEPT ![p].state = "CITATION_AUDIT",
                                ![p].gaps = [c \in found \cup declared |->
                                                c \in found /\ c \in Strict]]
    BY DEF Audit
  <1> DEFINE r == [row[p] EXCEPT !.state = "CITATION_AUDIT",
                                 !.gaps = [c \in found \cup declared |->
                                              c \in found /\ c \in Strict]]
  <1>2. row' = [row EXCEPT ![p] = r]
    BY <1>1 DEF Inv, RowsOK
  <1>3. /\ r.state = "CITATION_AUDIT"
        /\ r.gaps = [c \in found \cup declared |-> c \in found /\ c \in Strict]
        /\ r.revisions = row[p].revisions
        /\ r.draft = row[p].draft
    BY DEF Inv, RowsOK, Fields
  <1>4. DOMAIN r.gaps = found \cup declared
    BY <1>3
  <1> HIDE DEF r
  <1>5. r.gaps # <<>>
    BY <1>1, <1>4
  <1>6. RowTyped(row[p]) /\ row[p].state = "TECHNICAL_VERIFY"
    BY DEF Typed, PairTyped, Audit, Steps
  <1>7. RowTyped(r)
    BY <1>3, <1>5, <1>6 DEF RowTyped, State, OnPath
  <1> QED BY <1>2, <1>7, RowOnlyStep DEF Audit, Steps

LEMMA FindTypes == ASSUME Inv, Typed, NEW p \in Pipeline, Find(p) PROVE Typed'
  <1>1. PICK pools :
          /\ DOMAIN pools = DOMAIN row[p].gaps
          /\ row' = [row EXCEPT ![p].state = "CITATION_FIND", ![p].pools = pools]
    BY DEF Find
  <1> DEFINE r == [row[p] EXCEPT !.state = "CITATION_FIND", !.pools = pools]
  <1>2. row' = [row EXCEPT ![p] = r]
    BY <1>1 DEF Inv, RowsOK
  <1>3. /\ r.state = "CITATION_FIND"
        /\ r.gaps = row[p].gaps
        /\ r.pools = pools
        /\ r.revisions = row[p].revisions
        /\ r.draft = row[p].draft
    BY DEF Inv, RowsOK, Fields
  <1> HIDE DEF r
  <1>4. RowTyped(row[p]) /\ row[p].state = "CITATION_AUDIT"
    BY DEF Typed, PairTyped, Find, Steps
  <1>5. RowTyped(r)
    BY <1>1, <1>3, <1>4 DEF RowTyped, State, OnPath
  <1> QED BY <1>2, <1>5, RowOnlyStep DEF Find, Steps

LEMMA VerifyTypes == ASSUME Inv, Typed, NEW p \in Pipeline, Verify(p) PROVE Typed'
  <1> DEFINE gaps == row[p].gaps
  <1>1. PICK found :
          /\ DOMAIN found = DOMAIN gaps
          /\ task' = [task EXCEPT ![p] =
                        [at |-> "entering", found |-> found, left |-> Accepted(found),
                         key |-> [c \in DOMAIN gaps |-> found[c].cand.key],
                         attempts |-> 1]]
    BY DEF Verify
  <1> DEFINE t == [at |-> "entering", found |-> found, left |-> Accepted(found),
                   key |-> [c \in DOMAIN gaps |-> found[c].cand.key], attempts |-> 1]
  <1>2. /\ t.at = "entering" /\ t.found = found /\ t.left = Accepted(found)
        /\ DOMAIN t.key = DOMAIN gaps
    OBVIOUS
  <1>3. task' = [task EXCEPT ![p] = t]
    BY <1>1
  <1> HIDE DEF t
  <1>4. TaskTyped(t, row[p])
    BY <1>1, <1>2 DEF TaskTyped, Verify, Steps
  <1> QED BY <1>3, <1>4, TaskOnlyStep DEF Typed, Verify

LEMMA ReuseTypes ==
    ASSUME Inv, Typed, NEW p \in Pipeline, NEW c, Reuse(p, c) PROVE Typed'
  <1> DEFINE t == task[p]
             key == [t.key EXCEPT ![c] = Found(bib, t.found[c].cand)]
  <1>1. TaskTyped(t, row[p]) /\ t # Idle
    BY DEF Typed, PairTyped, Reuse, Idle
  <1>2. task' = [task EXCEPT ![p] = Entering(t, t.left \ {c}, key, t.attempts)]
    BY DEF Reuse
  <1>3. t.left \ {c} \subseteq Accepted(t.found) /\ DOMAIN key = DOMAIN t.key
    BY <1>1 DEF TaskTyped
  <1> HIDE DEF key
  <1>4. TaskTyped(Entering(t, t.left \ {c}, key, t.attempts), row[p])
    BY <1>1, <1>3, EnteringIsTyped
  <1> QED BY <1>2, <1>4, TaskOnlyStep DEF Typed, Reuse

LEMMA AskTypes ==
    ASSUME Inv, Typed, NEW p \in Pipeline, NEW c, Ask(p, c) PROVE Typed'
  <1>1. TaskTyped(task[p], row[p]) /\ task[p] # Idle
    BY DEF Typed, PairTyped, Ask, Idle
  <1> DEFINE t == [at |-> "asking", found |-> task[p].found, left |-> task[p].left,
                   key |-> task[p].key, attempts |-> task[p].attempts, claim |-> c,
                   view |-> bib]
  <1>2. task' = [task EXCEPT ![p] = t] /\ c \in task[p].left
    BY DEF Ask
  <1>3. TaskTyped(t, row[p])
    BY <1>1, <1>2 DEF TaskTyped
  <1> HIDE DEF t
  <1> QED BY <1>2, <1>3, TaskOnlyStep DEF Typed, Ask

LEMMA EnterTypes == ASSUME Inv, Typed, NEW p \in Pipeline, Enter(p) PROVE Typed'
  <1> DEFINE t == task[p]
             cand == t.found[t.claim].cand
  <1>1. t.at = "asking"
    BY Zenon DEF Enter
  <1>2. TaskTyped(t, row[p]) /\ t # Idle
    BY <1>1 DEF Typed, PairTyped, Idle
  <1>3. PICK entry, key :
          /\ bib' = Append(bib, entry)
          /\ DOMAIN key = DOMAIN t.key
          /\ task' = [task EXCEPT ![p] =
                        Entering(t, t.left \ {t.claim}, key, t.attempts)]
    BY DEF Enter
  <1>4. t.left \ {t.claim} \subseteq Accepted(t.found)
    BY <1>2 DEF TaskTyped
  <1>5. TaskTyped(Entering(t, t.left \ {t.claim}, key, t.attempts), row[p])
    BY <1>2, <1>3, <1>4, EnteringIsTyped
  <1>6. Len(bib') >= Len(Authored)
    <2>1. PICK S : bib \in Seq(S)
      BY DEF Inv, BibOK
    <2>2. Len(bib') = Len(bib) + 1
      <3>1. bib \in Seq(S \cup {entry})
        BY <2>1, SeqMonotonic
      <3> QED BY <1>3, <3>1, AppendProperties
    <2>3. Len(bib) \in Nat /\ Len(Authored) \in Nat
      BY <2>1, CitationAssumption, LenProperties
    <2>4. Len(bib) >= Len(Authored)
      BY DEF Typed
    <2> QED BY <2>2, <2>3, <2>4
  <1> QED BY <1>3, <1>5, <1>6, TaskOnlyStep DEF Enter

LEMMA RefuseTypes == ASSUME Inv, Typed, NEW p \in Pipeline, Refuse(p) PROVE Typed'
  <1> DEFINE t == task[p]
  <1>1. TaskTyped(t, row[p]) /\ t # Idle
    BY DEF Typed, PairTyped, Refuse, Idle
  <1>2. t.left \ {t.claim} \subseteq Accepted(t.found)
    BY <1>1 DEF TaskTyped
  <1>3. TaskTyped(Entering(t, t.left \ {t.claim}, t.key, t.attempts), row[p])
    BY <1>1, <1>2, EnteringIsTyped
  <1> QED BY <1>3, TaskOnlyStep DEF Typed, Refuse

LEMMA StumbleTypes == ASSUME Inv, Typed, NEW p \in Pipeline, Stumble(p) PROVE Typed'
  <1> DEFINE t == task[p]
  <1>1. PairTyped(t, row[p]) /\ t # Idle
    BY DEF Typed, Stumble, Idle
  <1>2. CASE t.attempts < MaxAttempts
    <2>1. TaskTyped(Entering(t, Accepted(t.found), t.key, t.attempts + 1), row[p])
      BY <1>1, EnteringIsTyped DEF PairTyped
    <2> QED BY <1>2, <2>1, TaskOnlyStep DEF Typed, Stumble
  <1>3. CASE ~ (t.attempts < MaxAttempts)
    <2> DEFINE r == [row[p] EXCEPT !.state = "FAILED"]
    <2>1. row' = [row EXCEPT ![p] = r]
      BY <1>3 DEF Inv, RowsOK, Stumble
    <2>2. r.state = "FAILED" /\ r.revisions = row[p].revisions /\ r.draft = row[p].draft
      BY DEF Inv, RowsOK, Fields
    <2> HIDE DEF r
    <2>3. PairTyped(Idle, r)
      BY <1>1, <2>2 DEF PairTyped, RowTyped, TaskTyped, State
    <2>4. Len(bib') >= Len(Authored)
      BY DEF Typed, Stumble
    <2>5. \A q \in Pipeline : row'[q] = IF q = p THEN r ELSE row[q]
      BY <2>1 DEF Inv, RowsOK
    <2>6. \A q \in Pipeline : task'[q] = IF q = p THEN Idle ELSE task[q]
      BY <1>3 DEF Inv, TasksOK, Stumble
    <2> QED BY <2>3, <2>4, <2>5, <2>6, PairStep DEF Stumble
  <1> QED BY <1>2, <1>3

\* Where a refused draft goes, and how its revisions are counted.
LEMMA SentBack ==
    ASSUME NEW n \in 0 .. MaxRevisions
    PROVE  /\ Landing("CITATION_FIND", "DRAFTED", n) \in {"DRAFTED", "NEEDS_HUMAN"}
           /\ Landing("CITATION_FIND", "DRAFTED", n) = "DRAFTED" => n + 1 <= MaxRevisions
           /\ RevisionsAfter("CITATION_FIND", "DRAFTED", n) = n + 1
  BY MaxRevisionsAssumption DEF Landing, RevisionsAfter, BackwardEdges

LEMMA ConcludeTypes == ASSUME Inv, Typed, NEW p \in Pipeline, Conclude(p) PROVE Typed'
  <1> DEFINE t == task[p]
             done == [row[p] EXCEPT !.gaps = <<>>, !.pools = <<>>]
             n == row[p].revisions
  <1>1. PairTyped(t, row[p]) /\ t # Idle
    BY DEF Typed, Conclude, Idle
  <1>2. /\ row[p].state = "CITATION_FIND"
        /\ n \in 0 .. MaxRevisions
        /\ row[p].draft \subseteq Claim
    BY <1>1, MaxRevisionsAssumption DEF PairTyped, TaskTyped, RowTyped
  <1>3. /\ DOMAIN done = Fields
        /\ done.revisions = n
        /\ done.draft = row[p].draft
    BY DEF Inv, RowsOK, Fields
  <1>4. \E r : row' = [row EXCEPT ![p] = r] /\ RowTyped(r)
    <2>1. CASE DOMAIN t.found \ Accepted(t.found) # {} /\ Unsourced(t) # {}
      <3>1. PICK first :
              row' = [row EXCEPT ![p] =
                [done EXCEPT
                   !.state = Landing("CITATION_FIND", "DRAFTED", row[p].revisions),
                   !.revisions = RevisionsAfter("CITATION_FIND", "DRAFTED", @),
                   !.unsupported = [c \in Unsourced(t) |-> first]]]
        BY <2>1, Zenon DEF Conclude
      <3> HIDE DEF done
      <3> DEFINE r == [done EXCEPT
                   !.state = Landing("CITATION_FIND", "DRAFTED", row[p].revisions),
                   !.revisions = RevisionsAfter("CITATION_FIND", "DRAFTED", @),
                   !.unsupported = [c \in Unsourced(t) |-> first]]
      <3>2. /\ r.state = Landing("CITATION_FIND", "DRAFTED", n)
            /\ r.revisions = RevisionsAfter("CITATION_FIND", "DRAFTED", n)
            /\ r.draft = row[p].draft
        BY <1>3 DEF Fields
      <3> HIDE DEF r
      <3>3. RowTyped(r)
        <4>1. r.revisions = n + 1 /\ n + 1 \in 0 .. MaxRevisions + 1
          BY <1>2, <3>2, SentBack, MaxRevisionsAssumption
        <4>2. /\ r.state \in {"DRAFTED", "NEEDS_HUMAN"}
              /\ r.state = "DRAFTED" => n + 1 <= MaxRevisions
          BY <1>2, <3>2, SentBack
        <4> QED BY <1>2, <3>2, <4>1, <4>2 DEF RowTyped, State, OnPath
      <3>4. row' = [row EXCEPT ![p] = r]
        BY <3>1 DEF r
      <3> QED BY <3>3, <3>4
    <2>2. CASE ~ (DOMAIN t.found \ Accepted(t.found) # {} /\ Unsourced(t) # {})
      <3>1. row' = [row EXCEPT ![p] =
                [done EXCEPT !.state = "CITATION_VERIFY",
                             !.settled = t.found, !.cited = t.key]]
        BY <2>2, Zenon DEF Conclude
      <3> HIDE DEF done
      <3> DEFINE r == [done EXCEPT !.state = "CITATION_VERIFY",
                                   !.settled = t.found, !.cited = t.key]
      <3>2. /\ r.state = "CITATION_VERIFY"
            /\ r.revisions = n
            /\ r.draft = row[p].draft
        BY <1>3 DEF Fields
      <3> HIDE DEF r
      <3>3. RowTyped(r)
        BY <1>2, <3>2, MaxRevisionsAssumption DEF RowTyped, State, OnPath
      <3>4. row' = [row EXCEPT ![p] = r]
        BY <3>1 DEF r
      <3> QED BY <3>3, <3>4
    <2> QED BY <2>1, <2>2
  <1>5. PICK r : row' = [row EXCEPT ![p] = r] /\ RowTyped(r)
    BY <1>4
  <1>6. \A q \in Pipeline : row'[q] = IF q = p THEN r ELSE row[q]
    BY <1>5 DEF Inv, RowsOK
  <1>7. \A q \in Pipeline : task'[q] = IF q = p THEN Idle ELSE task[q]
    BY DEF Inv, TasksOK, Conclude
  <1>8. PairTyped(Idle, r) /\ Len(bib') >= Len(Authored)
    BY <1>5 DEF Typed, PairTyped, TaskTyped, Conclude
  <1> QED BY <1>6, <1>7, <1>8, PairStep DEF Conclude

LEMMA RedraftTypes == ASSUME Inv, Typed, NEW p \in Pipeline, Redraft(p) PROVE Typed'
  <1>1. PICK kept \in SUBSET row[p].draft :
          row' = [row EXCEPT ![p].state = "TECHNICAL_VERIFY", ![p].draft = kept,
                             ![p].unsupported = <<>>]
    BY DEF Redraft
  <1> DEFINE r == [row[p] EXCEPT !.state = "TECHNICAL_VERIFY", !.draft = kept,
                                 !.unsupported = <<>>]
  <1>2. row' = [row EXCEPT ![p] = r]
    BY <1>1 DEF Inv, RowsOK
  <1>3. /\ r.state = "TECHNICAL_VERIFY" /\ r.draft = kept
        /\ r.revisions = row[p].revisions
    BY DEF Inv, RowsOK, Fields
  <1> HIDE DEF r
  <1>4. RowTyped(row[p]) /\ row[p].state = "DRAFTED"
    BY DEF Typed, PairTyped, Redraft, Steps
  <1>5. RowTyped(r)
    BY <1>3, <1>4 DEF RowTyped, State, OnPath
  <1> QED BY <1>2, <1>5, RowOnlyStep DEF Redraft, Steps

LEMMA CrashTypes == ASSUME Typed, Crash PROVE Typed'
  <1>1. crashes' \in 0 .. MaxCrashes
    BY CitationAssumption DEF Crash, Typed
  <1>2. ASSUME NEW q \in Pipeline PROVE PairTyped(task'[q], row'[q])
    BY DEF Crash, Typed, PairTyped, TaskTyped
  <1>3. Len(bib') >= Len(Authored)
    BY DEF Crash, Typed
  <1> QED BY <1>1, <1>2, <1>3 DEF Typed, PairTyped, RowTyped, TaskTyped, Accepted, Idle

LEMMA NextTypes == ASSUME Inv, Typed, [Next]_vars PROVE Typed'
  <1>1. CASE UNCHANGED vars
    BY <1>1 DEF vars, Typed, PairTyped, RowTyped, TaskTyped, Accepted, Idle
  <1>2. CASE Crash
    BY <1>2, CrashTypes
  <1>3. ASSUME NEW p \in Pipeline,
               \/ Audit(p) \/ Find(p) \/ Verify(p) \/ Enter(p) \/ Refuse(p)
               \/ Stumble(p) \/ Conclude(p) \/ Redraft(p)
               \/ \E c \in Claim : Reuse(p, c) \/ Ask(p, c)
        PROVE  Typed'
    BY <1>3, AuditTypes, FindTypes, VerifyTypes, EnterTypes, RefuseTypes, StumbleTypes,
       ConcludeTypes, RedraftTypes, ReuseTypes, AskTypes
  <1> QED BY <1>1, <1>2, <1>3 DEF Next

-----------------------------------------------------------------------------
(* Keys *)

\* Among one more number than there are keys, one is free: suggest_key's loop ends,
\* with a key the file does not have.
LEMMA SuggestedIsNew ==
    ASSUME NEW keys, IsFiniteSet(keys), NEW title
    PROVE  Suggested(keys, title) \notin keys
  <1> DEFINE N == Cardinality(keys) + 1
             K(n) == <<Stem[title], n>>
             Free == {n \in 1 .. N : K(n) \notin keys}
  <1>1. Cardinality(keys) \in Nat /\ N \in Nat /\ N >= 1
    BY FS_CardinalityType
  <1>2. Free # {}
    <2> SUFFICES ASSUME Free = {} PROVE FALSE
      OBVIOUS
    <2> DEFINE f == [n \in 1 .. N |-> K(n)]
    <2>1. f \in [1 .. N -> keys]
      OBVIOUS
    <2>2. \A m, n \in 1 .. N : f[m] = f[n] => m = n
      OBVIOUS
    <2>3. f \in Injection(1 .. N, keys)
      BY <2>1, <2>2 DEF Injection, IsInjective
    <2> HIDE DEF f, N
    <2>4. Cardinality(1 .. N) <= Cardinality(keys)
      BY <2>3, FS_Injection
    <2>5. Cardinality(1 .. N) = N
      BY <1>1, FS_Interval
    <2> QED BY <1>1, <2>4, <2>5 DEF N
  <1>3. Free \subseteq Nat
    BY <1>1
  <1> HIDE DEF Free
  <1>4. PICK n \in Free : \A m \in Free : n <= m
    BY <1>2, <1>3, SmallestOf, Zenon
  <1>5. n \in 1 .. N /\ K(n) \notin keys
    BY <1>4 DEF Free
  <1>6. ASSUME NEW m \in 1 .. n - 1 PROVE K(m) \in keys
    <2>1. m \in 1 .. N /\ ~ (n <= m)
      BY <1>1, <1>5
    <2>2. m \notin Free
      BY <1>4, <2>1
    <2> QED BY <2>1, <2>2 DEF Free
  <1>7. \E k \in 1 .. N : K(k) \notin keys /\ \A m \in 1 .. k - 1 : K(m) \in keys
    BY <1>5, <1>6
  <1> QED BY <1>7 DEF Suggested

LEMMA FileKeysAreFinite == ASSUME BibOK PROVE IsFiniteSet(KeysOf(bib))
  <1>1. PICK S : bib \in Seq(S)
    BY DEF BibOK
  <1>2. DOMAIN bib = 1 .. Len(bib) /\ Len(bib) \in Nat
    BY <1>1, LenProperties
  <1> DEFINE f == [i \in DOMAIN bib |-> bib[i].key]
  <1>3. f \in Surjection(DOMAIN bib, KeysOf(bib))
    BY DEF Surjection, KeysOf
  <1>4. IsFiniteSet(DOMAIN bib)
    BY <1>2, FS_Interval
  <1> HIDE DEF f
  <1> QED BY <1>3, <1>4, FS_Surjection

\* Without overlap: one task at a time, and what it has read of the file is the file.
OneTask == \A p, q \in Pipeline : task[p] # Idle /\ task[q] # Idle => p = q

ViewsAreCurrent == \A p \in Pipeline : task[p].at = "asking" => task[p].view = bib

Keyed == ~ overlap => OneTask /\ ViewsAreCurrent /\ KeysAreUnique

LEMMA InitKeys == AuthorKeepsKeysApart => (Init => Keyed)
  BY DEF AuthorKeepsKeysApart, Init, Keyed, OneTask, ViewsAreCurrent, KeysAreUnique, Idle

\* A step that leaves the file alone, in the only task there is.
LEMMA OwnStep ==
    ASSUME TasksOK, Keyed, NEW p \in Pipeline, NEW t, task' = [task EXCEPT ![p] = t],
           ~ overlap => \A q \in Pipeline : q # p => task[q] = Idle,
           t.at = "asking" => t.view = bib, UNCHANGED <<bib, overlap>>
    PROVE  Keyed'
  <1>1. \A q \in Pipeline : task'[q] = IF q = p THEN t ELSE task[q]
    BY DEF TasksOK
  <1> QED BY <1>1 DEF Keyed, OneTask, ViewsAreCurrent, KeysAreUnique, Idle

\* Steps of a task there is, and steps that begin one.
LEMMA OtherTasksAreIdle ==
    ASSUME Keyed, NEW p \in Pipeline, task[p] # Idle
    PROVE  ~ overlap => \A q \in Pipeline : q # p => task[q] = Idle
  BY DEF Keyed, OneTask

LEMMA SameKeys ==
    ASSUME Keyed, UNCHANGED <<task, bib, overlap>> PROVE Keyed'
  BY DEF Keyed, OneTask, ViewsAreCurrent, KeysAreUnique

LEMMA VerifyKeys == ASSUME Inv, Keyed, NEW p \in Pipeline, Verify(p) PROVE Keyed'
  <1>1. PICK found :
          task' = [task EXCEPT ![p] =
                        [at |-> "entering", found |-> found, left |-> Accepted(found),
                         key |-> [c \in DOMAIN row[p].gaps |-> found[c].cand.key],
                         attempts |-> 1]]
    BY DEF Verify
  <1>2. ~ overlap => \A q \in Pipeline : q # p => task[q] = Idle
    BY DEF Verify, Steps
  <1> QED BY <1>1, <1>2, OwnStep DEF Inv, Verify

LEMMA EnterKeys == ASSUME Inv, Keyed, NEW p \in Pipeline, Enter(p) PROVE Keyed'
  <1> DEFINE t == task[p]
             cand == t.found[t.claim].cand
  <1>1. t.at = "asking"
    BY Zenon DEF Enter
  <1>2. PICK data, key :
          /\ bib' = Append(bib, NewEntry(KeysOf(t.view), cand, data, t.found[t.claim]))
          /\ task' = [task EXCEPT ![p] =
                        Entering(t, t.left \ {t.claim}, key, t.attempts)]
          /\ overlap' = overlap
    BY DEF Enter
  <1> DEFINE u == Entering(t, t.left \ {t.claim}, key, t.attempts)
             e == NewEntry(KeysOf(t.view), cand, data, t.found[t.claim])
  <1>3. u.at = "entering"
    BY DEF Entering
  <1>4. \E title : e.key = Suggested(KeysOf(t.view), title)
    BY DEF NewEntry
  <1> HIDE DEF u, e
  <1>5. SUFFICES ASSUME ~ overlap PROVE OneTask' /\ ViewsAreCurrent' /\ KeysAreUnique'
    BY <1>2 DEF Keyed
  <1>6. \A q \in Pipeline : task'[q] = IF q = p THEN u ELSE task[q]
    BY <1>2 DEF Inv, TasksOK, u
  <1>7. \A q \in Pipeline : q # p => task[q] = Idle
    BY <1>1, <1>5, OtherTasksAreIdle DEF Idle
  <1>8. OneTask' /\ ViewsAreCurrent'
    BY <1>3, <1>6, <1>7 DEF OneTask, ViewsAreCurrent, Idle
  <1>9. e.key \notin KeysOf(bib)
    <2>1. t.view = bib
      BY <1>1, <1>5 DEF Keyed, ViewsAreCurrent
    <2> QED BY <1>4, <2>1, FileKeysAreFinite, SuggestedIsNew DEF Inv
  <1>10. KeysAreUnique'
    <2>1. PICK S : bib \in Seq(S)
      BY DEF Inv, BibOK
    <2>2. bib \in Seq(S \cup {e})
      BY <2>1, SeqMonotonic
    <2>3. bib' = Append(bib, e)
      BY <1>2 DEF e
    <2>4. /\ bib' \in Seq(S \cup {e})
          /\ Len(bib') = Len(bib) + 1
          /\ \A i \in 1 .. Len(bib) : bib'[i] = bib[i]
          /\ bib'[Len(bib) + 1] = e
      BY <2>2, <2>3, AppendProperties
    <2>5. Len(bib) \in Nat /\ DOMAIN bib = 1 .. Len(bib) /\ DOMAIN bib' = 1 .. Len(bib) + 1
      BY <2>2, <2>4, LenProperties
    <2>6. \A i \in DOMAIN bib : bib'[i].key # e.key
      BY <1>9, <2>4, <2>5 DEF KeysOf
    <2>7. \A i, j \in DOMAIN bib : bib[i].key = bib[j].key => i = j
      BY <1>5 DEF Keyed, KeysAreUnique
    <2>8. ASSUME NEW i \in DOMAIN bib', NEW j \in DOMAIN bib', bib'[i].key = bib'[j].key
          PROVE  i = j
      <3>1. CASE i \in DOMAIN bib /\ j \in DOMAIN bib
        BY <2>4, <2>5, <2>7, <2>8, <3>1
      <3>2. CASE i \in DOMAIN bib /\ j \notin DOMAIN bib
        <4>1. bib'[j] = e
          BY <2>4, <2>5, <3>2
        <4> QED BY <2>6, <2>8, <3>2, <4>1
      <3>3. CASE i \notin DOMAIN bib /\ j \in DOMAIN bib
        <4>1. bib'[i] = e
          BY <2>4, <2>5, <3>3
        <4> QED BY <2>6, <2>8, <3>3, <4>1
      <3>4. CASE i \notin DOMAIN bib /\ j \notin DOMAIN bib
        BY <2>5, <3>4
      <3> QED BY <3>1, <3>2, <3>3, <3>4
    <2> QED BY <2>8 DEF KeysAreUnique
  <1> QED BY <1>8, <1>10

\* The other steps of a task.
LEMMA TaskIsReplaced ==
    ASSUME NEW p \in Pipeline, NEW c,
           Reuse(p, c) \/ Ask(p, c) \/ Refuse(p) \/ Stumble(p) \/ Conclude(p)
    PROVE  /\ \E t : task' = [task EXCEPT ![p] = t] /\ (t.at = "asking" => t.view = bib)
           /\ task[p] # Idle
           /\ UNCHANGED <<bib, overlap>>
  <1>a. task[p] # Idle
    BY DEF Reuse, Ask, Refuse, Stumble, Conclude, Idle
  <1>b. UNCHANGED <<bib, overlap>>
    BY DEF Reuse, Ask, Refuse, Stumble, Conclude
  <1>c. \E t : task' = [task EXCEPT ![p] = t] /\ (t.at = "asking" => t.view = bib)
    <2>1. CASE Ask(p, c)
      <3> DEFINE t == [at |-> "asking", found |-> task[p].found, left |-> task[p].left,
                       key |-> task[p].key, attempts |-> task[p].attempts, claim |-> c,
                       view |-> bib]
      <3>1. task' = [task EXCEPT ![p] = t]
        BY <2>1 DEF Ask
      <3>2. t.view = bib
        OBVIOUS
      <3> HIDE DEF t
      <3> QED BY <3>1, <3>2
    <2>2. \A left, key, attempts : Entering(task[p], left, key, attempts).at = "entering"
      BY DEF Entering
    <2>3. CASE Reuse(p, c)
      BY <2>2, <2>3 DEF Reuse
    <2>4. CASE Refuse(p)
      BY <2>2, <2>4 DEF Refuse
    <2>5. CASE Stumble(p)
      BY <2>2, <2>5 DEF Stumble, Idle
    <2>6. CASE Conclude(p)
      <3>1. task' = [task EXCEPT ![p] = Idle]
        BY <2>6, Zenon DEF Conclude
      <3>2. Idle.at # "asking"
        BY DEF Idle
      <3> QED BY <3>1, <3>2
    <2> QED BY <2>1, <2>3, <2>4, <2>5, <2>6
  <1> QED BY <1>a, <1>b, <1>c

LEMMA TaskKeys ==
    ASSUME Inv, Keyed, NEW p \in Pipeline, NEW c,
           Reuse(p, c) \/ Ask(p, c) \/ Refuse(p) \/ Stumble(p) \/ Conclude(p)
    PROVE  Keyed'
  BY TaskIsReplaced, OtherTasksAreIdle, OwnStep DEF Inv

LEMMA CrashKeys == ASSUME Keyed, Crash PROVE Keyed'
  BY DEF Crash, Keyed, OneTask, ViewsAreCurrent, KeysAreUnique, Idle

LEMMA NextKeys == ASSUME Inv, Keyed, [Next]_vars PROVE Keyed'
  <1>1. CASE UNCHANGED vars
    BY <1>1, SameKeys DEF vars
  <1>2. CASE Crash
    BY <1>2, CrashKeys
  <1>3. ASSUME NEW p \in Pipeline, Audit(p) \/ Find(p) \/ Redraft(p) PROVE Keyed'
    BY <1>3, SameKeys DEF Audit, Find, Redraft
  <1>4. ASSUME NEW p \in Pipeline,
               \/ Verify(p) \/ Enter(p) \/ Refuse(p) \/ Stumble(p) \/ Conclude(p)
               \/ \E c \in Claim : Reuse(p, c) \/ Ask(p, c)
        PROVE  Keyed'
    BY <1>4, VerifyKeys, EnterKeys, TaskKeys
  <1> QED BY <1>1, <1>2, <1>3, <1>4 DEF Next

-----------------------------------------------------------------------------
(* Crowds *)

\* The entries of a key, and the tasks that could still take it: they wait for the
\* registries, and have not read it.
Holding(key) == {i \in DOMAIN bib : bib[i].key = key}

Lacking(key) ==
    {p \in Pipeline : task[p].at = "asking" /\ key \notin KeysOf(task[p].view)}

\* With an entry of a key there is a task less that could add another.
Crowded ==
    \A key : Holding(key) # {} =>
        Cardinality(Holding(key)) + Cardinality(Lacking(key)) <= Cardinality(Pipeline)

ViewsAreFinite ==
    \A p \in Pipeline : task[p].at = "asking" => IsFiniteSet(KeysOf(task[p].view))

Crowds == Crowded /\ ViewsAreFinite

\* Append adds one position, and leaves the others as they are.
LEMMA AppendedIsOneMore ==
    ASSUME BibOK, NEW e, bib' = Append(bib, e)
    PROVE  \E n : /\ n \notin DOMAIN bib /\ DOMAIN bib' = DOMAIN bib \cup {n}
                  /\ bib'[n] = e /\ \A i \in DOMAIN bib : bib'[i] = bib[i]
  <1>1. PICK S : bib \in Seq(S)
    BY DEF BibOK
  <1>2. bib \in Seq(S \cup {e})
    BY <1>1, SeqMonotonic
  <1>3. /\ bib' \in Seq(S \cup {e})
        /\ Len(bib') = Len(bib) + 1
        /\ \A i \in 1 .. Len(bib) : bib'[i] = bib[i]
        /\ bib'[Len(bib) + 1] = e
    BY <1>2, AppendProperties
  <1>4. Len(bib) \in Nat /\ DOMAIN bib = 1 .. Len(bib) /\ DOMAIN bib' = 1 .. Len(bib) + 1
    BY <1>2, <1>3, LenProperties
  <1>5. Len(bib) + 1 \notin DOMAIN bib
    BY <1>4
  <1>6. DOMAIN bib' = DOMAIN bib \cup {Len(bib) + 1}
    BY <1>4
  <1> QED BY <1>3, <1>4, <1>5, <1>6

\* A set of at most one element.
LEMMA AtMostOne ==
    ASSUME NEW T, \A i, j \in T : i = j
    PROVE  IsFiniteSet(T) /\ Cardinality(T) <= 1
  <1>1. CASE T = {}
    BY <1>1, FS_EmptySet
  <1>2. CASE T # {}
    <2>1. PICK i : T = {i}
      BY <1>2
    <2> QED BY <2>1, FS_Singleton
  <1> QED BY <1>1, <1>2

LEMMA SomePipeline == Cardinality(Pipeline) \in Nat /\ Cardinality(Pipeline) >= 1
  <1>1. Cardinality(Pipeline) \in Nat /\ Cardinality(Pipeline) # 0
    BY CitationAssumption, FS_CardinalityType, FS_EmptySet
  <1> QED BY <1>1

LEMMA LackingIsFinite ==
    ASSUME NEW key
    PROVE  /\ IsFiniteSet(Lacking(key))
           /\ Cardinality(Lacking(key)) \in Nat
           /\ Cardinality(Lacking(key)) <= Cardinality(Pipeline)
  <1>1. Lacking(key) \subseteq Pipeline
    BY DEF Lacking
  <1> QED BY <1>1, CitationAssumption, FS_Subset, FS_CardinalityType

LEMMA HoldingIsFinite ==
    ASSUME BibOK, NEW key
    PROVE  IsFiniteSet(Holding(key)) /\ Cardinality(Holding(key)) \in Nat
  <1>1. PICK S : bib \in Seq(S)
    BY DEF BibOK
  <1>2. DOMAIN bib = 1 .. Len(bib) /\ Len(bib) \in Nat
    BY <1>1, LenProperties
  <1>3. IsFiniteSet(DOMAIN bib)
    BY <1>2, FS_Interval
  <1>4. Holding(key) \subseteq DOMAIN bib
    BY DEF Holding
  <1> QED BY <1>3, <1>4, FS_Subset, FS_CardinalityType

LEMMA InitCrowds == ASSUME AuthorKeepsKeysApart, Init PROVE Crowds
  <1>1. ASSUME NEW key
        PROVE  Cardinality(Holding(key)) + Cardinality(Lacking(key)) <= Cardinality(Pipeline)
    <2>1. \A i, j \in Holding(key) : i = j
      BY DEF Init, Holding, AuthorKeepsKeysApart
    <2>2. Cardinality(Holding(key)) <= 1 /\ Cardinality(Holding(key)) \in Nat
      BY <2>1, AtMostOne, FS_CardinalityType
    <2>3. Lacking(key) = {}
      BY DEF Init, Lacking, Idle
    <2> QED BY <2>2, <2>3, SomePipeline, FS_EmptySet
  <1>2. ViewsAreFinite
    BY DEF Init, ViewsAreFinite, Idle
  <1> QED BY <1>1, <1>2 DEF Crowds, Crowded

\* A step that leaves the file alone and gives no task an older view.
LEMMA CrowdRemains ==
    ASSUME Inv, Crowds, UNCHANGED bib, ViewsAreFinite',
           \A key : Holding(key) # {} => Lacking(key)' \subseteq Lacking(key)
    PROVE  Crowds'
  <1>1. ASSUME NEW key, Holding(key)' # {}
        PROVE  Cardinality(Holding(key)') + Cardinality(Lacking(key)')
                 <= Cardinality(Pipeline)
    <2>1. Holding(key)' = Holding(key)
      BY DEF Holding
    <2>2. Cardinality(Holding(key)) + Cardinality(Lacking(key)) <= Cardinality(Pipeline)
      BY <1>1, <2>1 DEF Crowds, Crowded
    <2>3. Lacking(key)' \subseteq Lacking(key)
      BY <1>1, <2>1
    <2>4. /\ Cardinality(Lacking(key)') <= Cardinality(Lacking(key))
          /\ Cardinality(Lacking(key)') \in Nat
      BY <2>3, LackingIsFinite, FS_Subset, FS_CardinalityType
    <2>5. Cardinality(Holding(key)) \in Nat
      BY HoldingIsFinite DEF Inv
    <2> QED BY <2>1, <2>2, <2>4, <2>5, LackingIsFinite, SomePipeline
  <1> QED BY <1>1 DEF Crowds, Crowded

\* A task that does not ask, or asks with the file as it is.
LEMMA OwnCrowds ==
    ASSUME Inv, Crowds, NEW p \in Pipeline, NEW t, task' = [task EXCEPT ![p] = t],
           t.at = "asking" => t.view = bib, UNCHANGED bib
    PROVE  Crowds'
  <1>1. \A q \in Pipeline : task'[q] = IF q = p THEN t ELSE task[q]
    BY DEF Inv, TasksOK
  <1>2. ViewsAreFinite'
    BY <1>1, FileKeysAreFinite DEF Inv, Crowds, ViewsAreFinite
  <1>3. ASSUME NEW key, Holding(key) # {} PROVE Lacking(key)' \subseteq Lacking(key)
    <2>1. key \in KeysOf(bib)
      BY <1>3 DEF Holding, KeysOf
    <2> QED BY <1>1, <2>1 DEF Lacking
  <1> QED BY <1>2, <1>3, CrowdRemains

\* What a task that waited for the registries appends adds to one key only, and that
\* task has done with waiting.
LEMMA EnterCrowds == ASSUME Inv, Crowds, NEW p \in Pipeline, Enter(p) PROVE Crowds'
  <1> DEFINE t == task[p]
             cand == t.found[t.claim].cand
  <1>1. t.at = "asking"
    BY Zenon DEF Enter
  <1>2. PICK data, key :
          /\ bib' = Append(bib, NewEntry(KeysOf(t.view), cand, data, t.found[t.claim]))
          /\ task' = [task EXCEPT ![p] =
                        Entering(t, t.left \ {t.claim}, key, t.attempts)]
    BY DEF Enter
  <1>3. PICK u, e :
          /\ u.at = "entering"
          /\ \E title : e.key = Suggested(KeysOf(t.view), title)
          /\ bib' = Append(bib, e)
          /\ task' = [task EXCEPT ![p] = u]
    <2> DEFINE u == Entering(t, t.left \ {t.claim}, key, t.attempts)
               e == NewEntry(KeysOf(t.view), cand, data, t.found[t.claim])
    <2>1. u.at = "entering"
      BY DEF Entering
    <2>2. \E title : e.key = Suggested(KeysOf(t.view), title)
      BY DEF NewEntry
    <2>3. bib' = Append(bib, e) /\ task' = [task EXCEPT ![p] = u]
      BY <1>2
    <2> HIDE DEF u, e
    <2> QED BY <2>1, <2>2, <2>3
  <1>4. \A q \in Pipeline : task'[q] = IF q = p THEN u ELSE task[q]
    BY <1>3 DEF Inv, TasksOK
  <1>5. \A key_1 : Lacking(key_1)' = Lacking(key_1) \ {p}
    BY <1>3, <1>4 DEF Lacking
  <1>6. p \in Lacking(e.key)
    <2>1. IsFiniteSet(KeysOf(t.view))
      BY <1>1 DEF Crowds, ViewsAreFinite
    <2>2. e.key \notin KeysOf(t.view)
      BY <1>3, <2>1, SuggestedIsNew
    <2> QED BY <1>1, <2>2 DEF Lacking
  <1>7. ViewsAreFinite'
    BY <1>3, <1>4 DEF Crowds, ViewsAreFinite
  <1>8. PICK n :
          /\ n \notin DOMAIN bib /\ DOMAIN bib' = DOMAIN bib \cup {n}
          /\ bib'[n] = e /\ \A i \in DOMAIN bib : bib'[i] = bib[i]
    BY <1>3, AppendedIsOneMore DEF Inv
  <1>9. ASSUME NEW k, Holding(k)' # {}
        PROVE  Cardinality(Holding(k)') + Cardinality(Lacking(k)') <= Cardinality(Pipeline)
    <2>1. CASE k # e.key
      <3>1. Holding(k)' = Holding(k)
        BY <1>8, <2>1 DEF Holding
      <3>2. Cardinality(Holding(k)) + Cardinality(Lacking(k)) <= Cardinality(Pipeline)
        BY <1>9, <3>1 DEF Crowds, Crowded
      <3>3. Cardinality(Lacking(k)') <= Cardinality(Lacking(k))
        <4>1. Lacking(k)' \subseteq Lacking(k)
          BY <1>5
        <4> QED BY <4>1, LackingIsFinite, FS_Subset
      <3>4. Cardinality(Lacking(k)') \in Nat
        BY <1>5, LackingIsFinite, FS_RemoveElement, FS_CardinalityType
      <3> QED BY <3>1, <3>2, <3>3, <3>4, LackingIsFinite, HoldingIsFinite, SomePipeline
              DEF Inv
    <2>2. CASE k = e.key
      <3>1. Holding(k)' = Holding(k) \cup {n} /\ n \notin Holding(k)
        BY <1>8, <2>2 DEF Holding
      <3>2. Cardinality(Holding(k)') = Cardinality(Holding(k)) + 1
        BY <3>1, HoldingIsFinite, FS_AddElement DEF Inv
      <3>3. Cardinality(Lacking(k)') = Cardinality(Lacking(k)) - 1
        BY <1>5, <1>6, <2>2, LackingIsFinite, FS_RemoveElement
      <3>4. CASE Holding(k) # {}
        <4>1. Cardinality(Holding(k)) + Cardinality(Lacking(k)) <= Cardinality(Pipeline)
          BY <3>4 DEF Crowds, Crowded
        <4> QED BY <3>2, <3>3, <4>1, LackingIsFinite, HoldingIsFinite, SomePipeline DEF Inv
      <3>5. CASE Holding(k) = {}
        <4>1. Cardinality(Holding(k)) = 0
          BY <3>5, FS_EmptySet
        <4> QED BY <3>2, <3>3, <4>1, LackingIsFinite, SomePipeline
      <3> QED BY <3>4, <3>5
    <2> QED BY <2>1, <2>2
  <1> QED BY <1>7, <1>9 DEF Crowds, Crowded

LEMMA NextCrowds == ASSUME Inv, Crowds, [Next]_vars PROVE Crowds'
  <1>1. CASE UNCHANGED <<task, bib>>
    BY <1>1 DEF Crowds, Crowded, ViewsAreFinite, Holding, Lacking
  <1>2. CASE Crash
    <2>1. \A q \in Pipeline : task'[q].at = "idle"
      BY <1>2 DEF Crash, Idle
    <2>2. ViewsAreFinite' /\ \A key : Lacking(key)' = {}
      BY <2>1 DEF ViewsAreFinite, Lacking
    <2> QED BY <1>2, <2>2, CrowdRemains DEF Crash
  <1>3. ASSUME NEW p \in Pipeline, Audit(p) \/ Find(p) \/ Redraft(p) PROVE Crowds'
    BY <1>1, <1>3 DEF Audit, Find, Redraft
  <1>4. ASSUME NEW p \in Pipeline, Verify(p) PROVE Crowds'
    <2>1. PICK found :
            task' = [task EXCEPT ![p] =
                        [at |-> "entering", found |-> found, left |-> Accepted(found),
                         key |-> [c \in DOMAIN row[p].gaps |-> found[c].cand.key],
                         attempts |-> 1]]
      BY <1>4 DEF Verify
    <2> QED BY <1>4, <2>1, OwnCrowds DEF Verify
  <1>5. ASSUME NEW p \in Pipeline, NEW c,
               Reuse(p, c) \/ Ask(p, c) \/ Refuse(p) \/ Stumble(p) \/ Conclude(p)
        PROVE  Crowds'
    BY <1>5, TaskIsReplaced, OwnCrowds
  <1> QED BY <1>1, <1>2, <1>3, <1>4, <1>5, EnterCrowds DEF Next, vars

-----------------------------------------------------------------------------
(* Works *)

\* The file has an entry of this key, and it is one of this work.
EntryOf(file, key, work) == \E i \in DOMAIN file : file[i].key = key /\ file[i].work = work

\* A candidate that is what its ids and title say; its key, if any, is its work's.
Faithful(m, file, c) ==
    /\ Means(m, c, c.work)
    /\ c.key # NoKey => EntryOf(file, c.key, c.work)

PoolsFaithful(m, r, file) ==
    /\ DOMAIN r.gaps \subseteq Claim
    /\ r.state = "CITATION_FIND" =>
         \A c \in DOMAIN r.gaps :
            \A i \in 1 .. Len(r.pools[c]) : Faithful(m, file, r.pools[c][i])

TaskFaithful(m, t, file) ==
    t # Idle =>
        \A c \in Accepted(t.found) :
            /\ Faithful(m, file, t.found[c].cand)
            /\ t.key[c] # NoKey => EntryOf(file, t.key[c], t.found[c].cand.work)

SettledFaithful(r, file) ==
    r.state = "CITATION_VERIFY" =>
        \A c \in DOMAIN r.settled :
            /\ r.settled[c].verdict = "accept"
            /\ r.cited[c] # NoKey => EntryOf(file, r.cited[c], r.settled[c].cand.work)

FileFaithful(m, file) == \A i \in DOMAIN file : Means(m, file[i], file[i].work)

RowFaithful(m, r, file) == PoolsFaithful(m, r, file) /\ SettledFaithful(r, file)

Worked(m) ==
    /\ FileFaithful(m, bib)
    /\ \A p \in Pipeline : RowFaithful(m, row[p], bib) /\ TaskFaithful(m, task[p], bib)

\* What an entry is found under belongs to the work of the source.
LEMMA FoundIsOfItsWork ==
    ASSUME NEW m, BibOK, FileFaithful(m, bib), NEW c, Means(m, c, c.work),
           Found(bib, c) # NoKey
    PROVE  EntryOf(bib, Found(bib, c), c.work)
  <1> DEFINE doi   == {i \in Visible(bib) : c.doi # "" /\ bib[i].doi = c.doi}
             arxiv == {i \in Visible(bib) : c.arxiv # "" /\ bib[i].arxiv = c.arxiv}
             title == {i \in Visible(bib) : c.title \notin Brief /\ bib[i].title = c.title}
             same  == IF doi # {} THEN doi ELSE IF arxiv # {} THEN arxiv ELSE title
             first == CHOOSE i \in same : \A j \in same : i <= j
  <1>1. Found(bib, c) = IF same = {} THEN NoKey ELSE bib[first].key
    BY DEF Found
  <1>2. same # {}
    BY <1>1
  <1>3. Visible(bib) \subseteq DOMAIN bib /\ Visible(bib) \subseteq Nat
    <2>1. PICK S : bib \in Seq(S)
      BY DEF BibOK
    <2>2. DOMAIN bib = 1 .. Len(bib) /\ Len(bib) \in Nat
      BY <2>1, LenProperties
    <2> QED BY <2>2 DEF Visible
  <1>4. doi \subseteq Visible(bib) /\ arxiv \subseteq Visible(bib) /\ title \subseteq Visible(bib)
    OBVIOUS
  <1>5. ASSUME NEW i \in same PROVE i \in DOMAIN bib /\ bib[i].work = c.work
    <2>1. i \in DOMAIN bib
      BY <1>3, <1>4
    <2>2. Means(m, bib[i], bib[i].work)
      BY <2>1 DEF FileFaithful
    <2>3. CASE i \in doi
      <3>1. bib[i].doi = c.doi /\ c.doi \in {c.doi, c.arxiv} \ {""}
        BY <2>3
      <3>2. c.doi \in {bib[i].doi, bib[i].arxiv} \ {""}
        BY <3>1
      <3>3. m.id[c.doi] = bib[i].work
        BY <2>2, <3>2, Zenon DEF Means
      <3>4. m.id[c.doi] = c.work
        BY <3>1, Zenon DEF Means
      <3> QED BY <2>1, <3>3, <3>4
    <2>4. CASE i \in arxiv
      <3>1. bib[i].arxiv = c.arxiv /\ c.arxiv \in {c.doi, c.arxiv} \ {""}
        BY <2>4
      <3>2. c.arxiv \in {bib[i].doi, bib[i].arxiv} \ {""}
        BY <3>1
      <3>3. m.id[c.arxiv] = bib[i].work
        BY <2>2, <3>2, Zenon DEF Means
      <3>4. m.id[c.arxiv] = c.work
        BY <3>1, Zenon DEF Means
      <3> QED BY <2>1, <3>3, <3>4
    <2>5. CASE i \in title
      <3>1. bib[i].title = c.title /\ c.title \notin Brief
        BY <2>5
      <3>2. m.title[c.title] = bib[i].work
        BY <2>2, <3>1, Zenon DEF Means
      <3>3. m.title[c.title] = c.work
        BY <3>1, Zenon DEF Means
      <3> QED BY <2>1, <3>2, <3>3
    <2> QED BY <2>1, <2>3, <2>4, <2>5
  <1>6. same \subseteq Nat
    BY <1>3, <1>4
  <1> HIDE DEF same
  <1>7. \E i \in same : \A j \in same : i <= j
    BY <1>2, <1>6, SmallestOf, Zenon
  <1>8. first \in same
    BY <1>7, Zenon
  <1>9. Found(bib, c) = bib[first].key
    BY <1>1, <1>2
  <1> QED BY <1>5, <1>8, <1>9 DEF EntryOf

\* What the registries say of a candidate, put over what it says itself, means its work.
LEMMA EntryMeansItsWork ==
    ASSUME NEW m, SourcesAreTruthful(m), NEW c, Means(m, c, c.work),
           NEW data \in Metadata(c), NEW keys, NEW by, NEW e, e = NewEntry(keys, c, data, by)
    PROVE  Means(m, e, e.work) /\ e.work = c.work
  <1>1. /\ e.work = c.work
        /\ e.doi = IF data.doi # "" THEN data.doi ELSE c.doi
        /\ e.arxiv = IF data.arxiv # "" THEN data.arxiv ELSE c.arxiv
        /\ e.title = IF data.title # "" THEN data.title ELSE c.title
    BY DEF NewEntry
  <1>2. CASE data = [doi |-> "", arxiv |-> "", title |-> ""]
    <2>1. e.doi = c.doi /\ e.arxiv = c.arxiv /\ e.title = c.title
      BY <1>1, <1>2
    <2> QED BY <1>1, <2>1 DEF Means
  <1>3. CASE data # [doi |-> "", arxiv |-> "", title |-> ""]
    <2>1. PICK id \in {c.doi, c.arxiv} \ {""} : data = Registry[id]
      BY <1>3 DEF Metadata
    <2>2. id \in DOMAIN Registry /\ m.id[id] = c.work
      BY DEF Means
    <2>3. Means(m, data, c.work)
      BY <2>1, <2>2 DEF SourcesAreTruthful
    <2>4. e.doi \in {data.doi, c.doi} /\ e.arxiv \in {data.arxiv, c.arxiv}
            /\ e.title \in {data.title, c.title}
      BY <1>1
    <2> QED BY <1>1, <2>3, <2>4 DEF Means
  <1> QED BY <1>2, <1>3

\* What the verifier concludes and accepts is one of the candidates of its pool.
LEMMA ConcludedIsFromThePool ==
    ASSUME NEW pool, NEW strict, Len(pool) \in Nat,
           NEW v \in Conclusions(pool, strict), v.verdict = "accept"
    PROVE  \E i \in 1 .. Len(pool) : v.cand = pool[i]
  <1> DEFINE n == IF Len(pool) < MaxTries THEN Len(pool) ELSE MaxTries
  <1>1. n \in Nat /\ n <= Len(pool)
    BY CitationAssumption
  <1>2. CASE n = 0
    <2>1. v = Kept(Unverifiable(strict))
      BY <1>2 DEF Conclusions
    <2>2. Unverifiable(strict).verdict = "reject"
      BY DEF Unverifiable
    <2>3. v.verdict = "reject"
      BY <2>1, <2>2 DEF Kept
    <2> QED BY <2>3
  <1>3. CASE n # 0
    <2>1. PICK said \in [1..n -> Answer] :
             v = Kept(Chosen([i \in 1..n |-> Judged(pool[i], said[i], strict)]))
      BY <1>3 DEF Conclusions
    <2> DEFINE attempts == [i \in 1..n |-> Judged(pool[i], said[i], strict)]
    <2>2. PICK i \in 1..n : Chosen(attempts) = attempts[i]
      <3>1. DOMAIN attempts = 1..n
        OBVIOUS
      <3> HIDE DEF attempts, n
      <3> QED BY <3>1, <1>1, <1>3, ChosenIsAnAttempt
    <2>3. v = Kept(Judged(pool[i], said[i], strict))
      BY <2>1, <2>2
    <2>4. v = Judged(pool[i], said[i], strict)
      BY <2>3 DEF Kept
    <2>5. v.cand = pool[i]
      BY <2>4 DEF Judged
    <2>6. i \in 1 .. Len(pool)
      <3> HIDE DEF n
      <3> QED BY <1>1
    <2> QED BY <2>5, <2>6
  <1> QED BY <1>2, <1>3

\* A file that has only grown still has the entries it had.
LEMMA EntriesRemain ==
    ASSUME Stays, NEW key, NEW work, EntryOf(bib, key, work)
    PROVE  EntryOf(bib', key, work)
  BY DEF Stays, EntryOf

LEMMA FaithfulRemains ==
    ASSUME Stays, NEW m, NEW c, Faithful(m, bib, c) PROVE Faithful(m, bib', c)
  BY EntriesRemain DEF Faithful

LEMMA RowRemains ==
    ASSUME Stays, NEW m, NEW r, RowFaithful(m, r, bib) PROVE RowFaithful(m, r, bib')
  BY EntriesRemain, FaithfulRemains
     DEF RowFaithful, PoolsFaithful, SettledFaithful

LEMMA TaskRemains ==
    ASSUME Stays, NEW m, NEW t, TaskFaithful(m, t, bib) PROVE TaskFaithful(m, t, bib')
  BY EntriesRemain, FaithfulRemains DEF TaskFaithful

LEMMA InitWorks == ASSUME NEW m, SourcesAreTruthful(m), Init PROVE Worked(m)
  <1>1. FileFaithful(m, bib)
    BY DEF Init, FileFaithful, SourcesAreTruthful
  <1>2. ASSUME NEW p \in Pipeline PROVE RowFaithful(m, row[p], bib)
    <2>1. row[p].state = "TECHNICAL_VERIFY" /\ row[p].gaps = <<>>
      BY DEF Init
    <2>2. DOMAIN row[p].gaps = {}
      BY <2>1
    <2> QED BY <2>1, <2>2 DEF RowFaithful, PoolsFaithful, SettledFaithful
  <1>3. ASSUME NEW p \in Pipeline PROVE TaskFaithful(m, task[p], bib)
    BY DEF Init, TaskFaithful
  <1> QED BY <1>1, <1>2, <1>3 DEF Worked

\* A step of p's handler, whatever becomes of the file.
LEMMA WorkStep ==
    ASSUME NEW m, Worked(m), Stays, FileFaithful(m, bib'), NEW p \in Pipeline, NEW t, NEW r,
           RowFaithful(m, r, bib'), TaskFaithful(m, t, bib'),
           \A q \in Pipeline : task'[q] = IF q = p THEN t ELSE task[q],
           \A q \in Pipeline : row'[q] = IF q = p THEN r ELSE row[q]
    PROVE  Worked(m)'
  <1>1. ASSUME NEW q \in Pipeline
        PROVE  RowFaithful(m, row'[q], bib') /\ TaskFaithful(m, task'[q], bib')
    <2>1. RowFaithful(m, row[q], bib') /\ TaskFaithful(m, task[q], bib')
      BY RowRemains, TaskRemains DEF Worked
    <2> QED BY <2>1
  <1> QED BY <1>1 DEF Worked

\* The same for steps that only change the row, or only the task.
LEMMA RowWork ==
    ASSUME RowsOK, NEW m, Worked(m), NEW p \in Pipeline, NEW r,
           row' = [row EXCEPT ![p] = r], RowFaithful(m, r, bib), UNCHANGED <<task, bib>>
    PROVE  Worked(m)'
  <1>1. \A q \in Pipeline : row'[q] = IF q = p THEN r ELSE row[q]
    BY DEF RowsOK
  <1>2. \A q \in Pipeline : task'[q] = IF q = p THEN task[p] ELSE task[q]
    OBVIOUS
  <1>3. Stays /\ FileFaithful(m, bib') /\ TaskFaithful(m, task[p], bib')
    BY DEF Stays, Worked
  <1> QED BY <1>1, <1>2, <1>3, WorkStep

LEMMA TaskWork ==
    ASSUME TasksOK, NEW m, Worked(m), Stays, FileFaithful(m, bib'), NEW p \in Pipeline,
           NEW t, task' = [task EXCEPT ![p] = t], TaskFaithful(m, t, bib'), UNCHANGED row
    PROVE  Worked(m)'
  <1>1. \A q \in Pipeline : task'[q] = IF q = p THEN t ELSE task[q]
    BY DEF TasksOK
  <1>2. \A q \in Pipeline : row'[q] = IF q = p THEN row[p] ELSE row[q]
    OBVIOUS
  <1>3. RowFaithful(m, row[p], bib')
    BY RowRemains DEF Worked
  <1> QED BY <1>1, <1>2, <1>3, WorkStep

LEMMA AuditWorks ==
    ASSUME Inv, Typed, NEW m, Worked(m), NEW p \in Pipeline, Audit(p) PROVE Worked(m)'
  <1>1. PICK found \in SUBSET row[p].draft, declared \in SUBSET row[p].draft :
          row' = [row EXCEPT ![p].state = "CITATION_AUDIT",
                             ![p].gaps = [c \in found \cup declared |->
                                             c \in found /\ c \in Strict]]
    BY DEF Audit
  <1> DEFINE r == [row[p] EXCEPT !.state = "CITATION_AUDIT",
                                 !.gaps = [c \in found \cup declared |->
                                              c \in found /\ c \in Strict]]
  <1>2. row' = [row EXCEPT ![p] = r]
    BY <1>1 DEF Inv, RowsOK
  <1>3. /\ r.state = "CITATION_AUDIT"
        /\ r.gaps = [c \in found \cup declared |-> c \in found /\ c \in Strict]
    BY DEF Inv, RowsOK, Fields
  <1>4. DOMAIN r.gaps = found \cup declared
    BY <1>3
  <1> HIDE DEF r
  <1>5. row[p].draft \subseteq Claim
    BY DEF Typed, PairTyped, RowTyped
  <1>6. RowFaithful(m, r, bib)
    BY <1>3, <1>4, <1>5 DEF RowFaithful, PoolsFaithful, SettledFaithful
  <1> QED BY <1>2, <1>6, RowWork DEF Inv, Audit

\* What the searches return is what the author or a service says of a work.
LEMMA OfferedIsFaithful ==
    ASSUME NEW m, SourcesAreTruthful(m), FileFaithful(m, bib), NEW claim \in Claim,
           NEW c \in Offered(bib, claim)
    PROVE  Faithful(m, bib, c)
  <1>1. CASE \E i \in Visible(bib) : c = Candidate(bib[i], bib[i].key)
    <2>1. PICK i \in Visible(bib) : c = Candidate(bib[i], bib[i].key)
      BY <1>1
    <2>2. i \in DOMAIN bib
      BY DEF Visible
    <2>3. /\ c.work = bib[i].work /\ c.doi = bib[i].doi /\ c.arxiv = bib[i].arxiv
          /\ c.title = bib[i].title /\ c.key = bib[i].key
      BY <2>1 DEF Candidate
    <2>4. Means(m, c, c.work)
      BY <2>2, <2>3 DEF FileFaithful, Means
    <2> QED BY <2>2, <2>3, <2>4 DEF Faithful, EntryOf
  <1>2. CASE \E l \in Listing[claim] : c = Candidate(l, NoKey)
    <2>1. PICK l \in Listing[claim] : c = Candidate(l, NoKey)
      BY <1>2
    <2>2. /\ c.work = l.work /\ c.doi = l.doi /\ c.arxiv = l.arxiv
          /\ c.title = l.title /\ c.key = NoKey
      BY <2>1 DEF Candidate
    <2>3. Means(m, l, l.work)
      BY DEF SourcesAreTruthful
    <2>4. Means(m, c, c.work)
      BY <2>2, <2>3 DEF Means
    <2> QED BY <2>2, <2>4 DEF Faithful
  <1> QED BY <1>1, <1>2 DEF Offered

LEMMA FindWorks ==
    ASSUME Inv, NEW m, SourcesAreTruthful(m), Worked(m), NEW p \in Pipeline, Find(p)
    PROVE  Worked(m)'
  <1>1. PICK pools :
          /\ DOMAIN pools = DOMAIN row[p].gaps
          /\ \A c \in DOMAIN pools : pools[c] \in Pools(bib, c)
          /\ row' = [row EXCEPT ![p].state = "CITATION_FIND", ![p].pools = pools]
    BY DEF Find
  <1> DEFINE r == [row[p] EXCEPT !.state = "CITATION_FIND", !.pools = pools]
  <1>2. row' = [row EXCEPT ![p] = r]
    BY <1>1 DEF Inv, RowsOK
  <1>3. r.state = "CITATION_FIND" /\ r.gaps = row[p].gaps /\ r.pools = pools
    BY DEF Inv, RowsOK, Fields
  <1> HIDE DEF r
  <1>4. DOMAIN r.gaps \subseteq Claim
    BY <1>3 DEF Worked, RowFaithful, PoolsFaithful
  <1>5. ASSUME NEW c \in DOMAIN r.gaps, NEW i \in 1 .. Len(pools[c])
        PROVE  Faithful(m, bib, pools[c][i])
    <2>1. PICK n \in 0 .. MaxPool : pools[c] \in [1 .. n -> Offered(bib, c)]
      BY <1>1, <1>3 DEF Pools
    <2>2. pools[c] \in Seq(Offered(bib, c))
      BY <2>1, CitationAssumption, SeqDef
    <2>3. pools[c][i] \in Offered(bib, c)
      BY <2>2, ElementOfSeq
    <2> QED BY <1>4, <2>3, OfferedIsFaithful DEF Worked
  <1>6. RowFaithful(m, r, bib)
    BY <1>3, <1>4, <1>5 DEF RowFaithful, PoolsFaithful, SettledFaithful
  <1> QED BY <1>2, <1>6, RowWork DEF Inv, Find

LEMMA VerifyWorks ==
    ASSUME Inv, NEW m, Worked(m), NEW p \in Pipeline, Verify(p) PROVE Worked(m)'
  <1> DEFINE gaps == row[p].gaps
  <1>1. PICK found :
          /\ DOMAIN found = DOMAIN gaps
          /\ \A c \in DOMAIN gaps : found[c] \in Conclusions(row[p].pools[c], gaps[c])
          /\ task' = [task EXCEPT ![p] =
                        [at |-> "entering", found |-> found, left |-> Accepted(found),
                         key |-> [c \in DOMAIN gaps |-> found[c].cand.key],
                         attempts |-> 1]]
    BY DEF Verify
  <1> DEFINE t == [at |-> "entering", found |-> found, left |-> Accepted(found),
                   key |-> [c \in DOMAIN gaps |-> found[c].cand.key], attempts |-> 1]
  <1>2. t.found = found /\ \A c \in DOMAIN gaps : t.key[c] = found[c].cand.key
    OBVIOUS
  <1>3. task' = [task EXCEPT ![p] = t]
    BY <1>1
  <1> HIDE DEF t
  <1>4. row[p].state = "CITATION_FIND" /\ UNCHANGED <<row, bib>>
    BY DEF Verify, Steps
  <1>5. ASSUME NEW c \in Accepted(found) PROVE Faithful(m, bib, found[c].cand)
    <2>1. c \in DOMAIN gaps /\ found[c].verdict = "accept"
      BY <1>1 DEF Accepted
    <2>2. Len(row[p].pools[c]) \in Nat
      BY <1>4, <2>1 DEF Inv, RowsOK
    <2>3. PICK i \in 1 .. Len(row[p].pools[c]) : found[c].cand = row[p].pools[c][i]
      BY <1>1, <2>1, <2>2, ConcludedIsFromThePool
    <2>4. Faithful(m, bib, row[p].pools[c][i])
      BY <1>4, <2>1 DEF Worked, RowFaithful, PoolsFaithful
    <2> QED BY <2>3, <2>4
  <1>6. Accepted(found) \subseteq DOMAIN gaps
    BY <1>1 DEF Accepted
  <1>7. TaskFaithful(m, t, bib)
    BY <1>2, <1>5, <1>6 DEF TaskFaithful, Faithful
  <1>8. Stays /\ FileFaithful(m, bib') /\ TaskFaithful(m, t, bib')
    BY <1>4, <1>7 DEF Stays, Worked
  <1> QED BY <1>3, <1>4, <1>8, TaskWork DEF Inv

\* The next verification of a task: keys it had, and keys of entries of their works.
LEMMA EnteringIsFaithful ==
    ASSUME NEW m, NEW file, NEW t, t # Idle, TaskFaithful(m, t, file), NEW left, NEW key,
           \A c \in Accepted(t.found) :
              key[c] = t.key[c] \/ EntryOf(file, key[c], t.found[c].cand.work),
           NEW attempts
    PROVE  TaskFaithful(m, Entering(t, left, key, attempts), file)
  <1> DEFINE u == Entering(t, left, key, attempts)
  <1>1. u.found = t.found /\ u.key = key
    BY DEF Entering
  <1> HIDE DEF u
  <1>2. TaskFaithful(m, u, file)
    BY <1>1 DEF TaskFaithful
  <1> QED BY <1>2 DEF u

LEMMA ReuseWorks ==
    ASSUME Inv, Typed, NEW m, Worked(m), NEW p \in Pipeline, NEW c, Reuse(p, c)
    PROVE  Worked(m)'
  <1> DEFINE t == task[p]
             k == Found(bib, t.found[c].cand)
             key == [t.key EXCEPT ![c] = k]
  <1>1. TaskTyped(t, row[p]) /\ t # Idle /\ c \in t.left /\ k # NoKey
    BY DEF Typed, PairTyped, Reuse, Idle
  <1>2. task' = [task EXCEPT ![p] = Entering(t, t.left \ {c}, key, t.attempts)]
    BY DEF Reuse
  <1>3. c \in Accepted(t.found) /\ TaskFaithful(m, t, bib)
    BY <1>1 DEF TaskTyped, Worked
  <1>4. EntryOf(bib, k, t.found[c].cand.work)
    <2>1. Means(m, t.found[c].cand, t.found[c].cand.work)
      BY <1>1, <1>3 DEF TaskFaithful, Faithful
    <2> QED BY <1>1, <2>1, FoundIsOfItsWork DEF Inv, Worked
  <1>5. ASSUME NEW d \in Accepted(t.found)
        PROVE  key[d] = t.key[d] \/ EntryOf(bib, key[d], t.found[d].cand.work)
    <2>1. d \in DOMAIN t.key
      BY <1>1 DEF TaskTyped, Accepted
    <2>2. key[d] = IF d = c THEN k ELSE t.key[d]
      BY <2>1
    <2> QED BY <1>4, <2>2
  <1> HIDE DEF key
  <1>6. TaskFaithful(m, Entering(t, t.left \ {c}, key, t.attempts), bib)
    BY <1>1, <1>3, <1>5, EnteringIsFaithful
  <1>7. Stays /\ FileFaithful(m, bib') /\ UNCHANGED <<row, bib>>
    BY DEF Stays, Worked, Reuse
  <1> QED BY <1>2, <1>6, <1>7, TaskWork DEF Inv

LEMMA AskWorks ==
    ASSUME Inv, NEW m, Worked(m), NEW p \in Pipeline, NEW c, Ask(p, c)
    PROVE  Worked(m)'
  <1> DEFINE t == [at |-> "asking", found |-> task[p].found, left |-> task[p].left,
                   key |-> task[p].key, attempts |-> task[p].attempts, claim |-> c,
                   view |-> bib]
  <1>1. task' = [task EXCEPT ![p] = t] /\ task[p] # Idle
    BY DEF Ask, Idle
  <1>2. t.found = task[p].found /\ t.key = task[p].key
    OBVIOUS
  <1> HIDE DEF t
  <1>3. TaskFaithful(m, t, bib)
    BY <1>1, <1>2 DEF Worked, TaskFaithful
  <1>4. Stays /\ FileFaithful(m, bib') /\ UNCHANGED <<row, bib>>
    BY DEF Stays, Worked, Ask
  <1> QED BY <1>1, <1>3, <1>4, TaskWork DEF Inv

LEMMA EnterWorks ==
    ASSUME Inv, Typed, NEW m, SourcesAreTruthful(m), Worked(m), NEW p \in Pipeline, Enter(p)
    PROVE  Worked(m)'
  <1> DEFINE t == task[p]
             cand == t.found[t.claim].cand
  <1>1. t.at = "asking"
    BY Zenon DEF Enter
  <1>2. TaskTyped(t, row[p]) /\ t # Idle
    BY <1>1 DEF Typed, PairTyped, Idle
  <1>e. PICK data \in Metadata(cand) : \E entry :
          /\ entry = NewEntry(KeysOf(t.view), cand, data, t.found[t.claim])
          /\ bib' = Append(bib, entry)
          /\ task' = [task EXCEPT ![p] =
                        Entering(t, t.left \ {t.claim}, [t.key EXCEPT ![t.claim] = entry.key],
                                 t.attempts)]
    BY DEF Enter
  <1>3. PICK entry :
          /\ entry = NewEntry(KeysOf(t.view), cand, data, t.found[t.claim])
          /\ bib' = Append(bib, entry)
          /\ task' = [task EXCEPT ![p] =
                        Entering(t, t.left \ {t.claim}, [t.key EXCEPT ![t.claim] = entry.key],
                                 t.attempts)]
    BY <1>e
  <1>4. t.claim \in Accepted(t.found) /\ TaskFaithful(m, t, bib)
    BY <1>1, <1>2 DEF TaskTyped, Worked
  <1>5. Means(m, cand, cand.work)
    BY <1>2, <1>4 DEF TaskFaithful, Faithful
  <1>6. Means(m, entry, entry.work) /\ entry.work = cand.work
    <2>1. SourcesAreTruthful(m) /\ Means(m, cand, cand.work)
      BY <1>5
    <2>2. data \in Metadata(cand)
      OBVIOUS
    <2>3. entry = NewEntry(KeysOf(t.view), cand, data, t.found[t.claim])
      BY <1>3
    <2> HIDE DEF cand, t
    <2>4. ASSUME NEW c, c = cand, NEW keys, NEW by, entry = NewEntry(keys, c, data, by)
          PROVE  Means(m, entry, entry.work) /\ entry.work = c.work
      <3>1. data \in Metadata(c) /\ Means(m, c, c.work)
        BY <2>1, <2>2, <2>4
      <3> QED BY <2>1, <2>4, <3>1, EntryMeansItsWork
    <2> QED BY <2>3, <2>4
  <1>7. /\ Stays /\ FileFaithful(m, bib')
        /\ EntryOf(bib', entry.key, cand.work)
    <2>1. PICK S : bib \in Seq(S)
      BY DEF Inv, BibOK
    <2>2. bib \in Seq(S \cup {entry})
      BY <2>1, SeqMonotonic
    <2>3. /\ bib' \in Seq(S \cup {entry})
          /\ Len(bib') = Len(bib) + 1
          /\ \A i \in 1 .. Len(bib) : bib'[i] = bib[i]
          /\ bib'[Len(bib) + 1] = entry
      BY <1>3, <2>2, AppendProperties
    <2>4. Len(bib) \in Nat /\ DOMAIN bib = 1 .. Len(bib) /\ DOMAIN bib' = 1 .. Len(bib) + 1
      BY <2>2, <2>3, LenProperties
    <2>5. Stays
      BY <2>3, <2>4 DEF Stays
    <2>6. ASSUME NEW i \in DOMAIN bib' PROVE Means(m, bib'[i], bib'[i].work)
      <3>1. CASE i \in DOMAIN bib
        BY <2>3, <2>4, <3>1 DEF Worked, FileFaithful
      <3>2. CASE i = Len(bib) + 1
        BY <1>6, <2>3, <3>2
      <3> QED BY <2>4, <3>1, <3>2
    <2>7. Len(bib) + 1 \in DOMAIN bib'
      BY <2>4
    <2> QED BY <1>6, <2>3, <2>5, <2>6, <2>7 DEF FileFaithful, EntryOf
  <1> DEFINE key == [t.key EXCEPT ![t.claim] = entry.key]
  <1>8. TaskFaithful(m, t, bib')
    BY <1>4, <1>7, TaskRemains
  <1>9. ASSUME NEW d \in Accepted(t.found)
        PROVE  key[d] = t.key[d] \/ EntryOf(bib', key[d], t.found[d].cand.work)
    <2>1. d \in DOMAIN t.key
      BY <1>2 DEF TaskTyped, Accepted
    <2>2. key[d] = IF d = t.claim THEN entry.key ELSE t.key[d]
      BY <2>1
    <2> QED BY <1>7, <2>2
  <1>10. task' = [task EXCEPT ![p] = Entering(t, t.left \ {t.claim}, key, t.attempts)]
    BY <1>3
  <1> HIDE DEF key
  <1>11. TaskFaithful(m, Entering(t, t.left \ {t.claim}, key, t.attempts), bib')
    BY <1>2, <1>8, <1>9, EnteringIsFaithful
  <1>12. UNCHANGED row
    BY DEF Enter
  <1> QED BY <1>7, <1>10, <1>11, <1>12, TaskWork DEF Inv

LEMMA RefuseWorks ==
    ASSUME Inv, NEW m, Worked(m), NEW p \in Pipeline, Refuse(p) PROVE Worked(m)'
  <1> DEFINE t == task[p]
  <1>1. t # Idle /\ TaskFaithful(m, t, bib)
    BY DEF Refuse, Idle, Worked
  <1>2. TaskFaithful(m, Entering(t, t.left \ {t.claim}, t.key, t.attempts), bib)
    BY <1>1, EnteringIsFaithful
  <1>3. Stays /\ FileFaithful(m, bib') /\ UNCHANGED <<row, bib>>
    BY DEF Stays, Worked, Refuse
  <1>4. task' = [task EXCEPT ![p] = Entering(t, t.left \ {t.claim}, t.key, t.attempts)]
    BY DEF Refuse
  <1> QED BY <1>2, <1>3, <1>4, TaskWork DEF Inv

LEMMA StumbleWorks ==
    ASSUME Inv, NEW m, Worked(m), NEW p \in Pipeline, Stumble(p) PROVE Worked(m)'
  <1> DEFINE t == task[p]
  <1>1. t # Idle /\ TaskFaithful(m, t, bib)
    BY DEF Stumble, Idle, Worked
  <1>2. Stays /\ FileFaithful(m, bib') /\ UNCHANGED bib
    BY DEF Stays, Worked, Stumble
  <1>3. CASE t.attempts < MaxAttempts
    <2>1. TaskFaithful(m, Entering(t, Accepted(t.found), t.key, t.attempts + 1), bib)
      BY <1>1, EnteringIsFaithful
    <2>2. /\ task' = [task EXCEPT ![p] =
                          Entering(t, Accepted(t.found), t.key, t.attempts + 1)]
          /\ UNCHANGED row
      BY <1>3 DEF Stumble
    <2> QED BY <1>2, <2>1, <2>2, TaskWork DEF Inv
  <1>4. CASE ~ (t.attempts < MaxAttempts)
    <2> DEFINE r == [row[p] EXCEPT !.state = "FAILED"]
    <2>1. row' = [row EXCEPT ![p] = r]
      BY <1>4 DEF Inv, RowsOK, Stumble
    <2>2. r.state = "FAILED" /\ r.gaps = row[p].gaps
      BY DEF Inv, RowsOK, Fields
    <2> HIDE DEF r
    <2>3. RowFaithful(m, r, bib') /\ TaskFaithful(m, Idle, bib')
      BY <2>2 DEF Worked, RowFaithful, PoolsFaithful, SettledFaithful, TaskFaithful
    <2>4. \A q \in Pipeline : row'[q] = IF q = p THEN r ELSE row[q]
      BY <2>1 DEF Inv, RowsOK
    <2>5. \A q \in Pipeline : task'[q] = IF q = p THEN Idle ELSE task[q]
      BY <1>4 DEF Inv, TasksOK, Stumble
    <2> QED BY <1>2, <2>3, <2>4, <2>5, WorkStep
  <1> QED BY <1>3, <1>4

\* A verification in which nothing was rejected settles claims that were all accepted.
LEMMA ConcludeWorks ==
    ASSUME Inv, Typed, NEW m, Worked(m), NEW p \in Pipeline, Conclude(p) PROVE Worked(m)'
  <1> DEFINE t == task[p]
             done == [row[p] EXCEPT !.gaps = <<>>, !.pools = <<>>]
  <1>1. t # Idle /\ TaskFaithful(m, t, bib) /\ row[p].state = "CITATION_FIND"
    BY DEF Typed, PairTyped, TaskTyped, Conclude, Idle, Worked
  <1>2. row[p].revisions \in 0 .. MaxRevisions
    BY <1>1, MaxRevisionsAssumption DEF Typed, PairTyped, RowTyped
  <1>3. DOMAIN done = Fields /\ done.gaps = <<>>
    BY DEF Inv, RowsOK, Fields
  <1>4. \E r : row' = [row EXCEPT ![p] = r] /\ r.gaps = <<>> /\ RowFaithful(m, r, bib)
    <2>1. CASE DOMAIN t.found \ Accepted(t.found) # {} /\ Unsourced(t) # {}
      <3>1. PICK first :
              row' = [row EXCEPT ![p] =
                [done EXCEPT
                   !.state = Landing("CITATION_FIND", "DRAFTED", row[p].revisions),
                   !.revisions = RevisionsAfter("CITATION_FIND", "DRAFTED", @),
                   !.unsupported = [c \in Unsourced(t) |-> first]]]
        BY <2>1, Zenon DEF Conclude
      <3> HIDE DEF done
      <3> DEFINE r == [done EXCEPT
                   !.state = Landing("CITATION_FIND", "DRAFTED", row[p].revisions),
                   !.revisions = RevisionsAfter("CITATION_FIND", "DRAFTED", @),
                   !.unsupported = [c \in Unsourced(t) |-> first]]
      <3>2. /\ r.state = Landing("CITATION_FIND", "DRAFTED", row[p].revisions)
            /\ r.gaps = <<>>
        BY <1>3 DEF Fields
      <3>3. row' = [row EXCEPT ![p] = r]
        BY <3>1
      <3> HIDE DEF r
      <3>4. r.state \notin {"CITATION_FIND", "CITATION_VERIFY"}
        BY <1>2, <3>2, SentBack
      <3>5. DOMAIN r.gaps = {}
        BY <3>2
      <3> QED BY <3>2, <3>3, <3>4, <3>5 DEF RowFaithful, PoolsFaithful, SettledFaithful
    <2>2. CASE ~ (DOMAIN t.found \ Accepted(t.found) # {} /\ Unsourced(t) # {})
      <3>1. row' = [row EXCEPT ![p] =
                [done EXCEPT !.state = "CITATION_VERIFY",
                             !.settled = t.found, !.cited = t.key]]
        BY <2>2, Zenon DEF Conclude
      <3> HIDE DEF done
      <3> DEFINE r == [done EXCEPT !.state = "CITATION_VERIFY",
                                   !.settled = t.found, !.cited = t.key]
      <3>2. /\ r.state = "CITATION_VERIFY" /\ r.gaps = <<>>
            /\ r.settled = t.found /\ r.cited = t.key
        BY <1>3 DEF Fields
      <3>3. row' = [row EXCEPT ![p] = r]
        BY <3>1
      <3> HIDE DEF r
      <3>4. DOMAIN t.found \subseteq Accepted(t.found)
        BY <2>2 DEF Unsourced
      <3>5. SettledFaithful(r, bib)
        BY <1>1, <3>2, <3>4 DEF SettledFaithful, TaskFaithful, Accepted
      <3>6. DOMAIN r.gaps = {}
        BY <3>2
      <3> QED BY <3>2, <3>3, <3>5, <3>6 DEF RowFaithful, PoolsFaithful
    <2> QED BY <2>1, <2>2
  <1>5. PICK r : row' = [row EXCEPT ![p] = r] /\ RowFaithful(m, r, bib)
    BY <1>4
  <1>6. \A q \in Pipeline : row'[q] = IF q = p THEN r ELSE row[q]
    BY <1>5 DEF Inv, RowsOK
  <1>7. \A q \in Pipeline : task'[q] = IF q = p THEN Idle ELSE task[q]
    BY DEF Inv, TasksOK, Conclude
  <1>8. Stays /\ FileFaithful(m, bib') /\ RowFaithful(m, r, bib') /\ TaskFaithful(m, Idle, bib')
    BY <1>5 DEF Stays, Worked, Conclude, TaskFaithful
  <1> QED BY <1>6, <1>7, <1>8, WorkStep

LEMMA RedraftWorks ==
    ASSUME Inv, NEW m, Worked(m), NEW p \in Pipeline, Redraft(p) PROVE Worked(m)'
  <1>1. PICK kept \in SUBSET row[p].draft :
          row' = [row EXCEPT ![p].state = "TECHNICAL_VERIFY", ![p].draft = kept,
                             ![p].unsupported = <<>>]
    BY DEF Redraft
  <1> DEFINE r == [row[p] EXCEPT !.state = "TECHNICAL_VERIFY", !.draft = kept,
                                 !.unsupported = <<>>]
  <1>2. row' = [row EXCEPT ![p] = r]
    BY <1>1 DEF Inv, RowsOK
  <1>3. r.state = "TECHNICAL_VERIFY" /\ r.gaps = row[p].gaps
    BY DEF Inv, RowsOK, Fields
  <1> HIDE DEF r
  <1>4. RowFaithful(m, r, bib)
    BY <1>3 DEF Worked, RowFaithful, PoolsFaithful, SettledFaithful
  <1> QED BY <1>2, <1>4, RowWork DEF Inv, Redraft

LEMMA NextWorks ==
    ASSUME Inv, Typed, NEW m, SourcesAreTruthful(m), Worked(m), [Next]_vars
    PROVE  Worked(m)'
  <1>1. CASE UNCHANGED vars
    BY <1>1 DEF vars, Worked
  <1>2. CASE Crash
    BY <1>2 DEF Crash, Worked, TaskFaithful
  <1>3. ASSUME NEW p \in Pipeline,
               \/ Audit(p) \/ Find(p) \/ Verify(p) \/ Enter(p) \/ Refuse(p)
               \/ Stumble(p) \/ Conclude(p) \/ Redraft(p)
               \/ \E c \in Claim : Reuse(p, c) \/ Ask(p, c)
        PROVE  Worked(m)'
    BY <1>3, AuditWorks, FindWorks, VerifyWorks, EnterWorks, RefuseWorks, StumbleWorks,
       ConcludeWorks, RedraftWorks, ReuseWorks, AskWorks
  <1> QED BY <1>1, <1>2, <1>3 DEF Next

-----------------------------------------------------------------------------
(* Once *)

\* The entry carries an identifier of the candidate.
Named(e, c) == (c.doi # "" /\ e.doi = c.doi) \/ (c.arxiv # "" /\ e.arxiv = c.arxiv)

\* What was entered can be found again, and what is being asked for was not found.
EntriesAreNamed ==
    \A i \in DOMAIN bib :
        /\ bib[i].key # NoKey
        /\ bib[i].by # Author => Named(bib[i], bib[i].by.cand)

AskedIsNew ==
    \A p \in Pipeline :
        task[p].at = "asking" =>
            Found(task[p].view, task[p].found[task[p].claim].cand) = NoKey

Once == EntriesAreNamed /\ AskedIsNew /\ SourcesAreEnteredOnce

LEMMA InitOnce == Init => Once
  <1> SUFFICES ASSUME Init PROVE Once
    OBVIOUS
  <1>1. \A i \in DOMAIN bib : bib[i].by = Author /\ bib[i].key # NoKey
    BY CitationAssumption DEF Init, Author, NoKey
  <1>2. AskedIsNew
    BY DEF Init, AskedIsNew, Idle
  <1> QED BY <1>1, <1>2 DEF Once, EntriesAreNamed, SourcesAreEnteredOnce

\* Whatever the registries contributed, or did not.
LEMMA EntryIsNamed ==
    ASSUME NEW m, IdentifiersResolve(m), NEW c, Means(m, c, c.work),
           NEW data \in Metadata(c), NEW raw \in BOOLEAN, data.title # "" \/ raw,
           raw => Recorded(c), NEW keys, NEW by, NEW e, e = NewEntry(keys, c, data, by)
    PROVE  Named(e, c)
  <1>1. /\ e.doi = IF data.doi # "" THEN data.doi ELSE c.doi
        /\ e.arxiv = IF data.arxiv # "" THEN data.arxiv ELSE c.arxiv
    BY DEF NewEntry
  <1>2. CASE data = [doi |-> "", arxiv |-> "", title |-> ""]
    <2>1. e.doi = c.doi /\ e.arxiv = c.arxiv /\ Recorded(c)
      BY <1>1, <1>2
    <2> QED BY <2>1 DEF Named, Recorded
  <1>3. CASE data # [doi |-> "", arxiv |-> "", title |-> ""]
    <2>1. PICK id \in {c.doi, c.arxiv} \ {""} : data = Registry[id]
      BY <1>3 DEF Metadata
    <2>2. id \in DOMAIN Registry
      BY DEF Means
    <2>3. CASE id = c.doi
      <3>1. m.kind[id] = "doi"
        BY <2>3 DEF Means
      <3>2. data.doi = id
        BY <2>1, <2>2, <3>1 DEF IdentifiersResolve
      <3> QED BY <1>1, <2>1, <2>3, <3>2 DEF Named
    <2>4. CASE id = c.arxiv
      <3>1. m.kind[id] = "arxiv"
        BY <2>4 DEF Means
      <3>2. data.arxiv = id
        BY <2>1, <2>2, <3>1 DEF IdentifiersResolve
      <3> QED BY <1>1, <2>1, <2>4, <3>2 DEF Named
    <2> QED BY <2>1, <2>3, <2>4
  <1> QED BY <1>2, <1>3

\* _find_existing finds an entry that carries an identifier of the candidate.
LEMMA NamedIsFound ==
    ASSUME BibOK, KeysAreUnique, EntriesAreNamed, NEW c, NEW i \in DOMAIN bib,
           Named(bib[i], c)
    PROVE  Found(bib, c) # NoKey
  <1> DEFINE doi   == {k \in Visible(bib) : c.doi # "" /\ bib[k].doi = c.doi}
             arxiv == {k \in Visible(bib) : c.arxiv # "" /\ bib[k].arxiv = c.arxiv}
             title == {k \in Visible(bib) : c.title \notin Brief /\ bib[k].title = c.title}
             same  == IF doi # {} THEN doi ELSE IF arxiv # {} THEN arxiv ELSE title
             first == CHOOSE k \in same : \A j \in same : k <= j
  <1>1. Found(bib, c) = IF same = {} THEN NoKey ELSE bib[first].key
    BY DEF Found
  <1>2. DOMAIN bib \subseteq Nat
    <2>1. PICK S : bib \in Seq(S)
      BY DEF BibOK
    <2> QED BY <2>1, LenProperties
  <1>3. i \in Visible(bib)
    <2>1. \A j \in DOMAIN bib : j > i => j # i
      BY <1>2
    <2> QED BY <2>1 DEF Visible, KeysAreUnique
  <1>4. doi # {} \/ arxiv # {}
    BY <1>3 DEF Named
  <1>5. same # {} /\ same \subseteq DOMAIN bib
    BY <1>4 DEF Visible
  <1> HIDE DEF same
  <1>6. \E k \in same : \A j \in same : k <= j
    BY <1>2, <1>5, SmallestOf, Zenon
  <1>7. first \in same
    BY <1>6, Zenon
  <1>8. Found(bib, c) = bib[first].key
    BY <1>1, <1>5
  <1> QED BY <1>5, <1>7, <1>8 DEF EntriesAreNamed

\* A step that leaves the file alone, and whose task does not ask for what is there.
LEMMA OnceRemains ==
    ASSUME Once, UNCHANGED <<bib, overlap>>, AskedIsNew' PROVE Once'
  BY DEF Once, EntriesAreNamed, Named, SourcesAreEnteredOnce, Author

LEMMA TaskOnce ==
    ASSUME Inv, Once, NEW p \in Pipeline, NEW t, task' = [task EXCEPT ![p] = t],
           t.at = "asking" => Found(t.view, t.found[t.claim].cand) = NoKey,
           UNCHANGED <<bib, overlap>>
    PROVE  Once'
  <1>1. \A q \in Pipeline : task'[q] = IF q = p THEN t ELSE task[q]
    BY DEF Inv, TasksOK
  <1>2. AskedIsNew'
    <2> SUFFICES ASSUME NEW q \in Pipeline, task'[q].at = "asking"
                 PROVE  Found(task'[q].view, task'[q].found[task'[q].claim].cand) = NoKey
      BY DEF AskedIsNew
    <2>1. CASE q = p
      BY <1>1, <2>1
    <2>2. CASE q # p
      BY <1>1, <2>2 DEF Once, AskedIsNew
    <2> QED BY <2>1, <2>2
  <1> QED BY <1>2, OnceRemains

LEMMA AskOnce == ASSUME Inv, Once, NEW p \in Pipeline, NEW c, Ask(p, c) PROVE Once'
  <1> DEFINE t == [at |-> "asking", found |-> task[p].found, left |-> task[p].left,
                   key |-> task[p].key, attempts |-> task[p].attempts, claim |-> c,
                   view |-> bib]
  <1>1. task' = [task EXCEPT ![p] = t]
    BY DEF Ask
  <1>2. Found(t.view, t.found[t.claim].cand) = NoKey
    BY DEF Ask
  <1> HIDE DEF t
  <1> QED BY <1>1, <1>2, TaskOnce DEF Ask

LEMMA EnterOnce ==
    ASSUME Inv, Typed, Keyed, NEW m, IdentifiersResolve(m), Worked(m), Once,
           NEW p \in Pipeline, Enter(p)
    PROVE  Once'
  <1> DEFINE t == task[p]
             by == t.found[t.claim]
  <1>1. t.at = "asking"
    BY Zenon DEF Enter
  <1>2. TaskTyped(t, row[p]) /\ t # Idle
    BY <1>1 DEF Typed, PairTyped, Idle
  <1>3. t.claim \in Accepted(t.found) /\ TaskFaithful(m, t, bib)
    BY <1>1, <1>2 DEF TaskTyped, Worked
  <1>4. Means(m, by.cand, by.cand.work)
    BY <1>2, <1>3 DEF TaskFaithful, Faithful
  <1>e. PICK data \in Metadata(by.cand), raw \in BOOLEAN : \E e :
          /\ e = NewEntry(KeysOf(t.view), by.cand, data, by)
          /\ data.title # "" \/ raw
          /\ raw => Recorded(by.cand)
          /\ bib' = Append(bib, e)
          /\ task' = [task EXCEPT ![p] =
                        Entering(t, t.left \ {t.claim}, [t.key EXCEPT ![t.claim] = e.key],
                                 t.attempts)]
    BY DEF Enter
  <1>5. PICK e :
          /\ e = NewEntry(KeysOf(t.view), by.cand, data, by)
          /\ data.title # "" \/ raw
          /\ raw => Recorded(by.cand)
          /\ bib' = Append(bib, e)
          /\ task' = [task EXCEPT ![p] =
                        Entering(t, t.left \ {t.claim}, [t.key EXCEPT ![t.claim] = e.key],
                                 t.attempts)]
    BY <1>e
  <1>6. Named(e, by.cand)
    <2> HIDE DEF by
    <2>1. ASSUME NEW c, c = by.cand PROVE Named(e, c)
      <3>1. e = NewEntry(KeysOf(t.view), c, data, by)
        BY <1>5, <2>1
      <3>2. Means(m, c, c.work) /\ data \in Metadata(c) /\ (raw => Recorded(c))
        BY <1>4, <1>5, <2>1
      <3> QED BY <1>5, <3>1, <3>2, EntryIsNamed
    <2> QED BY <2>1
  <1>7. e.by = by /\ e.key # NoKey
    BY <1>5 DEF NewEntry, Suggested, NoKey
  <1>8. PICK n :
          /\ n \notin DOMAIN bib /\ DOMAIN bib' = DOMAIN bib \cup {n}
          /\ bib'[n] = e /\ \A i \in DOMAIN bib : bib'[i] = bib[i]
    BY <1>5, AppendedIsOneMore DEF Inv
  <1>9. EntriesAreNamed'
    <2>1. ASSUME NEW i \in DOMAIN bib'
          PROVE  /\ bib'[i].key # NoKey
                 /\ bib'[i].by # Author => Named(bib'[i], bib'[i].by.cand)
      <3>1. CASE i \in DOMAIN bib
        BY <1>8, <3>1 DEF Once, EntriesAreNamed
      <3>2. CASE i = n
        BY <1>6, <1>7, <1>8, <3>2
      <3> QED BY <1>8, <3>1, <3>2
    <2> QED BY <2>1 DEF EntriesAreNamed, Named, Author
  <1>10. AskedIsNew'
    <2>1. \A q \in Pipeline : q # p => task'[q] = task[q]
      BY <1>5 DEF Inv, TasksOK
    <2>2. task'[p].at = "entering"
      BY <1>5 DEF Entering, Inv, TasksOK
    <2> SUFFICES ASSUME NEW q \in Pipeline, task'[q].at = "asking"
                 PROVE  Found(task'[q].view, task'[q].found[task'[q].claim].cand) = NoKey
      BY DEF AskedIsNew
    <2>3. q # p
      BY <2>2
    <2> QED BY <2>1, <2>3 DEF Once, AskedIsNew
  <1>11. SourcesAreEnteredOnce'
    <2>0. overlap' = overlap
      BY DEF Enter
    <2> SUFFICES ASSUME ~ overlap
                 PROVE  \A i, j \in {k \in DOMAIN bib' : bib'[k].by # Author} :
                           bib'[i].by.cand = bib'[j].by.cand => i = j
      BY <2>0 DEF SourcesAreEnteredOnce, Author
    <2>1. t.view = bib /\ KeysAreUnique
      BY <1>1 DEF Keyed, ViewsAreCurrent
    <2>2. Found(bib, by.cand) = NoKey
      BY <1>1, <2>1 DEF Once, AskedIsNew
    <2>3. ASSUME NEW i \in DOMAIN bib, bib[i].by # Author PROVE bib[i].by.cand # by.cand
      <3>1. Named(bib[i], bib[i].by.cand)
        BY <2>3 DEF Once, EntriesAreNamed
      <3> HIDE DEF by
      <3>2. Found(bib, bib[i].by.cand) # NoKey
        BY <2>1, <3>1, NamedIsFound DEF Inv, Once
      <3> QED BY <2>2, <3>2
    <2>4. \A i, j \in {k \in DOMAIN bib : bib[k].by # Author} :
             bib[i].by.cand = bib[j].by.cand => i = j
      BY DEF Once, SourcesAreEnteredOnce
    <2>5. bib'[n].by = by
      BY <1>7, <1>8
    <2> HIDE DEF by
    <2> QED BY <1>8, <2>3, <2>4, <2>5
  <1> QED BY <1>9, <1>10, <1>11 DEF Once

LEMMA NextOnce ==
    ASSUME Inv, Typed, Keyed, NEW m, IdentifiersResolve(m), Worked(m), Once, [Next]_vars
    PROVE  Once'
  <1>1. CASE UNCHANGED <<task, bib, overlap>>
    BY <1>1, OnceRemains DEF Once, AskedIsNew
  <1>2. CASE Crash
    <2>1. AskedIsNew'
      BY <1>2 DEF Crash, AskedIsNew, Idle
    <2> QED BY <1>2, <2>1, OnceRemains DEF Crash
  <1>3. ASSUME NEW p \in Pipeline, Audit(p) \/ Find(p) \/ Redraft(p) PROVE Once'
    BY <1>1, <1>3 DEF Audit, Find, Redraft
  <1>4. ASSUME NEW p \in Pipeline, Verify(p) PROVE Once'
    <2>1. PICK found :
            task' = [task EXCEPT ![p] =
                        [at |-> "entering", found |-> found, left |-> Accepted(found),
                         key |-> [c \in DOMAIN row[p].gaps |-> found[c].cand.key],
                         attempts |-> 1]]
      BY <1>4 DEF Verify
    <2> QED BY <1>4, <2>1, TaskOnce DEF Verify
  <1>5. ASSUME NEW p \in Pipeline, NEW c, Reuse(p, c) \/ Refuse(p) PROVE Once'
    <2>1. \A left, key, attempts : Entering(task[p], left, key, attempts).at = "entering"
      BY DEF Entering
    <2>2. CASE Reuse(p, c)
      BY <2>1, <2>2, TaskOnce DEF Reuse
    <2>3. CASE Refuse(p)
      BY <2>1, <2>3, TaskOnce DEF Refuse
    <2> QED BY <1>5, <2>2, <2>3
  <1>6. ASSUME NEW p \in Pipeline, Stumble(p) \/ Conclude(p) PROVE Once'
    <2>1. \A left, key, attempts : Entering(task[p], left, key, attempts).at = "entering"
      BY DEF Entering
    <2>2. Idle.at = "idle"
      BY DEF Idle
    <2>3. CASE Stumble(p)
      BY <2>1, <2>2, <2>3, TaskOnce DEF Stumble
    <2>4. CASE Conclude(p)
      <3>1. task' = [task EXCEPT ![p] = Idle] /\ UNCHANGED <<bib, overlap>>
        BY <2>4, Zenon DEF Conclude
      <3> QED BY <2>2, <3>1, TaskOnce
    <2> QED BY <1>6, <2>3, <2>4
  <1> QED BY <1>1, <1>2, <1>3, <1>4, <1>5, <1>6, EnterOnce, AskOnce DEF Next, vars

-----------------------------------------------------------------------------
(* Theorems *)

\* For any drafts, sources and answers of the language model, and any interleaving and
\* crash: an entry the author did not write rests on a vetted verification
\* (CitationVerificationSkill.run's gates, BibtexValidator's refusals).
THEOREM EntriesAreVetted == Spec => []VettedEntries
  <1>1. Inv /\ [Next]_vars => Inv'
    BY NextInv
  <1>2. Inv => VettedEntries
    BY DEF Inv
  <1> QED BY InitInv, <1>1, <1>2, PTL DEF Spec

\* Rows, tasks and the file keep their shape (a task belongs to a row in CITATION_FIND,
\* and is about the claims of its gaps).
THEOREM TypeCorrect == Spec => []TypeOK
  <1>1. Inv /\ Typed /\ [Next]_vars => Inv' /\ Typed'
    BY NextInv, NextTypes
  <1>2. Inv /\ Typed => TypeOK
    BY TypedImpliesTypeOK
  <1> QED BY InitInv, InitTypes, <1>1, <1>2, PTL DEF Spec

\* If the author's keys differ, and handlers of two pipelines do not overlap, all keys
\* of references.bib differ: suggest_key has read the file as it is, for there is no
\* other task that could append to it, and a free number is always found.  With overlap
\* a key is taken twice only by tasks that all waited before the first appended.
THEOREM KeysDiffer == AuthorKeepsKeysApart => (Spec => []KeysStayApart)
  <1> SUFFICES ASSUME AuthorKeepsKeysApart PROVE Spec => []KeysStayApart
    OBVIOUS
  <1>1. Init => Inv /\ Keyed /\ Crowds
    BY InitInv, InitKeys, InitCrowds
  <1>2. Inv /\ Keyed /\ Crowds /\ [Next]_vars => Inv' /\ Keyed' /\ Crowds'
    BY NextInv, NextKeys, NextCrowds
  <1>3. Inv /\ Keyed /\ Crowds => KeysStayApart
    <2> SUFFICES ASSUME Inv, Keyed, Crowds, NEW i \in DOMAIN bib
                 PROVE  Cardinality(Holding(bib[i].key))
                          <= IF overlap THEN Cardinality(Pipeline) ELSE 1
      BY DEF KeysStayApart, Sharing, Holding
    <2>1. Holding(bib[i].key) # {}
      BY DEF Holding
    <2>2. CASE overlap
      <3>1. Cardinality(Holding(bib[i].key)) + Cardinality(Lacking(bib[i].key))
              <= Cardinality(Pipeline)
        BY <2>1 DEF Crowds, Crowded
      <3>2. Cardinality(Holding(bib[i].key)) \in Nat
        BY HoldingIsFinite DEF Inv
      <3>3. Cardinality(Lacking(bib[i].key)) \in Nat
        BY LackingIsFinite
      <3> QED BY <2>2, <3>1, <3>2, <3>3, SomePipeline
    <2>3. CASE ~ overlap
      <3>1. \A j, k \in Holding(bib[i].key) : j = k
        BY <2>3 DEF Keyed, KeysAreUnique, Holding
      <3> QED BY <2>3, <3>1, AtMostOne
    <2> QED BY <2>2, <2>3
  <1> QED BY <1>1, <1>2, <1>3, PTL DEF Spec

\* If moreover the author and the services tell the truth about whose an identifier or a
\* long title is, a pipeline past CITATION_VERIFY had all its claims accepted, and each
\* of its keys is, in the file as LaTeX reads it, an entry of the work that was verified.
THEOREM CitationsHold ==
    ASSUME NEW CONSTANT meaning, SourcesAreTruthful(meaning), AuthorKeepsKeysApart
    PROVE  Spec => []CitationsNameTheirSources
  <1> DEFINE W == Worked(meaning)
  <1>1. Init => Inv /\ Typed /\ Keyed /\ W
    BY InitInv, InitTypes, InitKeys, InitWorks
  <1>2. Inv /\ Typed /\ Keyed /\ W /\ [Next]_vars => Inv' /\ Typed' /\ Keyed' /\ W'
    BY NextInv, NextTypes, NextKeys, NextWorks
  <1>3. Inv /\ Typed /\ Keyed /\ W => CitationsNameTheirSources
    <2> SUFFICES ASSUME Inv, Keyed, W, ~ overlap, NEW p \in Pipeline,
                        row[p].state = "CITATION_VERIFY", NEW c \in DOMAIN row[p].settled
                 PROVE  /\ row[p].settled[c].verdict = "accept"
                        /\ row[p].cited[c] # NoKey =>
                             \E i \in Visible(bib) :
                                /\ bib[i].key = row[p].cited[c]
                                /\ bib[i].work = row[p].settled[c].cand.work
      BY DEF CitationsNameTheirSources
    <2>1. /\ row[p].settled[c].verdict = "accept"
          /\ row[p].cited[c] # NoKey =>
               EntryOf(bib, row[p].cited[c], row[p].settled[c].cand.work)
      BY DEF Worked, RowFaithful, SettledFaithful
    <2>2. ASSUME NEW i \in DOMAIN bib PROVE i \in Visible(bib)
      <3>1. \A j \in DOMAIN bib : bib[i].key = bib[j].key => i = j
        BY DEF Keyed, KeysAreUnique
      <3>2. PICK S : bib \in Seq(S)
        BY DEF Inv, BibOK
      <3>3. DOMAIN bib \subseteq Nat
        BY <3>2, LenProperties
      <3>4. \A j \in DOMAIN bib : j > i => j # i
        BY <3>3
      <3> QED BY <3>1, <3>4 DEF Visible
    <2> QED BY <2>1, <2>2 DEF EntryOf
  <1> HIDE DEF W
  <1> QED BY <1>1, <1>2, <1>3, PTL DEF Spec

\* If moreover the registries answer with the identifier they were asked for, and
\* handlers of two pipelines do not overlap, no candidate is entered twice: the entry
\* carries one of its identifiers even where the registries were silent, so a retry, a
\* handler run again after a crash, and another pipeline find it.
THEOREM EnteredOnce ==
    ASSUME NEW CONSTANT meaning, SourcesAreTruthful(meaning), IdentifiersResolve(meaning),
           AuthorKeepsKeysApart
    PROVE  Spec => []SourcesAreEnteredOnce
  <1> DEFINE W == Worked(meaning)
  <1>1. Init => Inv /\ Typed /\ Keyed /\ W /\ Once
    BY InitInv, InitTypes, InitKeys, InitWorks, InitOnce
  <1>2. Inv /\ Typed /\ Keyed /\ W /\ Once /\ [Next]_vars
          => Inv' /\ Typed' /\ Keyed' /\ W' /\ Once'
    BY NextInv, NextTypes, NextKeys, NextWorks, NextOnce
  <1>3. Once => SourcesAreEnteredOnce
    BY DEF Once
  <1> HIDE DEF W
  <1> QED BY <1>1, <1>2, <1>3, PTL DEF Spec

=============================================================================

------------------------------ MODULE Citation ------------------------------
(***************************************************************************)
(* The citation states of a pipeline (orchestrator/pipeline.py), the four  *)
(* agents of agents/citation, their skills in skills/citation, and the     *)
(* file all pipelines share: references.bib (knowledge/bib.py).            *)
(*                                                                         *)
(* _citation_verify is one handler with many awaits.  It judges candidates *)
(* for every gap, then BibtexValidator takes the accepted ones in turn: it *)
(* reads the bibliography, asks the registries, and appends an entry whose *)
(* key it chose from what it had read.  Other handlers may run in between, *)
(* and the process may stop; only references.bib and the row survive.      *)
(*                                                                         *)
(* A record of a source is what a service says of a work: DOI, arXiv id    *)
(* and title, "" for a missing id.  Which work is meant is known to the    *)
(* model alone.  What the language model answers is a choice from Answer.  *)
(***************************************************************************)
EXTENDS StateMachine, Integers, Sequences, FiniteSets

CONSTANTS
    Pipeline,
    Claim,          \* claims of the drafts that need a source
    Strict,         \* the claims of a type that requires a primary source
    Cases,          \* [draft |-> the claims of each first draft, overlap |-> as below]
    Listing,        \* Listing[c]: what the services offer for c: [work, doi, arxiv, title]
    Registry,       \* Registry[id]: the metadata a DOI or arXiv id resolves to
    Stem,           \* Stem[title]: author, year and first word, as a key has them
    Brief,          \* titles of at most 18 letters and digits
    Authored,       \* references.bib as the author left it
    Answer,         \* what the verifying model may say of a candidate
    MaxPool,        \* bound: candidates kept for a gap
    MaxTries,       \* CitationVerifier.execute: max_tries
    MaxAttempts,    \* agents.yaml: max_retries
    MaxCrashes      \* bound

ASSUME CitationAssumption ==
    /\ IsFiniteSet(Pipeline) /\ Pipeline # {}
    /\ Strict \subseteq Claim
    /\ Cases \subseteq [draft : [Pipeline -> SUBSET Claim], overlap : BOOLEAN]
    /\ Authored \in Seq({Authored[i] : i \in DOMAIN Authored})
    /\ \A i \in DOMAIN Authored :
         Authored[i].by = [verdict |-> "author"] /\ Authored[i].key # <<>>
    /\ \A a \in Answer : a.verdict \in {"accept", "reject", "needs_primary"}
    /\ MaxPool \in Nat /\ MaxTries \in Nat \ {0}
    /\ MaxAttempts \in Nat \ {0} /\ MaxCrashes \in Nat

VARIABLES
    row,        \* the pipeline's row and the data its handlers read back
    task,       \* a _citation_verify in progress
    bib,        \* references.bib, a sequence of entries
    overlap,    \* whether handlers of two pipelines may run at once
    crashes

vars == <<row, task, bib, overlap, crashes>>

-----------------------------------------------------------------------------
(* Sources *)

NoKey == <<>>
Author == [verdict |-> "author"]

\* A source as a candidate of a gap; one from references.bib has its key.
Candidate(source, key) ==
    [work |-> source.work, doi |-> source.doi, arxiv |-> source.arxiv,
     title |-> source.title, key |-> key]

\* _parse of the file: of two entries with one key the later one counts.
Visible(file) ==
    {i \in DOMAIN file : \A j \in DOMAIN file : j > i => file[j].key # file[i].key}

KeysOf(file) == {file[i].key : i \in DOMAIN file}

\* Under what _dedupe_candidates files a candidate.
Handle(c) == IF c.doi # "" THEN c.doi ELSE IF c.arxiv # "" THEN c.arxiv ELSE c.title

\* What the searches may return: the book's own entries and the services' listings.
Offered(file, claim) ==
    {Candidate(file[i], file[i].key) : i \in Visible(file)}
      \cup {Candidate(l, NoKey) : l \in Listing[claim]}

\* Candidates of one gap as the ranking orders them: none twice, some left out.
Pools(file, claim) ==
    {s \in UNION {[1 .. n -> Offered(file, claim)] : n \in 0 .. MaxPool} :
        \A i, j \in DOMAIN s : i # j => Handle(s[i]) # Handle(s[j])}

-----------------------------------------------------------------------------
(* The verifier *)

\* The gates of CitationVerificationSkill on the model's answer.
JudgedUnquoted(c, a, strict) ==
    [cand |-> c, strict |-> strict, quoted |-> a.quoted, laundered |-> a.laundered,
     supports |-> a.supports, lead |-> a.lead, identity |-> a.identity \/ c.key # NoKey,
     verdict |->
        IF a.supports \in {"does_not_support", "unverifiable"} THEN "reject"
        ELSE IF ~a.identity /\ c.key = NoKey THEN "reject"
        ELSE IF a.laundered THEN "needs_primary" ELSE a.verdict]

Judged(c, a, strict) ==
    LET asked  == IF a.laundered THEN "needs_primary" ELSE a.verdict
        known  == a.identity \/ c.key # NoKey
        backed == a.supports \notin {"does_not_support", "unverifiable"}
    IN  [cand |-> c, strict |-> strict, quoted |-> a.quoted, laundered |-> a.laundered,
         supports |-> a.supports, lead |-> a.lead, identity |-> known,
         verdict |-> IF \/ ~known
                        \/ ~backed
                        \/ asked = "accept" /\ strict /\ ~a.quoted
                     THEN "reject"
                     ELSE asked]

\* _unverifiable: what stands for a gap without candidates.
Unverifiable(strict) ==
    [cand |-> [work |-> "none", doi |-> "", arxiv |-> "", title |-> "", key |-> NoKey],
     strict |-> strict, quoted |-> FALSE, laundered |-> FALSE,
     supports |-> "unverifiable", lead |-> FALSE, identity |-> FALSE,
     verdict |-> "reject"]

\* The first attempt that was accepted, else _best_effort: a lead to the primary
\* source, else partial support, else the first.
Chosen(attempts) ==
    LET First(T) == attempts[CHOOSE i \in T : \A j \in T : i <= j]
        accepted == {i \in DOMAIN attempts : attempts[i].verdict = "accept"}
        leads    == {i \in DOMAIN attempts :
                        attempts[i].verdict = "needs_primary" /\ attempts[i].lead}
        partial  == {i \in DOMAIN attempts : attempts[i].supports = "partial"}
    IN  IF accepted # {} THEN First(accepted)
        ELSE IF leads # {} THEN First(leads)
        ELSE IF partial # {} THEN First(partial)
        ELSE attempts[1]

\* What later steps read of a verification: all of an accepted one, else its key.
Kept(v) == IF v.verdict = "accept" THEN v ELSE [verdict |-> "reject", cand |-> [key |-> v.cand.key]]

\* CitationVerifier for one gap: all it may conclude from a pool.
Conclusions(pool, strict) ==
    LET n == IF Len(pool) < MaxTries THEN Len(pool) ELSE MaxTries
    IN  IF n = 0
        THEN {Kept(Unverifiable(strict))}
        ELSE {Kept(Chosen([i \in 1 .. n |-> Judged(pool[i], said[i], strict)])) :
                 said \in [1 .. n -> Answer]}

-----------------------------------------------------------------------------
(* The bibliography *)

\* Mutant: any title will do to recognise a source.
FoundByTitle(file, c) ==
    LET same == {i \in Visible(file) : file[i].title = c.title}
    IN  IF same = {} THEN NoKey ELSE file[CHOOSE i \in same : \A j \in same : i <= j].key

\* _find_existing: the key of the entry for this source, by DOI, arXiv id or a title
\* long enough to mean one work.
Found(file, c) ==
    LET doi   == {i \in Visible(file) : c.doi # "" /\ file[i].doi = c.doi}
        arxiv == {i \in Visible(file) : c.arxiv # "" /\ file[i].arxiv = c.arxiv}
        title == {i \in Visible(file) : c.title \notin Brief /\ file[i].title = c.title}
        same  == IF doi # {} THEN doi ELSE IF arxiv # {} THEN arxiv ELSE title
    IN  IF same = {} THEN NoKey ELSE file[CHOOSE i \in same : \A j \in same : i <= j].key

\* Mutant: no look at the keys there are.
Suggested1(keys, title) == <<Stem[title], 1>>

\* suggest_key: the stem, with the first number that makes it new.
Suggested(keys, title) ==
    <<Stem[title],
      CHOOSE n \in 1 .. Cardinality(keys) + 1 :
         /\ <<Stem[title], n>> \notin keys
         /\ \A m \in 1 .. n - 1 : <<Stem[title], m>> \in keys>>

\* What the registries say of a candidate's ids: the DOI first, the arXiv id if the
\* DOI does not resolve.  Services fail, so any id may be left unanswered.
Metadata(c) ==
    {[doi |-> "", arxiv |-> "", title |-> ""]}
      \cup {Registry[id] : id \in {c.doi, c.arxiv} \ {""}}

\* Whether retrieve_bibtex can have a BibTeX record of it.
Recorded(c) == c.doi # "" \/ c.arxiv # ""

\* Mutant: the registry's identifiers only, none where the registry is silent.
NewEntryUnnamed(keys, c, data, by) ==
    LET title == IF data.title # "" THEN data.title ELSE c.title
    IN  [key |-> Suggested(keys, title), work |-> c.work, doi |-> data.doi,
         arxiv |-> data.arxiv, title |-> title, by |-> by]

\* The new entry: registry first, candidate where the registry is silent.
NewEntry(keys, c, data, by) ==
    LET Or(a, b) == IF a # "" THEN a ELSE b
        title    == Or(data.title, c.title)
    IN  [key |-> Suggested(keys, title), work |-> c.work, doi |-> Or(data.doi, c.doi),
         arxiv |-> Or(data.arxiv, c.arxiv), title |-> title, by |-> by]

-----------------------------------------------------------------------------
(* Rows and tasks *)

Idle == [at |-> "idle"]

Init ==
    /\ \E case \in Cases :
         /\ overlap = case.overlap
         /\ row = [p \in Pipeline |->
                     [state |-> "TECHNICAL_VERIFY", revisions |-> 0,
                      draft |-> case.draft[p], gaps |-> <<>>, pools |-> <<>>,
                      settled |-> <<>>, cited |-> <<>>, unsupported |-> <<>>]]
    /\ task = [p \in Pipeline |-> Idle]
    /\ bib = Authored
    /\ crashes = 0

\* A handler of p begins.
Steps(p, state) ==
    /\ row[p].state = state
    /\ task[p] = Idle
    /\ overlap \/ \A q \in Pipeline : task[q] = Idle

Accepted(found) == {c \in DOMAIN found : found[c].verdict = "accept"}

\* _citation_audit.  The auditor finds claims and their types; what only the writer
\* declared becomes a gap of the default type.  Without a gap the handler submits
\* EDITORIAL_VERIFY, no edge of TECHNICAL_VERIFY, and the row stays.
Audit(p) ==
    /\ Steps(p, "TECHNICAL_VERIFY")
    /\ \E found, declared \in SUBSET row[p].draft :
         /\ found \cup declared # {}
         /\ row' = [row EXCEPT ![p].state = "CITATION_AUDIT",
                               ![p].gaps = [c \in found \cup declared |->
                                               c \in found /\ c \in Strict]]
    /\ UNCHANGED <<task, bib, overlap, crashes>>

\* _citation_find.
Find(p) ==
    /\ Steps(p, "CITATION_AUDIT")
    /\ LET all == UNION {Pools(bib, c) : c \in DOMAIN row[p].gaps}
       IN  \E pools \in [DOMAIN row[p].gaps -> all] :
             /\ \A c \in DOMAIN pools : pools[c] \in Pools(bib, c)
             /\ row' = [row EXCEPT ![p].state = "CITATION_FIND", ![p].pools = pools]
    /\ UNCHANGED <<task, bib, overlap, crashes>>

\* What BibtexValidator has of its task t when it turns to the next verification.
Entering(t, left, key, attempts) ==
    [at |-> "entering", found |-> t.found, left |-> left, key |-> key,
     attempts |-> attempts]

\* _citation_verify, first part: CitationVerifier.
Verify(p) ==
    LET gaps == row[p].gaps
        all  == UNION {Conclusions(row[p].pools[c], gaps[c]) : c \in DOMAIN gaps}
    IN  /\ Steps(p, "CITATION_FIND")
        /\ \E found \in [DOMAIN gaps -> all] :
             /\ \A c \in DOMAIN gaps : found[c] \in Conclusions(row[p].pools[c], gaps[c])
             /\ task' = [task EXCEPT ![p] =
                           [at |-> "entering", found |-> found, left |-> Accepted(found),
                            key |-> [c \in DOMAIN gaps |-> found[c].cand.key],
                            attempts |-> 1]]
        /\ UNCHANGED <<row, bib, overlap, crashes>>

\* BibtexValidator takes an accepted source that the file has: its key is used.
Reuse(p, c) ==
    LET t == task[p]
    IN  /\ t.at = "entering"
        /\ c \in t.left
        /\ Found(bib, t.found[c].cand) # NoKey
        /\ task' = [task EXCEPT ![p] =
                      Entering(t, t.left \ {c},
                               [t.key EXCEPT ![c] = Found(bib, t.found[c].cand)],
                               t.attempts)]
        /\ UNCHANGED <<row, bib, overlap, crashes>>

\* The file does not have it: the registries are asked, with the file as read so far.
Ask(p, c) ==
    LET t == task[p]
    IN  /\ t.at = "entering"
        /\ c \in t.left
        /\ Found(bib, t.found[c].cand) = NoKey
        /\ task' = [task EXCEPT ![p] =
                      [at |-> "asking", found |-> t.found, left |-> t.left, key |-> t.key,
                       attempts |-> t.attempts, claim |-> c, view |-> bib]]
        /\ UNCHANGED <<row, bib, overlap, crashes>>

\* They answer, with metadata or at least a BibTeX record (raw): the entry is written.
Enter(p) ==
    LET t     == task[p]
        cand  == t.found[t.claim].cand
    IN  /\ t.at = "asking"
        /\ \E data \in Metadata(cand), raw \in BOOLEAN :
             LET entry == NewEntry(KeysOf(t.view), cand, data, t.found[t.claim])
             IN  /\ data.title # "" \/ raw
                 /\ raw => Recorded(cand)
                 /\ bib' = Append(bib, entry)
                 /\ task' = [task EXCEPT ![p] =
                               Entering(t, t.left \ {t.claim},
                                        [t.key EXCEPT ![t.claim] = entry.key],
                                        t.attempts)]
        /\ UNCHANGED <<row, overlap, crashes>>

\* Nothing resolves: the entry is refused, the verification remains an accepted one.
Refuse(p) ==
    LET t == task[p]
    IN  /\ t.at = "asking"
        /\ task' = [task EXCEPT ![p] =
                      Entering(t, t.left \ {t.claim}, t.key, t.attempts)]
        /\ UNCHANGED <<row, bib, overlap, crashes>>

\* An exception ends an attempt of BibtexValidator: BaseAgent.run starts over with
\* the same verifications, and gives up after the last attempt.
Stumble(p) ==
    LET t == task[p]
    IN  /\ t.at # "idle"
        /\ IF t.attempts < MaxAttempts
           THEN /\ task' = [task EXCEPT ![p] =
                              Entering(t, Accepted(t.found), t.key, t.attempts + 1)]
                /\ UNCHANGED row
           ELSE /\ task' = [task EXCEPT ![p] = Idle]
                /\ row' = [row EXCEPT ![p].state = "FAILED"]
        /\ UNCHANGED <<bib, overlap, crashes>>

\* Mutant: a claim counts as sourced as soon as its candidate has a key.
UnsourcedKeyless(t) == {c \in DOMAIN t.found : t.key[c] = NoKey}

\* The claims without an accepted citation that has a key.
Unsourced(t) == {c \in DOMAIN t.found : c \notin Accepted(t.found) \/ t.key[c] = NoKey}

\* The end of _citation_verify.  Only when something was rejected are the unsourced
\* claims counted; each is given the note of the first verification as its reason.
Conclude(p) ==
    LET t        == task[p]
        rejected == DOMAIN t.found \ Accepted(t.found)
        done     == [row[p] EXCEPT !.gaps = <<>>, !.pools = <<>>]
    IN  /\ t.at = "entering"
        /\ t.left = {}
        /\ IF rejected # {} /\ Unsourced(t) # {}
           THEN \E first \in DOMAIN t.found :
                  row' = [row EXCEPT ![p] =
                    [done EXCEPT
                       !.state = Landing("CITATION_FIND", "DRAFTED", row[p].revisions),
                       !.revisions = RevisionsAfter("CITATION_FIND", "DRAFTED", @),
                       !.unsupported = [c \in Unsourced(t) |-> first]]]
           ELSE row' = [row EXCEPT ![p] =
                    [done EXCEPT !.state = "CITATION_VERIFY",
                                 !.settled = t.found, !.cited = t.key]]
        /\ task' = [task EXCEPT ![p] = Idle]
        /\ UNCHANGED <<bib, overlap, crashes>>

\* _technical_verify with unsupported claims pending: the writer softens or cuts what
\* it likes, and the new draft passes the technical verifier.
Redraft(p) ==
    /\ Steps(p, "DRAFTED")
    /\ \E kept \in SUBSET row[p].draft :
         row' = [row EXCEPT ![p].state = "TECHNICAL_VERIFY", ![p].draft = kept,
                            ![p].unsupported = <<>>]
    /\ UNCHANGED <<task, bib, overlap, crashes>>

\* The process dies: what was in memory is gone, the file and the rows are not.
Crash ==
    /\ crashes < MaxCrashes
    /\ \E p \in Pipeline : task[p] # Idle
    /\ crashes' = crashes + 1
    /\ task' = [p \in Pipeline |-> Idle]
    /\ UNCHANGED <<row, bib, overlap>>

Next ==
    \/ \E p \in Pipeline :
         \/ Audit(p) \/ Find(p) \/ Verify(p) \/ Enter(p) \/ Refuse(p)
         \/ Stumble(p) \/ Conclude(p) \/ Redraft(p)
         \/ \E c \in Claim : Reuse(p, c) \/ Ask(p, c)
    \/ Crash

Spec == Init /\ [][Next]_vars

-----------------------------------------------------------------------------
(* Properties *)

\* Type invariant: of the rows, of the tasks and of the file.
TypeOK ==
    /\ \A p \in Pipeline :
         /\ row[p].state \in State
         /\ row[p].revisions \in 0 .. MaxRevisions + 1
         /\ row[p].draft \subseteq Claim
         /\ row[p].state \in {"CITATION_AUDIT", "CITATION_FIND"} => row[p].gaps # <<>>
         /\ row[p].state = "CITATION_FIND" => DOMAIN row[p].pools = DOMAIN row[p].gaps
         /\ task[p] # Idle =>
              /\ row[p].state = "CITATION_FIND"
              /\ DOMAIN task[p].found = DOMAIN row[p].gaps
              /\ DOMAIN task[p].key = DOMAIN row[p].gaps
              /\ task[p].left \subseteq Accepted(task[p].found)
              /\ task[p].at = "asking" => task[p].claim \in task[p].left
    /\ Len(bib) >= Len(Authored)
    /\ crashes \in 0 .. MaxCrashes

\* What the gates ask of an accepted verification.
Vetted(v) ==
    /\ v.verdict = "accept"
    /\ v.identity
    /\ ~ v.laundered
    /\ v.supports \notin {"does_not_support", "unverifiable"}
    /\ v.strict => v.quoted

\* No entry of references.bib that the author did not write rests on a verification
\* that a gate refuses: identity not confirmed, no support, laundering reported by its
\* own field, or no quotation for a claim that requires its primary source.  It holds
\* of every order of retries, crashes and pipelines, since the entry is made of the
\* verification that was judged.  The gates (audit.py:410-424) do not look at
\* everything the model may answer: see NothingLaunderedEnters.
VettedEntries ==
    \A i \in DOMAIN bib : bib[i].by = Author \/ Vetted(bib[i].by)

\* A pipeline past CITATION_VERIFY had every one of its claims accepted, and each key
\* it cites is, in the file LaTeX will read, the entry of the very work that was
\* verified: no reuse of an entry and no new entry of somebody else's gets in between.
\* Handlers of two pipelines must not overlap for it: see KeysAreUnique.
CitationsNameTheirSources ==
    ~overlap =>
        \A p \in Pipeline : row[p].state = "CITATION_VERIFY" =>
            \A c \in DOMAIN row[p].settled :
                /\ row[p].settled[c].verdict = "accept"
                /\ row[p].cited[c] # NoKey =>
                     \E i \in Visible(bib) :
                        /\ bib[i].key = row[p].cited[c]
                        /\ bib[i].work = row[p].settled[c].cand.work

\* How many entries of references.bib have this key.
Sharing(key) == Cardinality({i \in DOMAIN bib : bib[i].key = key})

\* No two entries of references.bib have one key as long as handlers of two pipelines
\* do not overlap, whatever crashes and repeats.  With overlap two may take one key,
\* but only while both wait for the registries: there are never more of one key than
\* pipelines, and no repeat adds another.
KeysStayApart ==
    \A i \in DOMAIN bib :
        Sharing(bib[i].key) <= IF overlap THEN Cardinality(Pipeline) ELSE 1

\* A source is entered once: the retry of BibtexValidator, the handler that runs again
\* after a crash, and the next pipeline meet the entry that was made for it, whatever
\* the registries contributed to it, and use its key (_find_existing).
SourcesAreEnteredOnce ==
    ~overlap =>
        \A i, j \in {k \in DOMAIN bib : bib[k].by # Author} :
            bib[i].by.cand = bib[j].by.cand => i = j

\* What the theorems about the citations take for granted of the author and the
\* services: meaning.id and meaning.title say which work an identifier or a long title
\* belongs to, whoever uses it, meaning.kind which are DOIs and which arXiv ids, and an
\* identifier resolves to metadata of its work.
Means(meaning, source, work) ==
    /\ \A id \in {source.doi, source.arxiv} \ {""} :
         id \in DOMAIN Registry /\ meaning.id[id] = work
    /\ source.doi # "" => meaning.kind[source.doi] = "doi"
    /\ source.arxiv # "" => meaning.kind[source.arxiv] = "arxiv"
    /\ source.title \notin Brief => meaning.title[source.title] = work

SourcesAreTruthful(meaning) ==
    /\ \A i \in DOMAIN Authored : Means(meaning, Authored[i], Authored[i].work)
    /\ \A c \in Claim : \A l \in Listing[c] : Means(meaning, l, l.work)
    /\ \A id \in DOMAIN Registry : Means(meaning, Registry[id], meaning.id[id])

\* Metadata carry the identifier they were asked for: DOIs are compared without case
\* (bibtex.py:187); of arXiv ids it is so of those with a dot (bib.py:61-69).
IdentifiersResolve(meaning) ==
    \A id \in DOMAIN Registry :
        /\ meaning.kind[id] = "doi" => Registry[id].doi = id
        /\ meaning.kind[id] = "arxiv" => Registry[id].arxiv = id

AuthorKeepsKeysApart ==
    \A i, j \in DOMAIN Authored : Authored[i].key = Authored[j].key => i = j

-----------------------------------------------------------------------------
(* What the code does not keep *)

\* Refuted: supports_claim has a value of its own for it (audit.py:72-73), and no gate
\* looks for that value when the model leaves laundering_detected unset.
NothingLaunderedEnters ==
    \A i \in DOMAIN bib : bib[i].by = Author \/ bib[i].by.supports # "laundered"

\* Refuted with overlap: both pipelines read the file before either appends.
KeysAreUnique == \A i, j \in DOMAIN bib : bib[i].key = bib[j].key => i = j

\* Refuted: an accepted source whose entry was refused counts as settled when no
\* other was rejected (pipeline.py, `if rejected:`).
ClaimsAreSourced ==
    \A p \in Pipeline : row[p].state = "CITATION_VERIFY" =>
        \A c \in DOMAIN row[p].settled : row[p].cited[c] # NoKey

\* Refuted: the preprint of a work and its published form get an entry each.
OneEntryPerWork == \A i, j \in DOMAIN bib : bib[i].work = bib[j].work => i = j

\* Refuted: a claim only the writer declared is of the default type, so the quotation
\* its own type would require is not asked for.
StrictClaimsAreQuoted ==
    \A p \in Pipeline : row[p].state = "CITATION_VERIFY" =>
        \A c \in DOMAIN row[p].settled \cap Strict : row[p].settled[c].quoted

\* Refuted: the reason given for every unsupported claim is the first one's.
ReasonsAreTheirOwn ==
    \A p \in Pipeline : \A c \in DOMAIN row[p].unsupported : row[p].unsupported[c] = c

=============================================================================

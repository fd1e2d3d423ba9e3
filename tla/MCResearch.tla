---------------------------- MODULE MCResearch ----------------------------
(* A paper on arXiv and in the ACL Anthology, a repository, and a digest of threads *)
(* of two sites.                                                                  *)
EXTENDS Research

Blank == [concepts |-> {}, claims |-> {}, numbers |-> {}, adoption |-> "moderate",
          notes |-> {}, interest |-> "low", threads |-> <<>>, pains |-> {}]

MCItem == {"ax", "ac", "gh", "hn"}
MCOrigin == [ax |-> "arxiv", ac |-> "acl", gh |-> "github", hn |-> "hackernews"]
MCIdentity == [ax |-> "X", ac |-> "X", gh |-> "", hn |-> ""]
MCReports ==
    [ax |-> {[Blank EXCEPT !.concepts = {"kv", "moe"}, !.claims = {"author", "shown"}]},
     ac |-> {[Blank EXCEPT !.concepts = {"kv"}, !.claims = {"author", "shown"}]},
     gh |-> {[Blank EXCEPT !.concepts = {"moe", "rag"}, !.adoption = "strong"]},
     hn |-> {[Blank EXCEPT !.concepts = {"rag", "rl"}, !.interest = "high",
                           !.threads = <<"hackernews", "hackernews", "github_discussion">>,
                           !.pains = {"slow"}]}]
MCFinds ==
    [arxiv_agent |-> {"ax"}, conference_agent |-> {"ac"},
     benchmark_agent |-> {"gh"}, community_agent |-> {"hn"}]

\* Embeddings join ax-gh, gh-hn and ac-hn: no three of them all fit each other.
MCCosine ==
    [p \in {{i, j} : i, j \in MCItem} |->
        IF p = {"ax", "gh"} THEN 90 ELSE IF p \in {{"gh", "hn"}, {"ac", "hn"}} THEN 88 ELSE 60]
============================================================================

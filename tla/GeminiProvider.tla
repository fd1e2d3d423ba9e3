--------------------------- MODULE GeminiProvider ---------------------------
(***************************************************************************)
(* livingbook/llm/gemini.py: calls to the model, many at a time, each      *)
(* walking its role's chain of models (_call_with_chain) with one request  *)
(* after another (_request), each of which tries several keys of the pool. *)
(*                                                                         *)
(* Between the choice of a key and the answer a call waits for the         *)
(* limiter's semaphore and for the provider: by then another call may have *)
(* cooled or retired the same key.  Pauses between attempts and sweeps,    *)
(* and acquire's sleeps, are points where other calls run, no more.        *)
(***************************************************************************)
EXTENDS KeyPool, Naturals

CONSTANTS
    Call,               \* concurrent callers
    Rejections,         \* the sets of keys the provider may be rejecting
    ChainLength,        \* models in the role's chain, 2 or 3
    MaxConcurrency,     \* llm.rate_limit.max_concurrency, 12
    MaxKeyAttempts,     \* llm.keypool.max_key_attempts, 3
    MaxAttempts,        \* llm.retry.max_attempts, 4
    ChainSweeps         \* llm.retry.chain_sweeps, 3

ASSUME ProviderAssumption ==
    /\ IsFiniteSet(Key)
    /\ Rejections \subseteq SUBSET Key
    /\ ChainLength \in Nat \ {0}
    /\ MaxConcurrency \in Nat \ {0}
    /\ MaxKeyAttempts \in Nat \ {0}
    /\ MaxAttempts \in Nat \ {0}
    /\ ChainSweeps \in Nat \ {0}

\* The requests that one call may send, all loops taken together.
Attempts == ChainSweeps * ChainLength * MaxAttempts * MaxKeyAttempts

\* Unless nothing works, fewer keys are dead than one call may send requests: 72 at the
\* least, as shipped.
RejectedAreFew ==
    \A dead \in Rejections : dead = Key \/ Cardinality(dead) < Attempts

VARIABLES
    rejected,   \* keys the provider does not accept; never changes
    stage,      \* stage[c]: idle, acquire, queued, sent
    at,         \* at[c]: sweep, model, attempt and key attempt under way
    tried,      \* tried[c]: keys of this request
    key,        \* key[c]: the key in use
    retryable,  \* retryable[c]: a failure of this sweep earns another
    failed,     \* failed[c]: the last call of c ended with AllModelsFailed
    heard       \* heard[c], history: this call was let down by something else
                \* than rejected keys

calls == <<stage, at, tried, key, retryable, failed, heard>>
provider == <<rejected, pool, calls>>

Place == [sweep : 1 .. ChainSweeps, model : 1 .. ChainLength,
          attempt : 1 .. MaxAttempts, keys : 1 .. MaxKeyAttempts]

TypeOK ==
    /\ PoolTypeOK
    /\ rejected \subseteq Key
    /\ stage \in [Call -> {"idle", "acquire", "queued", "sent"}]
    /\ at \in [Call -> Place]
    /\ tried \in [Call -> SUBSET Key]
    /\ key \in [Call -> Key \cup {"none"}]
    /\ retryable \in [Call -> BOOLEAN]
    /\ failed \in [Call -> BOOLEAN]
    /\ heard \in [Call -> BOOLEAN]

\* Where an attempt begins, with its first key.
Attempt(sweep, model, attempt) ==
    [sweep |-> sweep, model |-> model, attempt |-> attempt, keys |-> 1]

Start == Attempt(1, 1, 1)

ProviderInit ==
    /\ PoolInit
    /\ rejected \in Rejections
    /\ disabled \subseteq rejected
    /\ stage = [c \in Call |-> "idle"]
    /\ at = [c \in Call |-> Start]
    /\ tried = [c \in Call |-> {}]
    /\ key = [c \in Call |-> "none"]
    /\ retryable = [c \in Call |-> FALSE]
    /\ failed = [c \in Call |-> FALSE]
    /\ heard = [c \in Call |-> FALSE]

-----------------------------------------------------------------------------
(* _call_with_chain *)

\* A request from `place`; `again`: whether the sweep is retryable so far.
Requests(c, place, again) ==
    /\ stage' = [stage EXCEPT ![c] = "acquire"]
    /\ at' = [at EXCEPT ![c] = place]
    /\ tried' = [tried EXCEPT ![c] = {}]
    /\ key' = [key EXCEPT ![c] = "none"]
    /\ retryable' = [retryable EXCEPT ![c] = again]
    /\ failed' = [failed EXCEPT ![c] = FALSE]

\* generate, embed, ...: the chain is walked from its head.
Begins(c) ==
    /\ stage[c] = "idle"
    /\ Requests(c, Start, FALSE)
    /\ heard' = [heard EXCEPT ![c] = FALSE]
    /\ UNCHANGED <<rejected, pool>>

\* The call is over; what it worked with goes with it.
Ends(c, how) ==
    /\ stage' = [stage EXCEPT ![c] = "idle"]
    /\ at' = [at EXCEPT ![c] = Start]
    /\ tried' = [tried EXCEPT ![c] = {}]
    /\ key' = [key EXCEPT ![c] = "none"]
    /\ retryable' = [retryable EXCEPT ![c] = FALSE]
    /\ failed' = [failed EXCEPT ![c] = (how = "failed")]

\* The next model of the chain, or the next sweep if this one earned it.
Advances(c, earned) ==
    LET here == at[c]
    IN  \/ /\ here.model < ChainLength
           /\ Requests(c, Attempt(here.sweep, here.model + 1, 1), earned)
        \/ /\ here.model = ChainLength
           /\ earned /\ here.sweep < ChainSweeps
           /\ Requests(c, Attempt(here.sweep + 1, 1, 1), FALSE)
        \/ /\ here.model = ChainLength
           /\ ~earned \/ here.sweep = ChainSweeps
           /\ Ends(c, "failed")

\* Mutant: the loop over attempts does not count them.
RepeatsUncounted(c, earned) == Requests(c, [at[c] EXCEPT !.keys = 1], earned)

\* Another attempt on the same model, while there is one.
Repeats(c, earned) ==
    LET here == at[c]
    IN  \/ /\ here.attempt < MaxAttempts
           /\ Requests(c, Attempt(here.sweep, here.model, here.attempt + 1), earned)
        \/ /\ here.attempt = MaxAttempts
           /\ Advances(c, earned)

\* How _request failed decides what comes next: a bad request is raised, a
\* saturated model is stepped over, anything else is attempted again.  InvalidKey
\* falls to the last except clause, with TransientError.
Fails(c, failure) ==
    \/ failure = "malformed" /\ Ends(c, "raised")
    \/ failure = "unavailable" /\ Advances(c, TRUE)
    \/ failure = "quota" /\ Repeats(c, retryable[c])
    \/ failure \in {"limited", "invalid", "transient"} /\ Repeats(c, TRUE)

-----------------------------------------------------------------------------
(* _request *)

Moves(c, s) == stage' = [stage EXCEPT ![c] = s]

\* acquire returns a key: now for the limiter.
Acquires(c) ==
    /\ stage[c] = "acquire"
    /\ \E k \in Key :
          /\ Takes(tried[c], k)
          /\ key' = [key EXCEPT ![c] = k]
          /\ tried' = [tried EXCEPT ![c] = @ \cup {k}]
    /\ Moves(c, "queued")
    /\ UNCHANGED <<rejected, at, retryable, failed, heard>>

\* NoKeysAvailable, which _request raises as QuotaExhausted: all are disabled.
FindsNoKeys(c) ==
    /\ stage[c] = "acquire"
    /\ AllDisabled
    /\ Fails(c, "quota")
    /\ UNCHANGED <<rejected, pool, heard>>

\* The same when max_wait has passed: there was always a key about to recover, and
\* always another call that cooled it again.
LosesPatience(c) ==
    /\ stage[c] = "acquire"
    /\ MustWait(tried[c])
    /\ Fails(c, "quota")
    /\ heard' = [heard EXCEPT ![c] = TRUE]
    /\ UNCHANGED <<rejected, pool>>

\* The semaphore admits the request.
Sends(c) ==
    /\ stage[c] = "queued"
    /\ Cardinality({d \in Call : stage[d] = "sent"}) < MaxConcurrency
    /\ Moves(c, "sent")
    /\ UNCHANGED <<rejected, pool, at, tried, key, retryable, failed, heard>>

\* What the provider answers for k: whether it accepts a key is a fact, the rest
\* its mood.  A timeout is "unavailable"; a 200 that is not JSON raises, like a bad
\* request.
Answers(k) ==
    IF k \in rejected
    THEN {"invalid", "transient", "unavailable"}
    ELSE {"ok", "limited", "quota", "transient", "unavailable", "malformed"}

\* The pool is told of what concerns the key.
Reports(k, answer) ==
    CASE answer = "invalid"              -> Disables(k)
      [] answer \in {"limited", "quota"} -> Cools(k)
      [] OTHER                           -> UNCHANGED pool

\* A failure another key may not share: the next key, or the last failure is the
\* request's.
TriesNextKey(c, answer) ==
    \/ /\ at[c].keys < MaxKeyAttempts
       /\ Moves(c, "acquire")
       /\ at' = [at EXCEPT ![c].keys = @ + 1]
       /\ key' = [key EXCEPT ![c] = "none"]
       /\ UNCHANGED <<tried, retryable, failed>>
    \/ /\ at[c].keys = MaxKeyAttempts
       /\ Fails(c, answer)

\* Mutant: InvalidKey is raised at once, before the pool is told.
ReceivesUnreported(c, answer) ==
    /\ stage[c] = "sent"
    /\ answer \in Answers(key[c])
    /\ IF answer = "invalid" THEN UNCHANGED pool ELSE Reports(key[c], answer)
    /\ heard' = [heard EXCEPT ![c] = @ \/ answer # "invalid"]
    /\ \/ answer = "ok" /\ Ends(c, "answered")
       \/ answer \in {"limited", "quota", "transient"} /\ TriesNextKey(c, answer)
       \/ answer \in {"invalid", "unavailable", "malformed"} /\ Fails(c, answer)
    /\ UNCHANGED rejected

Receives(c, answer) ==
    /\ stage[c] = "sent"
    /\ answer \in Answers(key[c])
    /\ Reports(key[c], answer)
    /\ heard' = [heard EXCEPT ![c] = @ \/ answer # "invalid"]
    /\ \/ answer = "ok" /\ Ends(c, "answered")
       \/ answer \in {"limited", "quota", "invalid", "transient"}
             /\ TriesNextKey(c, answer)
       \/ answer \in {"unavailable", "malformed"} /\ Fails(c, answer)
    /\ UNCHANGED rejected

\* Time passes for the pool.
Passes == (EntersGrace \/ Recovers) /\ UNCHANGED <<rejected, calls>>

-----------------------------------------------------------------------------

Answer == {"ok", "limited", "quota", "invalid", "transient", "unavailable", "malformed"}

Proceeds(c) ==
    \/ Acquires(c) \/ FindsNoKeys(c) \/ LosesPatience(c)
    \/ Sends(c)
    \/ \E answer \in Answer : Receives(c, answer)

ProviderNext == Passes \/ \E c \in Call : Begins(c) \/ Proceeds(c)

ProviderSpec == ProviderInit /\ [][ProviderNext]_provider

\* Time passes, and every call goes on: requests have timeouts, sleeps end, and the
\* semaphore serves its waiters in turn.  Nobody has to make a call.
Fairness == WF_provider(Passes) /\ \A c \in Call : SF_provider(Proceeds(c))

FairSpec == ProviderSpec /\ Fairness

-----------------------------------------------------------------------------
(* Properties *)

\* A call never fails on rejected keys alone while the pool has a key that works:
\* they are retired before they have used up the attempts of the call, whichever
\* calls come upon them.
GoodKeysHaveTheirTurn ==
    \A c \in Call : failed[c] => heard[c] \/ rejected = Key

\* Every call comes back to its caller, whatever the provider answers, while other
\* calls cool and retire the keys it counts on.
CallsEnd == \A c \in Call : stage[c] # "idle" ~> stage[c] = "idle"

=============================================================================

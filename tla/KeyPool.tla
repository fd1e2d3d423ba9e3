------------------------------ MODULE KeyPool ------------------------------
(***************************************************************************)
(* livingbook/llm/keypool.py: the pool of interchangeable API keys one     *)
(* process shares between all its calls.  Every operation holds the pool's *)
(* asyncio lock for as long as it reads and writes, so each is one step.   *)
(*                                                                         *)
(* All cooldowns last equally long and no shorter than acquire's grace, so *)
(* cooldown_until is abstracted to an order: the keys cooling, the one to  *)
(* recover first at the head, in two parts, those that recover within the  *)
(* grace and the later ones.  Counters are statistics and left out.        *)
(***************************************************************************)
EXTENDS Sequences, SequencesExt

CONSTANT Key

VARIABLES
    disabled,   \* keys retired for good
    soon,       \* keys cooling that recover within the grace, in order
    cooling     \* keys cooling for longer, in order

pool == <<disabled, soon, cooling>>

\* All that are cooling, in the order in which they recover.
Recovering == soon \o cooling

Without(line, k) ==
    IF k \in ToSet(line)
    THEN RemoveAt(line, CHOOSE n \in DOMAIN line : line[n] = k)
    ELSE line

PoolTypeOK ==
    /\ disabled \subseteq Key
    /\ Recovering \in Seq(Key)
    /\ IsInjective(Recovering)

\* What an earlier process retired stays retired (_load_stats); cooldowns end with it.
PoolInit == disabled \in SUBSET Key /\ soon = <<>> /\ cooling = <<>>

-----------------------------------------------------------------------------
(* acquire *)

AllDisabled == disabled = Key

\* The keys acquire chooses among: those the request has not tried, or once it has
\* tried them all, any.
Live(tried) ==
    LET fresh == Key \ (disabled \cup tried)
    IN  IF fresh # {} THEN fresh ELSE Key \ disabled

Ready(tried) == Live(tried) \ ToSet(Recovering)

\* The first of them to recover, when none is ready.
Soonest(tried) ==
    Recovering[Min({n \in DOMAIN Recovering : Recovering[n] \in Live(tried)})]

\* What acquire hands out: any ready key, or, when the wait for the soonest would
\* exceed the grace, that one at once.
Takes(tried, k) ==
    \/ k \in Ready(tried) /\ UNCHANGED pool
    \/ /\ Live(tried) # {} /\ Ready(tried) = {}
       /\ k = Soonest(tried)
       /\ k \notin ToSet(soon)
       /\ cooling' = Without(cooling, k)
       /\ UNCHANGED <<disabled, soon>>

\* It sleeps until that key recovers, and looks again.
MustWait(tried) ==
    /\ Live(tried) # {} /\ Ready(tried) = {}
    /\ Soonest(tried) \in ToSet(soon)

-----------------------------------------------------------------------------
(* Reports *)

\* Mutant: a key that is cooling already is put in line once more.
CoolsTwice(k) ==
    /\ cooling' = Append(cooling, k)
    /\ UNCHANGED <<disabled, soon>>

\* report_cooldown
Cools(k) ==
    /\ soon' = Without(soon, k)
    /\ cooling' = Append(Without(cooling, k), k)
    /\ UNCHANGED disabled

\* report_invalid, which every caller asks to retire the key immediately.
Disables(k) ==
    /\ disabled' = disabled \cup {k}
    /\ UNCHANGED <<soon, cooling>>

-----------------------------------------------------------------------------
(* Time *)

EntersGrace ==
    /\ cooling # <<>>
    /\ soon' = Append(soon, Head(cooling))
    /\ cooling' = Tail(cooling)
    /\ UNCHANGED disabled

Recovers ==
    /\ soon # <<>>
    /\ soon' = Tail(soon)
    /\ UNCHANGED <<disabled, cooling>>

=============================================================================

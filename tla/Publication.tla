---------------------------- MODULE Publication ----------------------------
(***************************************************************************)
(* What the pipeline promises about the book, without its states: a draft  *)
(* is written only while a verdict sanctions it, the four verification     *)
(* gates certify it in order, a new draft carries no certificate over, and *)
(* only a draft that every gate certified is committed.                    *)
(* PipelineDriver is shown to implement this module.                       *)
(***************************************************************************)
VARIABLES
    sanctioned,     \* the latest verdict allows the manuscript to change
    certified,      \* the gates that passed the draft in hand
    shipped         \* a commit has been made for this research cluster

pubVars == <<sanctioned, certified, shipped>>

Gates == {"technical", "citation", "editorial", "qa"}

\* The order of the gates: each judges only what the earlier ones certified.
Precedes == { <<"technical", "citation">>, <<"technical", "editorial">>,
              <<"technical", "qa">>, <<"citation", "editorial">>,
              <<"citation", "qa">>, <<"editorial", "qa">> }

Before(g) == {h \in Gates : <<h, g>> \in Precedes}

PubInit == sanctioned = FALSE /\ certified = {} /\ shipped = FALSE

\* A verdict is issued, or a human approves one.
Decide == sanctioned' \in BOOLEAN /\ UNCHANGED <<certified, shipped>>

\* A new draft replaces the one in hand; it may be verified technically in the
\* same step.
Write == /\ sanctioned
         /\ certified' \in {{}, {"technical"}}
         /\ UNCHANGED <<sanctioned, shipped>>

Certify(g) == /\ Before(g) \subseteq certified
              /\ certified' = certified \cup {g}
              /\ UNCHANGED <<sanctioned, shipped>>

Refuse(g) == /\ certified' = certified \ {g}
             /\ UNCHANGED <<sanctioned, shipped>>

Ship == /\ sanctioned
        /\ certified = Gates
        /\ shipped' = TRUE
        /\ UNCHANGED <<sanctioned, certified>>

PubNext == \/ Decide \/ Write \/ Ship
           \/ \E g \in Gates : Certify(g) \/ Refuse(g)

PubSpec == PubInit /\ [][PubNext]_pubVars

=============================================================================

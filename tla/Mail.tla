-------------------------------- MODULE Mail --------------------------------
(***************************************************************************)
(* livingbook/tools/email_tools.py: the mails of a pipeline and the table  *)
(* emails_sent, whose row with the mail's key keeps a repeated step from   *)
(* sending again.  A session with the mail server serves recipients one by *)
(* one; rows are written after the session, and only if it ended well.     *)
(***************************************************************************)
EXTENDS Naturals

CONSTANTS
    Key,            \* dedupe keys
    Recipient,
    MaxBreaks       \* bound: sessions with one key that break off

ASSUME MailAssumption == MaxBreaks \in Nat

VARIABLES
    noted,          \* the keys in emails_sent
    served,         \* served[k]: whom k's last session served, until it is noted
    received,       \* received[k][r]: how many mails with key k are in r's box
    broken          \* broken[k]: k's sessions that ended before they were noted

mail == <<noted, served, received, broken>>

MailTypeOK ==
    /\ noted \subseteq Key
    /\ served \in [Key -> SUBSET Recipient]
    /\ received \in [Key -> [Recipient -> Nat]]
    /\ broken \in [Key -> 0 .. MaxBreaks]

MailInit ==
    /\ noted = {}
    /\ served = [k \in Key |-> {}]
    /\ received = [k \in Key |-> [r \in Recipient |-> 0]]
    /\ broken = [k \in Key |-> 0]

Reaches(k, some) ==
    received' = [received EXCEPT ![k] =
                    [r \in Recipient |-> IF r \in some THEN @[r] + 1 ELSE @[r]]]

\* _send_all returns: an address that is refused does not stop the others.
Serves(k, some) ==
    /\ k \notin noted
    /\ Reaches(k, some)
    /\ served' = [served EXCEPT ![k] = some]
    /\ UNCHANGED <<noted, broken>>

\* No connection is made, or QUIT is refused after some were served: the exception
\* leaves _send_all, and what it knew of its results is lost.
BreaksOff(k, some) ==
    /\ k \notin noted
    /\ broken[k] < MaxBreaks
    /\ Reaches(k, some)
    /\ broken' = [broken EXCEPT ![k] = @ + 1]
    /\ UNCHANGED <<noted, served>>

\* The process dies before the rows are written.
Forgets(k) ==
    /\ broken[k] < MaxBreaks
    /\ served' = [served EXCEPT ![k] = {}]
    /\ broken' = [broken EXCEPT ![k] = @ + 1]
    /\ UNCHANGED <<noted, received>>

\* Mutant: only a mail that everybody got is a mail sent.
NotesComplete(k) ==
    /\ served[k] # {}
    /\ noted' = IF served[k] = Recipient THEN noted \cup {k} ELSE noted
    /\ served' = [served EXCEPT ![k] = {}]
    /\ UNCHANGED <<received, broken>>

\* A row for each recipient served, all with the same key.
Notes(k) ==
    /\ served[k] # {}
    /\ noted' = noted \cup {k}
    /\ served' = [served EXCEPT ![k] = {}]
    /\ UNCHANGED <<received, broken>>

=============================================================================

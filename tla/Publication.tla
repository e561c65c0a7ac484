---------------------------- MODULE Publication -----------------------------
(***************************************************************************)
(* What an export promises of one event_date, when runs follow each other  *)
(* (iceberg.go, "replace rather than duplicate"): the date is cleared, the *)
(* rows of one read are published into the cleared date, all at once, each *)
(* row once, and a date is attested only while it holds exactly the rows   *)
(* it is attested for.  The promise allows a cleared date to stay under an *)
(* older attestation, and the code meets it in no stronger form.           *)
(***************************************************************************)
EXTENDS Integers, FiniteSets

CONSTANTS TripIDs, Dates, EventDate, None

VARIABLES
    content,    \* how many copies of each trip the date holds in the lake
    attested    \* the trips a success manifest stands for, or None

vars == <<content, attested>>

RowsOf(d) == {t \in TripIDs : EventDate[t] = d}
Once(S) == [t \in TripIDs |-> IF t \in S THEN 1 ELSE 0]

Init == /\ content = [d \in Dates |-> Once({})]
        /\ attested = [d \in Dates |-> None]

Clear(d) == /\ content' = [content EXCEPT ![d] = Once({})]
            /\ UNCHANGED attested

Publish(d, S) == /\ content[d] = Once({})
                 /\ content' = [content EXCEPT ![d] = Once(S)]
                 /\ UNCHANGED attested

Attest(d, S) == /\ content[d] = Once(S)
                /\ attested' = [attested EXCEPT ![d] = S]
                /\ UNCHANGED content

Withdraw(d) == /\ attested' = [attested EXCEPT ![d] = None]
               /\ UNCHANGED content

Next == \E d \in Dates :
           \/ Clear(d) \/ Withdraw(d)
           \/ \E S \in SUBSET RowsOf(d) : Publish(d, S) \/ Attest(d, S)

Spec == Init /\ [][Next]_vars
=============================================================================

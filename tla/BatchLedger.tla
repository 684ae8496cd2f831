----------------------------- MODULE BatchLedger -----------------------------
(***************************************************************************)
(* What a reader of ClickHouse may rely on, whatever the workers do: a     *)
(* batch gets answers only once it was submitted, an answered row stays    *)
(* answered, and a batch becomes complete, for good, only when all its     *)
(* rows have an answer.                                                    *)
(***************************************************************************)
CONSTANTS Batches, Inputs

VARIABLES
    submitted,      \* batches with a "pending" status row
    answered,       \* answered[b]: rows with at least one result
    complete        \* batches with a "complete" status row

vars == <<submitted, answered, complete>>

TypeOK ==
    /\ submitted \subseteq Batches
    /\ \A b \in Batches : answered[b] \subseteq Inputs[b]
    /\ complete \subseteq Batches

Init ==
    /\ submitted = {}
    /\ answered = [b \in Batches |-> {}]
    /\ complete = {}

Submit(b) ==
    /\ b \notin submitted
    /\ submitted' = submitted \cup {b}
    /\ UNCHANGED <<answered, complete>>

\* Some rows, answered before or not, get a result.
Answer(b, rows) ==
    /\ b \in submitted
    /\ answered' = [answered EXCEPT ![b] = @ \cup rows]
    /\ UNCHANGED <<submitted, complete>>

Complete(b) ==
    /\ b \in submitted \ complete
    /\ answered[b] = Inputs[b]
    /\ complete' = complete \cup {b}
    /\ UNCHANGED <<submitted, answered>>

Next == \E b \in Batches :
    \/ Submit(b)
    \/ \E rows \in SUBSET Inputs[b] : Answer(b, rows)
    \/ Complete(b)

Spec == Init /\ [][Next]_vars
=============================================================================

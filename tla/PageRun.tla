------------------------------- MODULE PageRun -------------------------------
(***************************************************************************)
(* What BatchExecutor.process_batch_iter promises its caller about one     *)
(* page of rows, whatever its threads do: every row is yielded at most     *)
(* once, a run that ends normally has yielded all of them, and a row is    *)
(* reported as aborted only after some row was denied by the provider.     *)
(* A run the caller drops early (the generator is closed), or that dies of *)
(* an exception, promises nothing about the rows not yet yielded.          *)
(***************************************************************************)
CONSTANT Rows

VARIABLES
    phase,      \* "open" while results may still come, then "ended" or "closed"
    left,       \* the rows not yet yielded
    out,        \* what was yielded for a row, "none" before
    denied      \* the provider has refused the credentials or permissions

vars == <<phase, left, out, denied>>

Outcome == {"complete", "failed", "aborted"}

TypeOK ==
    /\ phase \in {"open", "ended", "closed"}
    /\ left \subseteq Rows
    /\ out \in [Rows -> Outcome \cup {"none"}]
    /\ denied \in BOOLEAN

Init ==
    /\ phase = "open"
    /\ left = Rows
    /\ out = [r \in Rows |-> "none"]
    /\ denied = FALSE

\* The provider answers a row with an authentication or permission error; the
\* threads may still meet it after the caller has gone.
Deny ==
    /\ denied' = TRUE
    /\ UNCHANGED <<phase, left, out>>

Yield(r, o) ==
    /\ phase = "open"
    /\ r \in left
    /\ o = "aborted" => denied
    /\ left' = left \ {r}
    /\ out' = [out EXCEPT ![r] = o]
    /\ UNCHANGED <<phase, denied>>

End ==
    /\ phase = "open"
    /\ left = {}
    /\ phase' = "ended"
    /\ UNCHANGED <<left, out, denied>>

Close ==
    /\ phase = "open"
    /\ phase' = "closed"
    /\ UNCHANGED <<left, out, denied>>

Next ==
    \/ Deny
    \/ \E r \in Rows, o \in Outcome : Yield(r, o)
    \/ End
    \/ Close

Spec == Init /\ [][Next]_vars
=============================================================================

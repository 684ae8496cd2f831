-------------------------- MODULE MCLLMWorkerService --------------------------
(***************************************************************************)
(* Small instances of LLMWorkerService for TLC.                            *)
(***************************************************************************)
EXTENDS LLMWorkerService, TLC

\* Two batches that share a row id.
MCInputs == 1 :> {1, 2} @@ 2 :> {2}

\* With PageSize 3 the first batch has a full page and a short one.
MCInputsLong == 1 :> {1, 2, 3, 4} @@ 2 :> {2}

\* The second batch has no rows.
MCInputsEmpty == 1 :> {1, 2} @@ 2 :> {}

\* One batch of two rows.
MCInputsOne == 1 :> {1, 2}

MCSymmetry == Permutations(Workers)
=============================================================================

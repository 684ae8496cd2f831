------------------------- MODULE BatchExecutor_proofs -------------------------
(***************************************************************************)
(* Proofs about BatchExecutor for every page size, pool size and number of *)
(* attempts: its safety properties and that it implements PageRun.         *)
(***************************************************************************)
EXTENDS BatchExecutor, FiniteSetTheorems, TLAPS

-----------------------------------------------------------------------------
(* The inductive invariant, one named part per idea.                       *)

\* A row is still in pending_inputs, ...
Waits(r) == r >= nextInput

\* ... or held by in_flight and not yet dealt with by the loop over it, ...
Held(r) ==
    \/ pc \in {"fill", "wait", "drain", "cancel"} /\ r \in inFlight
    \/ pc = "collect" /\ r \in todo

\* ... or listed in abortedRows, or emitted: exactly one of the four, until the
\* generator is left early.
OnePlace(r) ==
    /\ abortedRows[r] \in {0, 1}
    /\ Waits(r) \/ Held(r) \/ abortedRows[r] = 1 \/ emitted[r] = 1
    /\ Waits(r) => ~Held(r) /\ abortedRows[r] = 0 /\ emitted[r] = 0
    /\ Held(r) => abortedRows[r] = 0 /\ emitted[r] = 0
    /\ abortedRows[r] = 1 => emitted[r] = 0

Places ==
    /\ pc \notin {"closing", "closed", "dropped"} => \A r \in Rows : OnePlace(r)
    /\ \A r \in Rows : emitted[r] \in {0, 1}
    /\ \A r \in Rows : output[r] # "none" => emitted[r] = 1

\* The generator leaves its main loop only when no row waits.
LoopDone ==
    /\ pc = "wait" => Cardinality(inFlight) >= MaxWorkers \/ nextInput = NumRows + 1
    /\ pc \in {"cancel", "collect", "exit", "tail", "done"} => nextInput = NumRows + 1
    /\ pc = "done" => \A r \in Rows : abortedRows[r] = 0
    /\ pc = "drain" => \A r \in todo : future[r] = "finished"
    /\ pc = "cancel" => abortEvent
    /\ atYield => pc \in {"drain", "collect", "tail"}

\* What a row's future says about its place, its calls and its result.
Futures ==
    \A r \in Rows :
        /\ Waits(r) => future[r] = "unsubmitted"
        /\ future[r] \in {"unsubmitted", "pending", "entered", "cleared", "cancelled"}
              => attempts[r] = 0
        /\ lateCalls[r] <= attempts[r]
        /\ future[r] = "backoff" => attempts[r] < MaxAttempts
        /\ future[r] = "finished" <=> result[r] # "none"

\* Who may be reported as aborted.
Aborted ==
    \A r \in Rows :
        /\ future[r] = "cancelled" => abortEvent
        /\ result[r] = "aborted" => abortEvent /\ attempts[r] = 0
        /\ abortedRows[r] > 0 => abortEvent /\ future[r] \in {"unsubmitted", "cancelled"}
        /\ output[r] = "aborted" =>
              abortEvent /\ attempts[r] = 0
                         /\ future[r] \in {"unsubmitted", "cancelled", "finished"}

\* The rows past the abort check that may call the provider again, and those that
\* have called it since the event was set.
Callers == {r \in Rows : future[r] \in {"cleared", "calling", "backoff"}}
Late == LateCallers \cup Callers

LateInv ==
    /\ Cardinality(Running) <= MaxWorkers
    /\ ~abortEvent => LateCallers = {}
    /\ abortEvent => Cardinality(Late) < MaxWorkers

RowsInv == TypeOK /\ Futures /\ Aborted
LoopInv == Places /\ LoopDone /\ QuietAfterExit

IInv == RowsInv /\ LoopInv /\ LateInv

-----------------------------------------------------------------------------
(* Every step preserves it.                                                *)

\* Sets of rows are finite and their cardinalities ordered by inclusion.
LEMMA RowSets ==
    ASSUME NEW S \in SUBSET Rows, NEW T \in SUBSET S
    PROVE  /\ IsFiniteSet(S) /\ Cardinality(S) \in Nat /\ Cardinality(T) \in Nat
           /\ Cardinality(T) <= Cardinality(S)
<1>1. IsFiniteSet(Rows)
  BY NumRowsAssumption, FS_Interval DEF Rows
<1>2. IsFiniteSet(S) /\ IsFiniteSet(T)
  BY <1>1, FS_Subset
<1> QED BY <1>2, FS_Subset, FS_CardinalityType

LEMMA ThreadStep ==
    ASSUME NEW r \in Rows, RowsInv, LoopInv, Thread(r)
    PROVE  RowsInv' /\ LoopInv'
<1> USE NumRowsAssumption, MaxWorkersAssumption, MaxAttemptsAssumption
    DEF RowsInv, LoopInv, threadVars, listVars, outVars
<1>1. CASE Start(r)
  <2>1. TypeOK'
    BY <1>1 DEF Start, TypeOK, FutureStates, RunningStates
  <2>2. Futures'
    BY <1>1 DEF Start, Futures, Waits
  <2>3. Aborted'
    BY <1>1 DEF Start, Aborted
  <2>4. Places'
    BY <1>1 DEF Start, Places, OnePlace, Waits, Held
  <2>5. LoopDone'
    BY <1>1 DEF Start, LoopDone
  <2>6. QuietAfterExit'
    BY <1>1 DEF Start, QuietAfterExit, Active
  <2> QED BY <2>1, <2>2, <2>3, <2>4, <2>5, <2>6
<1>2. CASE SkipAborted(r)
  <2>1. TypeOK'
    BY <1>2 DEF SkipAborted, Return, TypeOK, FutureStates, Outcome
  <2>2. Futures'
    BY <1>2 DEF SkipAborted, Return, TypeOK, Futures, Waits
  <2>3. Aborted'
    BY <1>2 DEF SkipAborted, Return, Aborted, Futures
  <2>4. Places'
    BY <1>2 DEF SkipAborted, Return, Places, OnePlace, Waits, Held
  <2>5. LoopDone'
    BY <1>2 DEF SkipAborted, Return, LoopDone
  <2>6. QuietAfterExit'
    BY <1>2 DEF SkipAborted, Return, QuietAfterExit, Active, RunningStates
  <2> QED BY <2>1, <2>2, <2>3, <2>4, <2>5, <2>6
<1>3. CASE ClearAbortCheck(r)
  <2>1. TypeOK'
    BY <1>3 DEF ClearAbortCheck, TypeOK, FutureStates, RunningStates
  <2>2. Futures'
    BY <1>3 DEF ClearAbortCheck, Futures, Waits
  <2>3. Aborted'
    BY <1>3 DEF ClearAbortCheck, Aborted
  <2>4. Places'
    BY <1>3 DEF ClearAbortCheck, Places, OnePlace, Waits, Held
  <2>5. LoopDone'
    BY <1>3 DEF ClearAbortCheck, LoopDone
  <2>6. QuietAfterExit'
    BY <1>3 DEF ClearAbortCheck, QuietAfterExit, Active, RunningStates
  <2> QED BY <2>1, <2>2, <2>3, <2>4, <2>5, <2>6
<1>4. CASE RejectMalformed(r)
  <2>1. TypeOK'
    BY <1>4 DEF RejectMalformed, Return, TypeOK, FutureStates, Outcome
  <2>2. Futures'
    BY <1>4 DEF RejectMalformed, Return, TypeOK, Futures, Waits
  <2>3. Aborted'
    BY <1>4 DEF RejectMalformed, Return, Aborted
  <2>4. Places'
    BY <1>4 DEF RejectMalformed, Return, Places, OnePlace, Waits, Held
  <2>5. LoopDone'
    BY <1>4 DEF RejectMalformed, Return, LoopDone
  <2>6. QuietAfterExit'
    BY <1>4 DEF RejectMalformed, Return, QuietAfterExit, Active, RunningStates
  <2> QED BY <2>1, <2>2, <2>3, <2>4, <2>5, <2>6
<1>5. CASE RaiseUnexpected(r)
  <2>1. TypeOK'
    BY <1>5 DEF RaiseUnexpected, Return, TypeOK, FutureStates
  <2>2. Futures'
    BY <1>5 DEF RaiseUnexpected, Return, TypeOK, Futures, Waits
  <2>3. Aborted'
    BY <1>5 DEF RaiseUnexpected, Return, Aborted
  <2>4. Places'
    BY <1>5 DEF RaiseUnexpected, Return, Places, OnePlace, Waits, Held
  <2>5. LoopDone'
    BY <1>5 DEF RaiseUnexpected, Return, LoopDone
  <2>6. QuietAfterExit'
    BY <1>5 DEF RaiseUnexpected, Return, QuietAfterExit, Active, RunningStates
  <2> QED BY <2>1, <2>2, <2>3, <2>4, <2>5, <2>6
<1>6. CASE BeginCall(r)
  <2>0. attempts[r] < MaxAttempts /\ lateCalls[r] <= attempts[r]
    BY <1>6 DEF BeginCall, Futures
  <2>1. TypeOK'
    BY <1>6, <2>0 DEF BeginCall, TypeOK, FutureStates, RunningStates
  <2>2. Futures'
    <3>1. \A q \in Rows : lateCalls'[q] <= attempts'[q]
      BY <1>6 DEF BeginCall, TypeOK, Futures
    <3> QED BY <1>6, <2>0, <3>1 DEF BeginCall, TypeOK, Futures, Waits
  <2>3. Aborted'
    BY <1>6 DEF BeginCall, Aborted, Futures
  <2>4. Places'
    BY <1>6 DEF BeginCall, Places, OnePlace, Waits, Held
  <2>5. LoopDone'
    BY <1>6 DEF BeginCall, LoopDone
  <2>6. QuietAfterExit'
    BY <1>6 DEF BeginCall, QuietAfterExit, Active, RunningStates
  <2> QED BY <2>1, <2>2, <2>3, <2>4, <2>5, <2>6
<1>7. CASE CallSucceeds(r)
  <2>1. TypeOK'
    BY <1>7 DEF CallSucceeds, Return, TypeOK, FutureStates, Outcome
  <2>2. Futures'
    BY <1>7 DEF CallSucceeds, Return, TypeOK, Futures, Waits
  <2>3. Aborted'
    BY <1>7 DEF CallSucceeds, Return, Aborted
  <2>4. Places'
    BY <1>7 DEF CallSucceeds, Return, Places, OnePlace, Waits, Held
  <2>5. LoopDone'
    BY <1>7 DEF CallSucceeds, Return, LoopDone
  <2>6. QuietAfterExit'
    BY <1>7 DEF CallSucceeds, Return, QuietAfterExit, Active, RunningStates
  <2> QED BY <2>1, <2>2, <2>3, <2>4, <2>5, <2>6
<1>8. CASE CallFailsRetryable(r)
  <2>1. TypeOK'
    BY <1>8 DEF CallFailsRetryable, TypeOK, FutureStates, RunningStates
  <2>2. Futures'
    BY <1>8 DEF CallFailsRetryable, Futures, Waits
  <2>3. Aborted'
    BY <1>8 DEF CallFailsRetryable, Aborted
  <2>4. Places'
    BY <1>8 DEF CallFailsRetryable, Places, OnePlace, Waits, Held
  <2>5. LoopDone'
    BY <1>8 DEF CallFailsRetryable, LoopDone
  <2>6. QuietAfterExit'
    BY <1>8 DEF CallFailsRetryable, QuietAfterExit, Active, RunningStates
  <2> QED BY <2>1, <2>2, <2>3, <2>4, <2>5, <2>6
<1>9. CASE CallFailsForGood(r)
  <2>1. TypeOK'
    BY <1>9 DEF CallFailsForGood, Return, TypeOK, FutureStates, Outcome
  <2>2. Futures'
    BY <1>9 DEF CallFailsForGood, Return, TypeOK, Futures, Waits
  <2>3. Aborted'
    BY <1>9 DEF CallFailsForGood, Return, Aborted
  <2>4. Places'
    BY <1>9 DEF CallFailsForGood, Return, Places, OnePlace, Waits, Held
  <2>5. LoopDone'
    BY <1>9 DEF CallFailsForGood, Return, LoopDone
  <2>6. QuietAfterExit'
    BY <1>9 DEF CallFailsForGood, Return, QuietAfterExit, Active, RunningStates
  <2> QED BY <2>1, <2>2, <2>3, <2>4, <2>5, <2>6
<1>10. CASE CallDenied(r)
  <2>1. TypeOK'
    BY <1>10 DEF CallDenied, TypeOK, FutureStates, RunningStates
  <2>2. Futures'
    BY <1>10 DEF CallDenied, Futures, Waits
  <2>3. Aborted'
    BY <1>10 DEF CallDenied, Aborted
  <2>4. Places'
    BY <1>10 DEF CallDenied, Places, OnePlace, Waits, Held
  <2>5. LoopDone'
    BY <1>10 DEF CallDenied, LoopDone
  <2>6. QuietAfterExit'
    BY <1>10 DEF CallDenied, QuietAfterExit, Active, RunningStates
  <2> QED BY <2>1, <2>2, <2>3, <2>4, <2>5, <2>6
<1>11. CASE SetAbort(r)
  <2>1. TypeOK'
    BY <1>11 DEF SetAbort, TypeOK, FutureStates, RunningStates
  <2>2. Futures'
    BY <1>11 DEF SetAbort, Futures, Waits
  <2>3. Aborted'
    BY <1>11 DEF SetAbort, Aborted
  <2>4. Places'
    BY <1>11 DEF SetAbort, Places, OnePlace, Waits, Held
  <2>5. LoopDone'
    BY <1>11 DEF SetAbort, LoopDone
  <2>6. QuietAfterExit'
    BY <1>11 DEF SetAbort, QuietAfterExit, Active, RunningStates
  <2> QED BY <2>1, <2>2, <2>3, <2>4, <2>5, <2>6
<1>12. CASE ReturnDenied(r)
  <2>1. TypeOK'
    BY <1>12 DEF ReturnDenied, Return, TypeOK, FutureStates, Outcome
  <2>2. Futures'
    BY <1>12 DEF ReturnDenied, Return, TypeOK, Futures, Waits
  <2>3. Aborted'
    BY <1>12 DEF ReturnDenied, Return, Aborted
  <2>4. Places'
    BY <1>12 DEF ReturnDenied, Return, Places, OnePlace, Waits, Held
  <2>5. LoopDone'
    BY <1>12 DEF ReturnDenied, Return, LoopDone
  <2>6. QuietAfterExit'
    BY <1>12 DEF ReturnDenied, Return, QuietAfterExit, Active, RunningStates
  <2> QED BY <2>1, <2>2, <2>3, <2>4, <2>5, <2>6
<1> QED BY <1>1, <1>2, <1>3, <1>4, <1>5, <1>6, <1>7, <1>8, <1>9, <1>10, <1>11, <1>12 DEF Thread

LEMMA GeneratorStep ==
    ASSUME RowsInv, LoopInv, Generator \/ Close
    PROVE  RowsInv' /\ LoopInv'
<1> USE NumRowsAssumption, MaxWorkersAssumption, MaxAttemptsAssumption
    DEF RowsInv, LoopInv, threadVars, listVars, outVars
<1>1. CASE SubmitInput
  <2>1. TypeOK'
    <3>1. nextInput' \in 1..(NumRows + 1) /\ inFlight' \subseteq Rows
      BY <1>1 DEF SubmitInput, TypeOK, Rows
    <3> QED BY <1>1, <3>1 DEF SubmitInput, TypeOK, FutureStates
  <2>2. Futures'
    BY <1>1 DEF SubmitInput, TypeOK, Futures, Waits
  <2>3. Aborted'
    BY <1>1 DEF SubmitInput, TypeOK, Aborted, Futures, Waits, Places, OnePlace
  <2>4. Places'
    BY <1>1 DEF SubmitInput, TypeOK, Places, OnePlace, Waits, Held
  <2>5. LoopDone'
    BY <1>1 DEF SubmitInput, LoopDone
  <2>6. QuietAfterExit'
    BY <1>1 DEF SubmitInput, QuietAfterExit
  <2> QED BY <2>1, <2>2, <2>3, <2>4, <2>5, <2>6
<1>2. CASE EndFill
  <2>1. TypeOK'
    BY <1>2 DEF EndFill, TypeOK
  <2>2. Futures'
    BY <1>2 DEF EndFill, Futures, Waits
  <2>3. Aborted'
    BY <1>2 DEF EndFill, Aborted
  <2>4. Places'
    BY <1>2 DEF EndFill, Places, OnePlace, Waits, Held
  <2>5. LoopDone'
    <3>1. Cardinality(inFlight) \in Nat
      BY RowSets DEF TypeOK
    <3> QED BY <1>2, <3>1 DEF EndFill, TypeOK, Rows, LoopDone
  <2>6. QuietAfterExit'
    BY <1>2 DEF EndFill, QuietAfterExit
  <2> QED BY <2>1, <2>2, <2>3, <2>4, <2>5, <2>6
<1>3. CASE AwaitFirst
  <2>1. TypeOK'
    BY <1>3 DEF AwaitFirst, TypeOK
  <2>2. Futures'
    BY <1>3 DEF AwaitFirst, Futures, Waits
  <2>3. Aborted'
    BY <1>3 DEF AwaitFirst, Aborted
  <2>4. Places'
    BY <1>3 DEF AwaitFirst, Places, OnePlace, Waits, Held
  <2>5. LoopDone'
    BY <1>3 DEF AwaitFirst, LoopDone
  <2>6. QuietAfterExit'
    BY <1>3 DEF AwaitFirst, QuietAfterExit
  <2> QED BY <2>1, <2>2, <2>3, <2>4, <2>5, <2>6
<1>4. CASE EndLoop
  <2>1. TypeOK'
    BY <1>4 DEF EndLoop, TypeOK
  <2>2. Futures'
    BY <1>4 DEF EndLoop, Futures, Waits
  <2>3. Aborted'
    BY <1>4 DEF EndLoop, Aborted
  <2>4. Places'
    BY <1>4 DEF EndLoop, Places, OnePlace, Waits, Held
  <2>5. LoopDone'
    <3>1. Cardinality(inFlight) = 0
      BY <1>4, FS_EmptySet DEF EndLoop
    <3> QED BY <1>4, <3>1 DEF EndLoop, TypeOK, LoopDone
  <2>6. QuietAfterExit'
    BY <1>4 DEF EndLoop, QuietAfterExit
  <2> QED BY <2>1, <2>2, <2>3, <2>4, <2>5, <2>6
<1>5. CASE Refill
  <2>1. TypeOK'
    BY <1>5 DEF Refill, TypeOK
  <2>2. Futures'
    BY <1>5 DEF Refill, Futures, Waits
  <2>3. Aborted'
    BY <1>5 DEF Refill, Aborted
  <2>4. Places'
    BY <1>5 DEF Refill, Places, OnePlace, Waits, Held
  <2>5. LoopDone'
    BY <1>5 DEF Refill, LoopDone
  <2>6. QuietAfterExit'
    BY <1>5 DEF Refill, QuietAfterExit
  <2> QED BY <2>1, <2>2, <2>3, <2>4, <2>5, <2>6
<1>6. CASE BreakOnAbort
  <2>1. TypeOK'
    <3>1. abortedRows' \in [Rows -> Nat]
      BY <1>6 DEF BreakOnAbort, TypeOK
    <3>2. nextInput' \in 1..(NumRows + 1)
      BY <1>6 DEF BreakOnAbort
    <3> QED BY <1>6, <3>1, <3>2 DEF BreakOnAbort, TypeOK
  <2>2. Futures'
    BY <1>6 DEF BreakOnAbort, Rows, Futures, Waits
  <2>3. Aborted'
    BY <1>6 DEF BreakOnAbort, Aborted, Futures, Waits
  <2>4. Places'
    <3>1. ASSUME NEW r \in Rows PROVE OnePlace(r)'
      <4>1. ~Waits(r)'
        BY <1>6 DEF BreakOnAbort, Waits, Rows
      <4>2. Held(r)' <=> Held(r)
        BY <1>6 DEF BreakOnAbort, Held
      <4>3. abortedRows'[r] = IF Waits(r) THEN abortedRows[r] + 1 ELSE abortedRows[r]
        BY <1>6 DEF BreakOnAbort, Waits
      <4> QED BY <1>6, <4>1, <4>2, <4>3 DEF BreakOnAbort, TypeOK, Places, OnePlace
    <3> QED BY <1>6, <3>1 DEF BreakOnAbort, Places
  <2>5. LoopDone'
    BY <1>6 DEF BreakOnAbort, LoopDone
  <2>6. QuietAfterExit'
    BY <1>6 DEF BreakOnAbort, QuietAfterExit
  <2> QED BY <2>1, <2>2, <2>3, <2>4, <2>5, <2>6
<1>7. CASE EndCancel
  <2>1. TypeOK'
    BY <1>7 DEF EndCancel, TypeOK
  <2>2. Futures'
    BY <1>7 DEF EndCancel, Futures, Waits
  <2>3. Aborted'
    BY <1>7 DEF EndCancel, Aborted
  <2>4. Places'
    BY <1>7 DEF EndCancel, Places, OnePlace, Waits, Held
  <2>5. LoopDone'
    BY <1>7 DEF EndCancel, LoopDone
  <2>6. QuietAfterExit'
    BY <1>7 DEF EndCancel, QuietAfterExit
  <2> QED BY <2>1, <2>2, <2>3, <2>4, <2>5, <2>6
<1>8. CASE EndCollect
  <2>1. TypeOK'
    BY <1>8 DEF EndCollect, TypeOK
  <2>2. Futures'
    BY <1>8 DEF EndCollect, Futures, Waits
  <2>3. Aborted'
    BY <1>8 DEF EndCollect, Aborted
  <2>4. Places'
    BY <1>8 DEF EndCollect, Places, OnePlace, Waits, Held
  <2>5. LoopDone'
    BY <1>8 DEF EndCollect, LoopDone
  <2>6. QuietAfterExit'
    BY <1>8 DEF EndCollect, QuietAfterExit
  <2> QED BY <2>1, <2>2, <2>3, <2>4, <2>5, <2>6
<1>9. CASE ExitPool
  <2>1. TypeOK'
    BY <1>9 DEF ExitPool, TypeOK
  <2>2. Futures'
    BY <1>9 DEF ExitPool, Futures, Waits
  <2>3. Aborted'
    BY <1>9 DEF ExitPool, Aborted
  <2>4. Places'
    BY <1>9 DEF ExitPool, Places, OnePlace, Waits, Held
  <2>5. LoopDone'
    BY <1>9 DEF ExitPool, LoopDone
  <2>6. QuietAfterExit'
    BY <1>9 DEF ExitPool, QuietAfterExit, Active
  <2> QED BY <2>1, <2>2, <2>3, <2>4, <2>5, <2>6
<1>10. CASE EndTail
  <2>1. TypeOK'
    BY <1>10 DEF EndTail, TypeOK
  <2>2. Futures'
    BY <1>10 DEF EndTail, Futures, Waits
  <2>3. Aborted'
    BY <1>10 DEF EndTail, Aborted
  <2>4. Places'
    BY <1>10 DEF EndTail, Places, OnePlace, Waits, Held
  <2>5. LoopDone'
    BY <1>10 DEF EndTail, LoopDone
  <2>6. QuietAfterExit'
    BY <1>10 DEF EndTail, QuietAfterExit, Active
  <2> QED BY <2>1, <2>2, <2>3, <2>4, <2>5, <2>6
<1>11. CASE ExitClosing
  <2>1. TypeOK'
    BY <1>11 DEF ExitClosing, TypeOK
  <2>2. Futures'
    BY <1>11 DEF ExitClosing, Futures, Waits
  <2>3. Aborted'
    BY <1>11 DEF ExitClosing, Aborted
  <2>4. Places'
    BY <1>11 DEF ExitClosing, Places
  <2>5. LoopDone'
    BY <1>11 DEF ExitClosing, LoopDone
  <2>6. QuietAfterExit'
    BY <1>11 DEF ExitClosing, QuietAfterExit, Active
  <2> QED BY <2>1, <2>2, <2>3, <2>4, <2>5, <2>6
<1>12. CASE Close
  <2>1. TypeOK'
    BY <1>12 DEF Close, TypeOK
  <2>2. Futures'
    BY <1>12 DEF Close, Futures, Waits
  <2>3. Aborted'
    BY <1>12 DEF Close, Aborted
  <2>4. Places'
    BY <1>12 DEF Close, Places
  <2>5. LoopDone'
    BY <1>12 DEF Close, LoopDone
  <2>6. QuietAfterExit'
    BY <1>12 DEF Close, QuietAfterExit, Active
  <2> QED BY <2>1, <2>2, <2>3, <2>4, <2>5, <2>6
<1>13. ASSUME NEW r \in Rows, YieldDone(r) PROVE RowsInv' /\ LoopInv'
  <2>1. TypeOK'
    BY <1>13 DEF YieldDone, Emit, TypeOK
  <2>2. Futures'
    BY <1>13 DEF YieldDone, Futures, Waits
  <2>3. Aborted'
    BY <1>13 DEF YieldDone, Emit, Aborted, Futures
  <2>4. Places'
    BY <1>13 DEF YieldDone, Emit, TypeOK, Places, OnePlace, Waits, Held
  <2>5. LoopDone'
    BY <1>13 DEF YieldDone, LoopDone
  <2>6. QuietAfterExit'
    BY <1>13 DEF YieldDone, QuietAfterExit
  <2> QED BY <2>1, <2>2, <2>3, <2>4, <2>5, <2>6
<1>14. ASSUME NEW r \in Rows, CancelNext(r) PROVE RowsInv' /\ LoopInv'
  <2>1. TypeOK'
    BY <1>14 DEF CancelNext, TypeOK, FutureStates
  <2>2. Futures'
    BY <1>14 DEF CancelNext, TypeOK, Futures, Waits
  <2>3. Aborted'
    <3>1. abortEvent /\ UNCHANGED <<result, attempts, abortEvent, abortedRows, output>>
      BY <1>14 DEF CancelNext, LoopDone
    <3>2. ASSUME NEW q \in Rows, future'[q] # future[q]
          PROVE  future'[q] = "cancelled"
      BY <1>14, <3>2 DEF CancelNext, TypeOK
    <3> QED BY <3>1, <3>2 DEF Aborted
  <2>4. Places'
    BY <1>14 DEF CancelNext, Places, OnePlace, Waits, Held
  <2>5. LoopDone'
    BY <1>14 DEF CancelNext, LoopDone
  <2>6. QuietAfterExit'
    BY <1>14 DEF CancelNext, QuietAfterExit
  <2> QED BY <2>1, <2>2, <2>3, <2>4, <2>5, <2>6
<1>15. ASSUME NEW r \in Rows, CollectCancelled(r) PROVE RowsInv' /\ LoopInv'
  <2>1. TypeOK'
    <3>1. abortedRows' \in [Rows -> Nat]
      BY <1>15 DEF CollectCancelled, TypeOK
    <3> QED BY <1>15, <3>1 DEF CollectCancelled, TypeOK
  <2>2. Futures'
    BY <1>15 DEF CollectCancelled, Futures, Waits
  <2>3. Aborted'
    BY <1>15 DEF CollectCancelled, Aborted
  <2>4. Places'
    BY <1>15 DEF CollectCancelled, Visits, TypeOK, Places, OnePlace, Waits, Held
  <2>5. LoopDone'
    BY <1>15 DEF CollectCancelled, LoopDone
  <2>6. QuietAfterExit'
    BY <1>15 DEF CollectCancelled, QuietAfterExit
  <2> QED BY <2>1, <2>2, <2>3, <2>4, <2>5, <2>6
<1>16. ASSUME NEW r \in Rows, CollectResult(r) PROVE RowsInv' /\ LoopInv'
  <2>1. TypeOK'
    BY <1>16 DEF CollectResult, Emit, TypeOK
  <2>2. Futures'
    BY <1>16 DEF CollectResult, Futures, Waits
  <2>3. Aborted'
    BY <1>16 DEF CollectResult, Emit, Aborted
  <2>4. Places'
    BY <1>16 DEF CollectResult, Emit, Visits, TypeOK, Places, OnePlace, Waits, Held
  <2>5. LoopDone'
    BY <1>16 DEF CollectResult, LoopDone
  <2>6. QuietAfterExit'
    BY <1>16 DEF CollectResult, QuietAfterExit
  <2> QED BY <2>1, <2>2, <2>3, <2>4, <2>5, <2>6
<1>17. ASSUME NEW r \in Rows, YieldAborted(r) PROVE RowsInv' /\ LoopInv'
  <2>1. TypeOK'
    <3>1. abortedRows[r] - 1 \in Nat
      BY <1>17 DEF YieldAborted, TypeOK
    <3>2. abortedRows' \in [Rows -> Nat] /\ emitted' \in [Rows -> Nat]
      BY <1>17, <3>1 DEF YieldAborted, Emit, TypeOK
    <3>3. output' \in [Rows -> Outcome \cup {"none"}]
      BY <1>17 DEF YieldAborted, Emit, TypeOK, Outcome
    <3> QED BY <1>17, <3>2, <3>3 DEF YieldAborted, Emit, TypeOK
  <2>2. Futures'
    BY <1>17 DEF YieldAborted, Futures, Waits
  <2>3. Aborted'
    BY <1>17 DEF YieldAborted, Emit, Aborted, Futures
  <2>4. Places'
    BY <1>17 DEF YieldAborted, Emit, TypeOK, Places, OnePlace, Waits, Held
  <2>5. LoopDone'
    BY <1>17 DEF YieldAborted, LoopDone
  <2>6. QuietAfterExit'
    BY <1>17 DEF YieldAborted, QuietAfterExit, Active
  <2> QED BY <2>1, <2>2, <2>3, <2>4, <2>5, <2>6
<1>18. ASSUME NEW r \in Rows, RaiseDone(r) PROVE RowsInv' /\ LoopInv'
  <2>1. TypeOK'
    BY <1>18 DEF RaiseDone, TypeOK
  <2>2. Futures'
    BY <1>18 DEF RaiseDone, Futures, Waits
  <2>3. Aborted'
    BY <1>18 DEF RaiseDone, Aborted
  <2>4. Places'
    BY <1>18 DEF RaiseDone, Places
  <2>5. LoopDone'
    BY <1>18 DEF RaiseDone, LoopDone
  <2>6. QuietAfterExit'
    BY <1>18 DEF RaiseDone, QuietAfterExit
  <2> QED BY <2>1, <2>2, <2>3, <2>4, <2>5, <2>6
<1> QED BY <1>1, <1>2, <1>3, <1>4, <1>5, <1>6, <1>7, <1>8, <1>9, <1>10, <1>11, <1>12, <1>13, <1>14, <1>15, <1>16, <1>17, <1>18 DEF Generator

\* A step that lets no further row run or call, and calls nobody, keeps LateInv.
LEMMA LateShrinks ==
    ASSUME TypeOK, LateInv, UNCHANGED <<attempts, lateCalls, abortEvent>>,
           Running' \subseteq Running, Callers' \subseteq Callers
    PROVE  LateInv'
<1>1. Cardinality(Running') <= MaxWorkers
  <2>1. Running \in SUBSET Rows
    BY DEF Running
  <2>2. Cardinality(Running) \in Nat /\ Cardinality(Running') \in Nat
        /\ Cardinality(Running') <= Cardinality(Running)
    BY <2>1, RowSets
  <2> QED BY <2>2, MaxWorkersAssumption DEF LateInv
<1>2. abortEvent' => Cardinality(Late') < MaxWorkers
  <2>1. Late \in SUBSET Rows /\ Late' \in SUBSET Late
    BY DEF Late, LateCallers, Callers
  <2>2. Cardinality(Late) \in Nat /\ Cardinality(Late') \in Nat
        /\ Cardinality(Late') <= Cardinality(Late)
    BY <2>1, RowSets
  <2> QED BY <2>2, MaxWorkersAssumption DEF LateInv
<1> QED BY <1>1, <1>2 DEF LateInv, LateCallers

LEMMA LateStep ==
    ASSUME RowsInv, LateInv, [Next]_vars
    PROVE  LateInv'
<1> USE DEF RowsInv, TypeOK, threadVars, listVars, outVars
<1>1. ASSUME NEW r \in Rows, Start(r) PROVE LateInv'
  <2>1. Running' = Running \cup {r} /\ Callers' = Callers
    BY <1>1 DEF Start, Running, Callers, RunningStates
  <2>2. IsFiniteSet(Running) /\ Cardinality(Running) \in Nat
    BY RowSets DEF Running
  <2>3. Cardinality(Running \cup {r}) = IF r \in Running THEN Cardinality(Running)
                                          ELSE Cardinality(Running) + 1
    BY <2>2, FS_AddElement, Zenon
  <2>4. Cardinality(Running') <= MaxWorkers
    BY <1>1, <2>1, <2>2, <2>3, MaxWorkersAssumption DEF Start
  <2> QED BY <1>1, <2>1, <2>4 DEF Start, LateInv, Late, LateCallers
<1>2. ASSUME NEW r \in Rows, ClearAbortCheck(r) PROVE LateInv'
  <2>1. Running' = Running /\ ~abortEvent' /\ LateCallers' = LateCallers
    BY <1>2 DEF ClearAbortCheck, Running, RunningStates, LateCallers
  <2> QED BY <1>2, <2>1 DEF ClearAbortCheck, LateInv
<1>3. ASSUME NEW r \in Rows, BeginCall(r) PROVE LateInv'
  <2>1. Running' = Running /\ Callers' = Callers /\ r \in Callers
    BY <1>3 DEF BeginCall, Running, RunningStates, Callers
  <2>2. Late' = Late /\ (~abortEvent => LateCallers' = LateCallers)
    BY <1>3, <2>1 DEF BeginCall, Late, LateCallers
  <2> QED BY <1>3, <2>1, <2>2 DEF BeginCall, LateInv
<1>4. ASSUME NEW r \in Rows, SetAbort(r) PROVE LateInv'
  <2>1. Running' = Running /\ Callers' = Callers /\ LateCallers' = LateCallers
    BY <1>4 DEF SetAbort, Running, RunningStates, Callers, LateCallers
  <2>2. CASE abortEvent
    BY <1>4, <2>1, <2>2 DEF SetAbort, LateInv, Late
  <2>3. CASE ~abortEvent
    <3>1. Late' \in SUBSET (Running \ {r}) /\ r \in Running
      BY <1>4, <2>1, <2>3 DEF SetAbort, LateInv, Late, Callers, Running, RunningStates
    <3>2. /\ Running \in SUBSET Rows /\ IsFiniteSet(Running)
          /\ Cardinality(Running) \in Nat
      BY RowSets DEF Running
    <3>3. Cardinality(Running \ {r}) = Cardinality(Running) - 1
      BY <3>1, <3>2, FS_RemoveElement
    <3>4. Cardinality(Late') \in Nat /\ Cardinality(Late') <= Cardinality(Running \ {r})
      BY <3>1, <3>2, RowSets
    <3>5. Cardinality(Late') < MaxWorkers
      BY <3>2, <3>3, <3>4, MaxWorkersAssumption DEF LateInv
    <3> QED BY <1>4, <2>1, <3>5 DEF SetAbort, LateInv
  <2> QED BY <2>2, <2>3
<1>5. ASSUME NEW r \in Rows, Thread(r),
             ~Start(r), ~ClearAbortCheck(r), ~BeginCall(r), ~SetAbort(r)
      PROVE  LateInv'
  <2>1. /\ UNCHANGED <<attempts, lateCalls, abortEvent>>
        /\ Running' \subseteq Running /\ Callers' \subseteq Callers
    BY <1>5 DEF Thread, SkipAborted, RejectMalformed, RaiseUnexpected, CallSucceeds,
        CallFailsRetryable, CallFailsForGood, CallDenied, ReturnDenied, Return,
        Running, RunningStates, Callers
  <2> QED BY <2>1, LateShrinks
<1>6. ASSUME Generator \/ Close PROVE LateInv'
  <2>1. UNCHANGED <<attempts, lateCalls, abortEvent>>
    BY <1>6 DEF Generator, SubmitInput, EndFill, AwaitFirst, EndLoop, Refill, BreakOnAbort,
        EndCancel, EndCollect, ExitPool, EndTail, ExitClosing, YieldDone, CancelNext,
        CollectCancelled, CollectResult, YieldAborted, RaiseDone, Close
  <2>2. \/ UNCHANGED future
        \/ \E q \in Rows : future' = [future EXCEPT ![q] = "pending"]
        \/ \E q \in Rows : future' = [future EXCEPT ![q] = "cancelled"]
    BY <1>6 DEF Generator, SubmitInput, EndFill, AwaitFirst, EndLoop, Refill, BreakOnAbort,
        EndCancel, EndCollect, ExitPool, EndTail, ExitClosing, YieldDone, CancelNext,
        CollectCancelled, CollectResult, YieldAborted, RaiseDone, Close
  <2>3. Running' \subseteq Running /\ Callers' \subseteq Callers
    BY <2>2 DEF Running, RunningStates, Callers
  <2> QED BY <2>1, <2>3, LateShrinks
<1>7. CASE UNCHANGED vars
  BY <1>7, LateShrinks DEF vars, Running, Callers
<1> QED BY <1>1, <1>2, <1>3, <1>4, <1>5, <1>6, <1>7 DEF Next, Terminated
-----------------------------------------------------------------------------
(* The invariant holds.                                                    *)

LEMMA InitInv ==
    ASSUME Init
    PROVE  IInv
<1> USE NumRowsAssumption, MaxWorkersAssumption, MaxAttemptsAssumption
<1>1. TypeOK
  <2>1. future \in [Rows -> FutureStates] /\ nextInput \in 1..(NumRows + 1)
    BY DEF Init, FutureStates
  <2>2. /\ attempts \in [Rows -> 0..MaxAttempts]
        /\ lateCalls \in [Rows -> 0..MaxAttempts]
        /\ result \in [Rows -> Outcome \cup {"none", "raised"}]
        /\ output \in [Rows -> Outcome \cup {"none"}]
    BY DEF Init
  <2> QED BY <2>1, <2>2 DEF Init, TypeOK
<1>2. Futures /\ Aborted
  BY DEF Init, Futures, Aborted, RunningStates
<1>3. Places /\ LoopDone /\ QuietAfterExit
  BY DEF Init, Places, OnePlace, Waits, Held, LoopDone, QuietAfterExit, Rows
<1>4. LateInv
  <2>1. Running = {} /\ LateCallers = {}
    BY DEF Init, Running, RunningStates, LateCallers
  <2>2. Cardinality(Running) = 0
    BY <2>1, FS_EmptySet, Zenon
  <2> QED BY <2>1, <2>2 DEF Init, LateInv
<1> QED BY <1>1, <1>2, <1>3, <1>4 DEF IInv, RowsInv, LoopInv

LEMMA Step ==
    ASSUME IInv, [Next]_vars
    PROVE  IInv'
<1>1. RowsInv' /\ LoopInv'
  <2>1. ASSUME NEW r \in Rows, Thread(r) PROVE RowsInv' /\ LoopInv'
    BY <2>1, ThreadStep DEF IInv
  <2>2. CASE Generator \/ Close
    BY <2>2, GeneratorStep DEF IInv
  <2>3. CASE UNCHANGED vars
    BY <2>3 DEF vars, IInv, RowsInv, LoopInv, TypeOK, Futures, Aborted, Waits, Places, OnePlace,
        Held, LoopDone, QuietAfterExit, Active
  <2> QED BY <2>1, <2>2, <2>3 DEF Next, Terminated
<1>2. LateInv'
  BY LateStep DEF IInv
<1> QED BY <1>1, <1>2 DEF IInv

\* The invariant behind the properties below.
THEOREM Invariance == Spec => []IInv
<1>1. Init => IInv
  BY InitInv
<1>2. IInv /\ [Next]_vars => IInv'
  BY Step
<1> QED BY <1>1, <1>2, PTL DEF Spec

\* Type correctness: what the for loops still visit is in flight, and no row ever
\* makes more provider calls than RETRY_MAX_ATTEMPTS allows.
THEOREM TypeCorrect == Spec => []TypeOK
<1>1. IInv => TypeOK
  BY DEF IInv, RowsInv
<1> QED BY <1>1, Invariance, PTL

\* process_batch_iter yields no row twice, and has yielded every row when it is
\* exhausted, however an abort falls between its loops.
THEOREM YieldsExactlyOnce == Spec => []ExactlyOnce
<1>1. IInv => ExactlyOnce
  <2> SUFFICES ASSUME IInv PROVE ExactlyOnce
    OBVIOUS
  <2>1. \A r \in Rows : emitted[r] \in {0, 1}
    BY DEF IInv, LoopInv, Places
  <2>2. ASSUME NEW r \in Rows, pc = "done" PROVE emitted[r] = 1
    <3>1. OnePlace(r) /\ abortedRows[r] = 0 /\ nextInput = NumRows + 1
      BY <2>2 DEF IInv, LoopInv, Places, LoopDone
    <3>2. ~Waits(r) /\ ~Held(r)
      BY <2>2, <3>1, NumRowsAssumption DEF Waits, Held, Rows
    <3> QED BY <3>1, <3>2 DEF OnePlace
  <2> QED BY <2>1, <2>2 DEF ExactlyOnce
<1> QED BY <1>1, Invariance, PTL

\* A row reported as aborted was never sent to the provider.
THEOREM AbortedUntouched == Spec => []AbortedMeansUntouched
<1>1. IInv => AbortedMeansUntouched
  BY DEF IInv, RowsInv, Aborted, AbortedMeansUntouched
<1> QED BY <1>1, Invariance, PTL

\* Unless its caller drops the generator, no thread of a page outlives the with
\* block of process_batch_iter, however it is left.
THEOREM PoolQuiet == Spec => []QuietAfterExit
<1>1. IInv => QuietAfterExit
  BY DEF IInv, LoopInv
<1> QED BY <1>1, Invariance, PTL

\* After the abort event at most MAX_WORKERS - 1 rows call the provider, each
\* within its attempts.
THEOREM LateCallsLimited == Spec => []LateCallsBounded
<1>1. IInv => LateCallsBounded
  <2> SUFFICES ASSUME IInv PROVE LateCallsBounded
    OBVIOUS
  <2>1. Cardinality(LateCallers) < MaxWorkers
    <3>1. CASE abortEvent
      <4>1. Late \in SUBSET Rows /\ LateCallers \in SUBSET Late
        BY DEF Late, LateCallers, Callers
      <4>2. /\ Cardinality(LateCallers) \in Nat /\ Cardinality(Late) \in Nat
            /\ Cardinality(LateCallers) <= Cardinality(Late)
        BY <4>1, RowSets
      <4> QED BY <3>1, <4>2, MaxWorkersAssumption DEF IInv, LateInv
    <3>2. CASE ~abortEvent
      <4>1. LateCallers = {}
        BY <3>2 DEF IInv, LateInv
      <4>2. Cardinality(LateCallers) = 0
        BY <4>1, FS_EmptySet, Zenon
      <4> QED BY <4>2, MaxWorkersAssumption
    <3> QED BY <3>1, <3>2
  <2>2. \A r \in LateCallers : lateCalls[r] <= MaxAttempts
    BY MaxAttemptsAssumption DEF IInv, RowsInv, TypeOK, LateCallers
  <2> QED BY <2>1, <2>2 DEF LateCallsBounded
<1> QED BY <1>1, Invariance, PTL

-----------------------------------------------------------------------------
(* The executor implements PageRun.                                        *)

\* What the generator yields is an outcome, never an exception, and comes from a
\* row not yielded before.
LEMMA YieldStep ==
    ASSUME IInv, NEW r \in Rows, NEW o \in Outcome, Emit(r, o),
           emitted[r] = 0, PagePhase = "open", PagePhase' = "open",
           o = "aborted" => abortEvent, abortEvent' = abortEvent
    PROVE  Page!Yield(r, o)
<1>1. r \in PageLeft
  BY DEF PageLeft
<1>2. PageLeft' = PageLeft \ {r}
  BY DEF Emit, PageLeft, IInv, RowsInv, TypeOK
<1> QED BY <1>1, <1>2 DEF Page!Yield, Emit

LEMMA PageStep ==
    ASSUME IInv, [Next]_vars
    PROVE  [Page!Next]_(Page!vars)
<1> DEFINE Stutter == PagePhase' = PagePhase /\ UNCHANGED <<emitted, output, abortEvent>>
<1>1. ASSUME Stutter PROVE UNCHANGED Page!vars
  BY <1>1 DEF Page!vars, PageLeft
<1>2. ASSUME NEW r \in Rows, Thread(r), ~SetAbort(r) PROVE Stutter
  BY <1>2 DEF Thread, Start, SkipAborted, ClearAbortCheck, RejectMalformed, RaiseUnexpected,
      BeginCall, CallSucceeds, CallFailsRetryable, CallFailsForGood, CallDenied, ReturnDenied,
      Return, PagePhase, threadVars, listVars, outVars
<1>3. ASSUME NEW r \in Rows, SetAbort(r) PROVE Page!Deny
  BY <1>3 DEF SetAbort, Page!Deny, PagePhase, PageLeft, outVars
<1>4. ASSUME SubmitInput \/ EndFill \/ AwaitFirst \/ EndLoop \/ Refill \/ BreakOnAbort
                \/ EndCancel \/ EndCollect \/ ExitPool \/ ExitClosing
      PROVE  Stutter
  BY <1>4 DEF SubmitInput, EndFill, AwaitFirst, EndLoop, Refill, BreakOnAbort, EndCancel,
      EndCollect, ExitPool, ExitClosing, PagePhase, threadVars, listVars, outVars
<1>5. ASSUME NEW r \in Rows, CancelNext(r) \/ CollectCancelled(r) PROVE Stutter
  BY <1>5 DEF CancelNext, CollectCancelled, PagePhase, threadVars, listVars, outVars
<1>6. ASSUME EndTail PROVE Page!End
  <2>1. PageLeft = {}
    <3>1. ASSUME NEW r \in Rows PROVE emitted[r] = 1
      <4>1. OnePlace(r) /\ abortedRows[r] = 0 /\ nextInput = NumRows + 1 /\ pc = "tail"
        BY <1>6 DEF EndTail, IInv, LoopInv, Places, LoopDone
      <4>2. ~Waits(r) /\ ~Held(r)
        BY <4>1, NumRowsAssumption DEF Waits, Held, Rows
      <4> QED BY <4>1, <4>2 DEF OnePlace
    <3> QED BY <3>1 DEF PageLeft
  <2>2. PagePhase = "open" /\ PagePhase' = "ended"
    BY <1>6 DEF EndTail, PagePhase
  <2>3. UNCHANGED <<emitted, output, abortEvent>>
    BY <1>6 DEF EndTail, threadVars, outVars
  <2> QED BY <2>1, <2>2, <2>3 DEF Page!End, PageLeft
<1>7. ASSUME NEW r \in Rows, RaiseDone(r) PROVE Page!Close
  <2>1. PagePhase = "open" /\ PagePhase' = "closed"
    BY <1>7 DEF RaiseDone, PagePhase
  <2> QED BY <1>7, <2>1 DEF RaiseDone, Page!Close, PageLeft, threadVars, outVars
<1>8. ASSUME Close PROVE Page!Close
  <2>1. PagePhase = "open" /\ PagePhase' = "closed"
    BY <1>8 DEF Close, PagePhase, IInv, LoopInv, LoopDone
  <2>2. UNCHANGED <<emitted, output, abortEvent>>
    BY <1>8 DEF Close, threadVars, outVars
  <2>3. PageLeft' = PageLeft
    BY <2>2 DEF PageLeft
  <2> QED BY <2>1, <2>2, <2>3 DEF Page!Close
<1>9. ASSUME NEW r \in Rows, YieldDone(r) \/ CollectResult(r)
      PROVE  Page!Yield(r, result[r]) /\ result[r] \in Outcome
  <2>1. future[r] = "finished" /\ OnePlace(r) /\ Held(r)
    BY <1>9 DEF YieldDone, CollectResult, Visits, IInv, RowsInv, LoopInv, TypeOK, Places, LoopDone, Held
  <2>2. emitted[r] = 0
    BY <2>1 DEF OnePlace
  <2>3. result[r] \in Outcome /\ (result[r] = "aborted" => abortEvent)
    BY <1>9, <2>1 DEF YieldDone, CollectResult, IInv, RowsInv, TypeOK, Futures, Aborted
  <2>4. PagePhase = "open" /\ PagePhase' = "open" /\ abortEvent' = abortEvent
    BY <1>9 DEF YieldDone, CollectResult, PagePhase, threadVars
  <2>5. Emit(r, result[r])
    BY <1>9 DEF YieldDone, CollectResult
  <2> QED BY <2>2, <2>3, <2>4, <2>5, YieldStep
<1>10. ASSUME NEW r \in Rows, YieldAborted(r) PROVE Page!Yield(r, "aborted")
  <2>1. OnePlace(r) /\ abortedRows[r] = 1
    BY <1>10 DEF YieldAborted, IInv, LoopInv, Places, OnePlace
  <2>2. emitted[r] = 0 /\ abortEvent
    BY <2>1 DEF OnePlace, IInv, RowsInv, Aborted
  <2>3. PagePhase = "open" /\ PagePhase' = "open" /\ abortEvent' = abortEvent
    BY <1>10 DEF YieldAborted, PagePhase, threadVars
  <2> QED BY <1>10, <2>2, <2>3, YieldStep DEF YieldAborted, Outcome
<1>11. CASE UNCHANGED vars
  <2>1. Stutter
    BY <1>11 DEF vars, PagePhase
  <2> QED BY <1>1, <2>1
<1> HIDE DEF Stutter
<1> QED
  <2>1. CASE Generator
    BY <2>1, <1>1, <1>4, <1>5, <1>6, <1>7, <1>9, <1>10 DEF Generator, Page!Next, Page!Outcome, Outcome
  <2>2. CASE Close
    BY <2>2, <1>8 DEF Page!Next
  <2>3. ASSUME NEW r \in Rows, Thread(r) PROVE [Page!Next]_(Page!vars)
    BY <2>3, <1>1, <1>2, <1>3 DEF Page!Next
  <2> QED BY <2>1, <2>2, <2>3, <1>11 DEF Next, Terminated

\* process_batch_iter keeps the promise PageRun states to the code that writes its
\* results, for every page, pool and number of attempts.
THEOREM RefinesPageRun == Spec => ImplementsPageRun
<1>1. Init => Page!Init
  BY DEF Init, Page!Init, PagePhase, PageLeft
<1>2. IInv /\ [Next]_vars => [Page!Next]_(Page!vars)
  BY PageStep
<1> QED BY <1>1, <1>2, Invariance, PTL DEF Spec, ImplementsPageRun, Page!Spec
=============================================================================

---------------------------- MODULE BatchExecutor ----------------------------
(***************************************************************************)
(* executor.py: BatchExecutor.process_batch_iter running one page of rows. *)
(* The generator (one thread, the caller's) submits rows to a thread pool, *)
(* yields results as they finish, and on an abort cancels what it can and  *)
(* reports the rest as aborted.  Each submitted row runs invoke in a pool  *)
(* thread: abort check, parsing, provider calls with retries.              *)
(*                                                                         *)
(* Every step below is one atomic step of the generator or of the thread   *)
(* that runs one row; a thread may be suspended between any two of them.   *)
(***************************************************************************)
EXTENDS Naturals, FiniteSets

CONSTANTS
    NumRows,        \* rows of the page, in the order of the input list
    MaxWorkers,     \* BatchExecutor._max_workers
    MaxAttempts     \* BatchExecutor._retry_max_attempts

ASSUME NumRowsAssumption == NumRows \in Nat
ASSUME MaxWorkersAssumption == MaxWorkers \in Nat \ {0}
ASSUME MaxAttemptsAssumption == MaxAttempts \in Nat \ {0}

VARIABLES
    future,         \* the state of each row's Future and of the thread running it
    attempts,       \* provider calls made for each row
    result,         \* what invoke returned (or raised) for each row
    abortEvent,     \* process_batch_iter's abort_event
    nextInput,      \* the iterator pending_inputs
    inFlight,       \* the keys of in_flight, named by their row
    pc,             \* where the generator is
    todo,           \* what the for loop the generator is in has still to visit
    abortedRows,    \* the list aborted_rows, as a bag
    emitted,        \* how often each row was yielded
    output,         \* what was last yielded for each row
    atYield,        \* the generator is suspended at a yield
    lateCalls       \* history: provider calls a row began after abort_event was set

threadVars == <<attempts, result, abortEvent, lateCalls>>
listVars == <<nextInput, inFlight, abortedRows>>
outVars == <<emitted, output>>
vars == <<future, attempts, result, abortEvent, nextInput, inFlight, pc, todo,
          abortedRows, emitted, output, atYield, lateCalls>>

Rows == 1..NumRows

Outcome == {"complete", "failed", "aborted"}

\* "entered" is invoke before its abort check, "cleared" after it; "calling" is
\* inside provider.complete, "backoff" between two attempts; "denied" has an
\* ABORT_BATCH error in hand, "returning" has set the event.
RunningStates == {"entered", "cleared", "calling", "backoff", "denied", "returning"}

FutureStates == RunningStates \cup {"unsubmitted", "pending", "finished", "cancelled"}

Running == {r \in Rows : future[r] \in RunningStates}

Active == {r \in Rows : future[r] \in RunningStates \cup {"pending"}}

-----------------------------------------------------------------------------
(* The pool thread of row r: ThreadPoolExecutor, then invoke.              *)

\* An idle thread of the pool takes the oldest work item.
Start(r) ==
    /\ future[r] = "pending"
    /\ \A q \in Rows : future[q] = "pending" => r <= q
    /\ Cardinality(Running) < MaxWorkers
    /\ future' = [future EXCEPT ![r] = "entered"]
    /\ UNCHANGED <<threadVars, listVars, outVars, pc, todo, atYield>>

\* The thread leaves invoke with outcome o; the pool stores it in the future.
Return(r, o) ==
    /\ future' = [future EXCEPT ![r] = "finished"]
    /\ result' = [result EXCEPT ![r] = o]
    /\ UNCHANGED <<attempts, abortEvent, lateCalls, listVars, outVars, pc, todo, atYield>>

SkipAborted(r) ==
    /\ future[r] = "entered"
    /\ abortEvent
    /\ Return(r, "aborted")

ClearAbortCheck(r) ==
    /\ future[r] = "entered"
    /\ ~abortEvent
    /\ future' = [future EXCEPT ![r] = "cleared"]
    /\ UNCHANGED <<threadVars, listVars, outVars, pc, todo, atYield>>

\* params or tool_config is not JSON, or build_request raises one of the four
\* exceptions the handler names.
RejectMalformed(r) ==
    /\ future[r] = "cleared"
    /\ Return(r, "failed")

\* Parsing raises something else (a RecursionError, say): invoke has no handler
\* for it and the future holds the exception.
RaiseUnexpected(r) ==
    /\ future[r] = "cleared"
    /\ Return(r, "raised")

\* Mutant of BeginCall: the attempt counter starts again with every retry.
BeginCallForgetsAttempts(r) ==
    /\ future[r] \in {"cleared", "backoff"}
    /\ future' = [future EXCEPT ![r] = "calling"]
    /\ attempts' = [attempts EXCEPT ![r] = 1]
    /\ UNCHANGED <<result, abortEvent, lateCalls, listVars, outVars, pc, todo, atYield>>

\* One provider.complete call, the first or a retry after a backoff.
BeginCall(r) ==
    /\ future[r] \in {"cleared", "backoff"}
    /\ future' = [future EXCEPT ![r] = "calling"]
    /\ attempts' = [attempts EXCEPT ![r] = @ + 1]
    /\ lateCalls' = IF abortEvent THEN [lateCalls EXCEPT ![r] = @ + 1] ELSE lateCalls
    /\ UNCHANGED <<result, abortEvent, listVars, outVars, pc, todo, atYield>>

CallSucceeds(r) ==
    /\ future[r] = "calling"
    /\ Return(r, "complete")

\* Mutant of CallFailsRetryable: one attempt too many.
RetryOneTooMany(r) ==
    /\ future[r] = "calling"
    /\ attempts[r] <= MaxAttempts
    /\ future' = [future EXCEPT ![r] = "backoff"]
    /\ UNCHANGED <<threadVars, listVars, outVars, pc, todo, atYield>>

\* The error is classified RETRY and stop_after_attempt allows another call.
\* Nothing looks at abort_event here.
CallFailsRetryable(r) ==
    /\ future[r] = "calling"
    /\ attempts[r] < MaxAttempts
    /\ future' = [future EXCEPT ![r] = "backoff"]
    /\ UNCHANGED <<threadVars, listVars, outVars, pc, todo, atYield>>

\* The error is classified FAIL, or RETRY with the attempts used up.
CallFailsForGood(r) ==
    /\ future[r] = "calling"
    /\ Return(r, "failed")

\* The error is classified ABORT_BATCH ...
CallDenied(r) ==
    /\ future[r] = "calling"
    /\ future' = [future EXCEPT ![r] = "denied"]
    /\ UNCHANGED <<threadVars, listVars, outVars, pc, todo, atYield>>

\* Mutant of SetAbort: the handler sits inside the retry loop, so that the denied
\* row itself is tried again.
SetAbortThenRetry(r) ==
    /\ future[r] = "denied"
    /\ abortEvent' = TRUE
    /\ future' = [future EXCEPT ![r] = IF attempts[r] < MaxAttempts THEN "backoff"
                                                                   ELSE "returning"]
    /\ UNCHANGED <<attempts, result, lateCalls, listVars, outVars, pc, todo, atYield>>

\* ... and the handler sets the page's abort event,
SetAbort(r) ==
    /\ future[r] = "denied"
    /\ abortEvent' = TRUE
    /\ future' = [future EXCEPT ![r] = "returning"]
    /\ UNCHANGED <<attempts, result, lateCalls, listVars, outVars, pc, todo, atYield>>

\* then returns the row as failed.
ReturnDenied(r) ==
    /\ future[r] = "returning"
    /\ Return(r, "failed")

Thread(r) ==
    \/ Start(r) \/ SkipAborted(r) \/ ClearAbortCheck(r)
    \/ RejectMalformed(r) \/ RaiseUnexpected(r)
    \/ BeginCall(r) \/ CallSucceeds(r) \/ CallFailsRetryable(r)
    \/ CallFailsForGood(r) \/ CallDenied(r)
    \/ SetAbort(r) \/ ReturnDenied(r)

-----------------------------------------------------------------------------
(* The generator.                                                          *)

SubmitInput ==
    /\ pc = "fill"
    /\ Cardinality(inFlight) < MaxWorkers
    /\ nextInput \in Rows
    /\ future' = [future EXCEPT ![nextInput] = "pending"]
    /\ inFlight' = inFlight \cup {nextInput}
    /\ nextInput' = nextInput + 1
    /\ atYield' = FALSE
    /\ UNCHANGED <<threadVars, outVars, pc, todo, abortedRows>>

EndFill ==
    /\ pc = "fill"
    /\ ~(Cardinality(inFlight) < MaxWorkers /\ nextInput \in Rows)
    /\ pc' = "wait"
    /\ atYield' = FALSE
    /\ UNCHANGED <<future, threadVars, listVars, outVars, todo>>

\* wait(..., FIRST_COMPLETED): everything that has finished by then.
AwaitFirst ==
    /\ pc = "wait"
    /\ todo' = {r \in inFlight : future[r] = "finished"}
    /\ todo' # {}
    /\ pc' = "drain"
    /\ atYield' = FALSE
    /\ UNCHANGED <<future, threadVars, listVars, outVars>>

\* Nothing in flight: the two loops after the while find nothing to visit.
EndLoop ==
    /\ pc = "wait"
    /\ inFlight = {}
    /\ todo' = {}
    /\ pc' = "collect"
    /\ atYield' = FALSE
    /\ UNCHANGED <<future, threadVars, listVars, outVars>>

\* yield: the caller has o for row r and may never come back.
Emit(r, o) ==
    /\ emitted' = [emitted EXCEPT ![r] = @ + 1]
    /\ output' = [output EXCEPT ![r] = o]
    /\ atYield' = TRUE

\* The done set is visited in no particular order.
YieldDone(r) ==
    /\ pc = "drain"
    /\ r \in todo
    /\ result[r] # "raised"
    /\ Emit(r, result[r])
    /\ inFlight' = inFlight \ {r}
    /\ todo' = todo \ {r}
    /\ UNCHANGED <<future, threadVars, pc, nextInput, abortedRows>>

Refill ==
    /\ pc = "drain"
    /\ todo = {}
    /\ ~abortEvent
    /\ pc' = "fill"
    /\ atYield' = FALSE
    /\ UNCHANGED <<future, threadVars, listVars, outVars, todo>>

\* Mutant of BreakOnAbort: the rows not yet submitted are forgotten.
BreakDropsUnsubmitted ==
    /\ pc = "drain"
    /\ todo = {}
    /\ abortEvent
    /\ nextInput' = NumRows + 1
    /\ todo' = inFlight
    /\ pc' = "cancel"
    /\ atYield' = FALSE
    /\ UNCHANGED <<future, threadVars, inFlight, abortedRows, outVars>>

BreakOnAbort ==
    /\ pc = "drain"
    /\ todo = {}
    /\ abortEvent
    /\ abortedRows' = [r \in Rows |-> IF r >= nextInput THEN abortedRows[r] + 1
                                                        ELSE abortedRows[r]]
    /\ nextInput' = NumRows + 1
    /\ todo' = inFlight
    /\ pc' = "cancel"
    /\ atYield' = FALSE
    /\ UNCHANGED <<future, threadVars, inFlight, outVars>>

\* r is the row the loop over in_flight comes to: dicts keep insertion order.
Visits(r) == r \in todo /\ \A q \in todo : r <= q

\* future.cancel() succeeds only on a future no thread has taken.
CancelNext(r) ==
    /\ pc = "cancel"
    /\ Visits(r)
    /\ \/ future[r] = "pending" /\ future' = [future EXCEPT ![r] = "cancelled"]
       \/ future[r] # "pending" /\ UNCHANGED future
    /\ todo' = todo \ {r}
    /\ atYield' = FALSE
    /\ UNCHANGED <<threadVars, listVars, outVars, pc>>

EndCancel ==
    /\ pc = "cancel"
    /\ todo = {}
    /\ todo' = inFlight
    /\ pc' = "collect"
    /\ atYield' = FALSE
    /\ UNCHANGED <<future, threadVars, listVars, outVars>>

\* Mutant of CollectCancelled: a cancelled row is skipped, as if its future were
\* enough to remember it.
CollectDropsCancelled(r) ==
    /\ pc = "collect"
    /\ Visits(r)
    /\ future[r] = "cancelled"
    /\ todo' = todo \ {r}
    /\ atYield' = FALSE
    /\ UNCHANGED <<future, threadVars, listVars, outVars, pc>>

\* Mutant of CollectCancelled: every row still in flight counts as cancelled.
CollectGivesUpInFlight(r) ==
    /\ pc = "collect"
    /\ Visits(r)
    /\ abortedRows' = [abortedRows EXCEPT ![r] = @ + 1]
    /\ todo' = todo \ {r}
    /\ atYield' = FALSE
    /\ UNCHANGED <<future, threadVars, nextInput, inFlight, outVars, pc>>

CollectCancelled(r) ==
    /\ pc = "collect"
    /\ Visits(r)
    /\ future[r] = "cancelled"
    /\ abortedRows' = [abortedRows EXCEPT ![r] = @ + 1]
    /\ todo' = todo \ {r}
    /\ atYield' = FALSE
    /\ UNCHANGED <<future, threadVars, nextInput, inFlight, outVars, pc>>

\* future.result() blocks until the row's thread is through.
CollectResult(r) ==
    /\ pc = "collect"
    /\ Visits(r)
    /\ future[r] = "finished"
    /\ result[r] # "raised"
    /\ Emit(r, result[r])
    /\ todo' = todo \ {r}
    /\ UNCHANGED <<future, threadVars, listVars, pc>>

EndCollect ==
    /\ pc = "collect"
    /\ todo = {}
    /\ pc' = "exit"
    /\ atYield' = FALSE
    /\ UNCHANGED <<future, threadVars, listVars, outVars, todo>>

\* The with block ends: shutdown(wait=True) joins the pool's threads.
ExitPool ==
    /\ pc = "exit"
    /\ Active = {}
    /\ pc' = "tail"
    /\ UNCHANGED <<future, threadVars, listVars, outVars, todo, atYield>>

YieldAborted(r) ==
    /\ pc = "tail"
    /\ abortedRows[r] > 0
    /\ Emit(r, "aborted")
    /\ abortedRows' = [abortedRows EXCEPT ![r] = @ - 1]
    /\ UNCHANGED <<future, threadVars, nextInput, inFlight, pc, todo>>

EndTail ==
    /\ pc = "tail"
    /\ \A r \in Rows : abortedRows[r] = 0
    /\ pc' = "done"
    /\ atYield' = FALSE
    /\ UNCHANGED <<future, threadVars, listVars, outVars, todo>>

\* future.result() raises what invoke raised: the with block is left early.
RaiseDone(r) ==
    /\ \/ pc = "drain" /\ r \in todo
       \/ pc = "collect" /\ Visits(r) /\ future[r] = "finished"
    /\ result[r] = "raised"
    /\ pc' = "closing"
    /\ inFlight' = IF pc = "drain" THEN inFlight \ {r} ELSE inFlight
    /\ todo' = todo \ {r}
    /\ atYield' = FALSE
    /\ UNCHANGED <<future, threadVars, nextInput, abortedRows, outVars>>

\* Mutant of ExitClosing: shutdown(wait=False).
ExitWithoutJoin ==
    /\ pc = "closing"
    /\ pc' = "closed"
    /\ UNCHANGED <<future, threadVars, listVars, outVars, todo, atYield>>

\* The exception leaves the with block in the caller's thread, which joins the
\* pool's threads too, and cancels nothing: what was submitted still runs.
ExitClosing ==
    /\ pc = "closing"
    /\ Active = {}
    /\ pc' = "closed"
    /\ UNCHANGED <<future, threadVars, listVars, outVars, todo, atYield>>

Generator ==
    \/ SubmitInput \/ EndFill \/ AwaitFirst \/ EndLoop
    \/ Refill \/ BreakOnAbort \/ EndCancel \/ EndCollect
    \/ ExitPool \/ EndTail \/ ExitClosing
    \/ \E r \in Rows :
          \/ YieldDone(r) \/ CancelNext(r)
          \/ CollectCancelled(r) \/ CollectResult(r)
          \/ YieldAborted(r) \/ RaiseDone(r)

\* The caller failed to write what it was given and drops the generator at the
\* yield.  Inside the with block that leaves the pool with the rows it still has:
\* whoever closes the generator later, and in which thread (one of the pool's own
\* cannot join itself), cancels none of them.  AbandonedPages is about that close;
\* here the threads of a dropped page just go on.
Close ==
    /\ atYield
    /\ pc' = IF pc = "tail" THEN "closed" ELSE "dropped"
    /\ atYield' = FALSE
    /\ UNCHANGED <<future, threadVars, listVars, outVars, todo>>

-----------------------------------------------------------------------------
Init ==
    /\ future = [r \in Rows |-> "unsubmitted"]
    /\ attempts = [r \in Rows |-> 0]
    /\ result = [r \in Rows |-> "none"]
    /\ abortEvent = FALSE
    /\ nextInput = 1
    /\ inFlight = {}
    /\ pc = "fill"
    /\ todo = {}
    /\ abortedRows = [r \in Rows |-> 0]
    /\ emitted = [r \in Rows |-> 0]
    /\ output = [r \in Rows |-> "none"]
    /\ atYield = FALSE
    /\ lateCalls = [r \in Rows |-> 0]

Ended == pc \in {"done", "closed", "dropped"}

Terminated == Ended /\ UNCHANGED vars

Next ==
    \/ Generator
    \/ Close
    \/ \E r \in Rows : Thread(r)
    \/ Terminated

\* A provider call ends or times out (every client is built with a timeout), so
\* each thread keeps moving, and the caller comes back for the next result
\* unless it drops the generator.
Fairness ==
    /\ WF_vars(Generator)
    /\ \A r \in Rows : WF_vars(Thread(r))

Spec == Init /\ [][Next]_vars /\ Fairness

-----------------------------------------------------------------------------
TypeOK ==
    /\ future \in [Rows -> FutureStates]
    /\ attempts \in [Rows -> 0..MaxAttempts]
    /\ result \in [Rows -> Outcome \cup {"none", "raised"}]
    /\ abortEvent \in BOOLEAN
    /\ nextInput \in 1..(NumRows + 1)
    /\ inFlight \subseteq Rows
    /\ pc \in {"fill", "wait", "drain", "cancel", "collect", "exit", "tail",
               "done", "closing", "closed", "dropped"}
    /\ todo \subseteq inFlight
    /\ abortedRows \in [Rows -> Nat]
    /\ emitted \in [Rows -> Nat]
    /\ output \in [Rows -> Outcome \cup {"none"}]
    /\ atYield \in BOOLEAN
    /\ lateCalls \in [Rows -> 0..MaxAttempts]

\* Every row of the page is yielded exactly once: never twice, whatever mix of
\* finished, cancelled and unsubmitted rows an abort leaves, and none missing
\* once the generator is exhausted.
ExactlyOnce ==
    /\ \A r \in Rows : emitted[r] <= 1
    /\ pc = "done" => \A r \in Rows : emitted[r] = 1

\* A row is reported as aborted only if the page was aborted and the provider was
\* never called for it: an answer that was paid for is never thrown away.
AbortedMeansUntouched ==
    \A r \in Rows : output[r] = "aborted" => abortEvent /\ attempts[r] = 0

\* Once the caller has seen the with block left, at the end of the page or by an
\* exception no handler of invoke names, no thread of this page runs and none will
\* start: the next page does not share the provider with this one.  It is silent
\* about a page whose caller dropped the generator: such a page does overlap the
\* next one, by as much as AbandonedPages' StragglersBounded allows.
QuietAfterExit ==
    pc \in {"tail", "done", "closed"} => Active = {}

LateCallers == {r \in Rows : lateCalls[r] > 0}

\* An abort stops the spending: after the event is set, only rows already past
\* the check may still call the provider, at most MaxWorkers - 1 of them, each
\* within its attempts.
LateCallsBounded ==
    /\ Cardinality(LateCallers) < MaxWorkers
    /\ \A r \in LateCallers : lateCalls[r] <= MaxAttempts

\* The page ends, whatever the provider answers and whenever the event is set: the
\* generator is exhausted, closed or dropped, and no thread of the page is left,
\* those of a dropped page included.
PageTerminates == <>(Ended /\ Active = {})

\* What the caller knows of the generator.
PagePhase ==
    CASE pc = "done" -> "ended"
      [] pc \in {"closing", "closed", "dropped"} -> "closed"
      [] OTHER -> "open"

\* The rows it has not been given.
PageLeft == {r \in Rows : emitted[r] = 0}

\* Seen from its caller the executor is a PageRun.
Page == INSTANCE PageRun WITH
    phase <- PagePhase,
    left <- PageLeft,
    out <- output,
    denied <- abortEvent

\* The executor implements the promise stated in PageRun.
ImplementsPageRun == Page!Spec
=============================================================================

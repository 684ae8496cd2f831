--------------------------- MODULE LLMWorkerService ---------------------------
(***************************************************************************)
(* main.py and clickhouse.py: worker processes polling ClickHouse for      *)
(* pending batches, answering their rows page by page and recording the    *)
(* results and the final status, while inserts fail, land late or twice,   *)
(* and workers are stopped, killed and replaced.                           *)
(*                                                                         *)
(* A page run by BatchExecutor appears here as PageRun promises it: its    *)
(* rows are yielded one by one, each once, in any order.  Several workers  *)
(* may run at a time: a rolling update starts the new pod before the old   *)
(* one has ended.                                                          *)
(***************************************************************************)
EXTENDS Naturals, FiniteSets

CONSTANTS
    Workers,            \* the worker processes that may run
    Batches,            \* batch ids, positive, in the order ClickHouse sorts them
    RowIds,             \* row ids, in the order ClickHouse sorts them
    Inputs,             \* Inputs[b]: the rows of llm_inputs with batch_id b
    Outcomes,           \* the outcomes the executor yields in this instance
    PageSize,           \* batch_page_size
    PendingLimit,       \* pending_batch_limit
    ChunkSize,          \* RESULT_WRITE_BATCH_SIZE
    ResultAttempts,     \* RESULT_WRITE_MAX_ATTEMPTS
    StatusAttempts,     \* BATCH_STATUS_WRITE_MAX_ATTEMPTS
    LateInserts,        \* an insert that raised an error may still take effect
    MaxFaults           \* bound: errors, kills and stop signals in a behaviour

ASSUME IdsAssumption == Batches \subseteq Nat \ {0} /\ RowIds \subseteq Nat
ASSUME InputsAssumption == Inputs \in [Batches -> SUBSET RowIds]
ASSUME FiniteAssumption == IsFiniteSet(Batches) /\ IsFiniteSet(RowIds)
ASSUME OutcomesAssumption == Outcomes \subseteq {"complete", "failed", "denied", "aborted"}
ASSUME SizesAssumption ==
    /\ PageSize \in Nat \ {0} /\ PendingLimit \in Nat \ {0} /\ ChunkSize \in Nat \ {0}
    /\ ResultAttempts \in Nat \ {0} /\ StatusAttempts \in Nat \ {0}
    /\ LateInserts \in BOOLEAN
    /\ MaxFaults \in Nat

VARIABLES
    (* ClickHouse *)
    submitted,      \* batches with a "pending" row in llm_batches
    results,        \* results[b]: rows of llm_results, as <<row id, status, copy, acked>>
    completeLog,    \* completeLog[b]: the "complete" rows of llm_batches, by their counts
    limbo,          \* inserts reported as failed, or cut off by a kill, not yet landed
    (* each worker process *)
    pc,             \* where LLMWorkerService.run is
    stop,           \* _should_stop
    todo,           \* batch ids the for loop over the poll's answer has still to visit
    batch,          \* the batch process_single_batch works on
    left,           \* rows of the page the executor has not yielded yet
    denied,         \* rows of the page the provider denied: abort_event is set when any is
    chunk,          \* pending, in _write_results_in_chunks
    tries,          \* attempts made of the current insert
    counts,         \* the counts read for the status row
    (* the run *)
    faults,         \* how many errors, kills and signals there were
    deniedBatch     \* history: an earlier page of this batch was aborted

store == <<submitted, results, completeLog, limbo>>
pageVars == <<left, denied, chunk>>
vars == <<submitted, results, completeLog, limbo, pc, stop, todo, batch, left, denied,
          chunk, tries, counts, faults, deniedBatch>>

Status == {"complete", "failed"}
NoBatch == 0
NoCounts == [total |-> 0, completed |-> 0, failed |-> 0]

-----------------------------------------------------------------------------
(* The queries.                                                            *)

\* ORDER BY ... LIMIT k
FirstK(S, k) == {x \in S : Cardinality({y \in S : y < x}) < k}

StatusOf(o) == IF o = "complete" THEN "complete" ELSE "failed"

Answered(b) == {r \in Inputs[b] : \E x \in results[b] : x[1] = r}

\* get_pending_batches
PendingBatches == {b \in submitted : completeLog[b] = {}}

\* Mutant of UnansweredRows: the subquery of NOT IN lacks its WHERE batch_id.
UnansweredAnywhere(b) ==
    FirstK({r \in Inputs[b] : \A c \in Batches : \A x \in results[c] : x[1] # r}, PageSize)

\* Mutant of UnansweredRows: rows that failed are read again.
NotCompletedRows(b) ==
    FirstK({r \in Inputs[b] : \A x \in results[b] : x[1] = r => x[2] = "failed"}, PageSize)

\* get_batch_rows
UnansweredRows(b) == FirstK(Inputs[b] \ Answered(b), PageSize)

\* get_batch_counts counts rows of llm_results, not distinct row ids.
CountStatus(b, s) == Cardinality({x \in results[b] : x[2] = s})

BatchCounts(b) == [total |-> Cardinality(Inputs[b]),
                   completed |-> CountStatus(b, "complete"),
                   failed |-> CountStatus(b, "failed")]

\* The insert of a chunk: a set of <<row, outcome>> pairs.  llm_results is a plain
\* MergeTree, every insert adds rows; equal ones are numbered.  acked is a history
\* of the insert: its client saw it acknowledged.
NewResult(b, e, acked) ==
    LET same == {x \in results[b] : x[1] = e[1] /\ x[2] = StatusOf(e[2]) /\ x[4] = acked}
    IN  <<e[1], StatusOf(e[2]), Cardinality(same), acked>>

Inserted(b, ck, acked) ==
    [results EXCEPT ![b] = results[b] \cup {NewResult(b, e, acked) : e \in ck}]

-----------------------------------------------------------------------------
(* The producer.                                                           *)

\* The producer inserts a batch's rows, then its "pending" row.
Submit(b) ==
    /\ b \notin submitted
    /\ submitted' = submitted \cup {b}
    /\ UNCHANGED <<results, completeLog, limbo, pc, stop, todo, batch, pageVars,
                   tries, counts, faults, deniedBatch>>

-----------------------------------------------------------------------------
(* The worker loop.                                                        *)

Poll(w) ==
    /\ pc[w] = "poll"
    /\ ~stop[w]
    /\ todo' = [todo EXCEPT ![w] = FirstK(PendingBatches, PendingLimit)]
    /\ pc' = [pc EXCEPT ![w] = IF PendingBatches = {} THEN "poll" ELSE "next"]
    /\ UNCHANGED <<store, stop, batch, pageVars, tries, counts, faults, deniedBatch>>

\* The for loop takes its next batch unless the worker was told to stop.
PickBatch(w) ==
    /\ pc[w] = "next"
    /\ ~stop[w]
    /\ \E b \in todo[w] :
          /\ \A c \in todo[w] : b <= c
          /\ batch' = [batch EXCEPT ![w] = b]
          /\ todo' = [todo EXCEPT ![w] = @ \ {b}]
    /\ pc' = [pc EXCEPT ![w] = "fetch"]
    /\ UNCHANGED <<store, stop, pageVars, tries, counts, faults, deniedBatch>>

EndFor(w) ==
    /\ pc[w] = "next"
    /\ stop[w] \/ todo[w] = {}
    /\ pc' = [pc EXCEPT ![w] = "poll"]
    /\ todo' = [todo EXCEPT ![w] = {}]
    /\ UNCHANGED <<store, stop, batch, pageVars, tries, counts, faults, deniedBatch>>

\* The while loop ends and the process with it.
Exit(w) ==
    /\ pc[w] = "poll"
    /\ stop[w]
    /\ pc' = [pc EXCEPT ![w] = "down"]
    /\ UNCHANGED <<store, stop, todo, batch, pageVars, tries, counts, faults, deniedBatch>>

-----------------------------------------------------------------------------
(* process_single_batch.                                                   *)

\* process_single_batch is left and with it go its local variables.
DropBatch(w) ==
    /\ batch' = [batch EXCEPT ![w] = NoBatch]
    /\ left' = [left EXCEPT ![w] = {}]
    /\ denied' = [denied EXCEPT ![w] = {}]
    /\ chunk' = [chunk EXCEPT ![w] = {}]
    /\ tries' = [tries EXCEPT ![w] = 0]
    /\ counts' = [counts EXCEPT ![w] = NoCounts]
    /\ deniedBatch' = [deniedBatch EXCEPT ![w] = FALSE]

FetchPage(w) ==
    /\ pc[w] = "fetch"
    /\ UnansweredRows(batch[w]) # {}
    /\ left' = [left EXCEPT ![w] = UnansweredRows(batch[w])]
    /\ denied' = [denied EXCEPT ![w] = {}]
    /\ pc' = [pc EXCEPT ![w] = "run"]
    /\ UNCHANGED <<store, stop, todo, batch, chunk, tries, counts, faults, deniedBatch>>

\* Mutant of FetchNothing: a batch without rows is skipped, not completed.
FetchNothingSkipsEmpty(w) ==
    /\ pc[w] = "fetch"
    /\ UnansweredRows(batch[w]) = {}
    /\ IF Inputs[batch[w]] = {}
         THEN pc' = [pc EXCEPT ![w] = "next"] /\ batch' = [batch EXCEPT ![w] = NoBatch]
         ELSE pc' = [pc EXCEPT ![w] = "count"] /\ UNCHANGED batch
    /\ UNCHANGED <<store, stop, todo, pageVars, tries, counts, faults, deniedBatch>>

\* No page left: the batch is complete, whether or not this worker did any of it.
FetchNothing(w) ==
    /\ pc[w] = "fetch"
    /\ UnansweredRows(batch[w]) = {}
    /\ pc' = [pc EXCEPT ![w] = "count"]
    /\ UNCHANGED <<store, stop, todo, batch, pageVars, tries, counts, faults, deniedBatch>>

\* A chunk is written when it is full, or when the page is exhausted.
ChunkDue(w) ==
    \/ Cardinality(chunk[w]) >= ChunkSize
    \/ left[w] = {} /\ chunk[w] # {}

\* A thread of the page is denied row r, whatever was yielded before: the rows it
\* makes the executor abort may be yielded before r itself.
Deny(w, r) ==
    /\ pc[w] = "run"
    /\ r \in left[w] \ denied[w]
    /\ denied' = [denied EXCEPT ![w] = @ \cup {r}]
    /\ UNCHANGED <<store, pc, stop, todo, batch, left, chunk, tries, counts, faults,
                   deniedBatch>>

\* The executor yields row r: a denied one as that, another one as aborted only if
\* some row of the page was denied.
Emit(w, r, o) ==
    /\ pc[w] = "run"
    /\ ~ChunkDue(w)
    /\ r \in left[w]
    /\ o = "denied" <=> r \in denied[w]
    /\ o = "aborted" => denied[w] # {}
    /\ left' = [left EXCEPT ![w] = @ \ {r}]
    /\ chunk' = [chunk EXCEPT ![w] = @ \cup {<<r, o>>}]
    /\ UNCHANGED <<store, pc, stop, todo, batch, denied, tries, counts, faults,
                   deniedBatch>>

\* Mutant of WriteResults: the list of pending results is not emptied.
WriteResultsKeepsChunk(w) ==
    /\ pc[w] = "run"
    /\ ChunkDue(w)
    /\ results' = Inserted(batch[w], chunk[w], TRUE)
    /\ tries' = [tries EXCEPT ![w] = 0]
    /\ UNCHANGED <<submitted, completeLog, limbo, pc, stop, todo, batch, pageVars,
                   counts, faults, deniedBatch>>

\* The insert is acknowledged (wait_for_async_insert).
WriteResults(w) ==
    /\ pc[w] = "run"
    /\ ChunkDue(w)
    /\ results' = Inserted(batch[w], chunk[w], TRUE)
    /\ chunk' = [chunk EXCEPT ![w] = {}]
    /\ tries' = [tries EXCEPT ![w] = 0]
    /\ UNCHANGED <<submitted, completeLog, limbo, pc, stop, todo, batch, left, denied,
                   counts, faults, deniedBatch>>

\* Mutant of EndPage: one page is taken for the whole batch.
EndPageEndsBatch(w) ==
    /\ pc[w] = "run"
    /\ left[w] = {}
    /\ chunk[w] = {}
    /\ pc' = [pc EXCEPT ![w] = "count"]
    /\ deniedBatch' = [deniedBatch EXCEPT ![w] = deniedBatch[w] \/ denied[w] # {}]
    /\ UNCHANGED <<store, stop, todo, batch, pageVars, tries, counts, faults>>

EndPage(w) ==
    /\ pc[w] = "run"
    /\ left[w] = {}
    /\ chunk[w] = {}
    /\ pc' = [pc EXCEPT ![w] = "fetch"]
    /\ deniedBatch' = [deniedBatch EXCEPT ![w] = deniedBatch[w] \/ denied[w] # {}]
    /\ UNCHANGED <<store, stop, todo, batch, pageVars, tries, counts, faults>>

CountRows(w) ==
    /\ pc[w] = "count"
    /\ counts' = [counts EXCEPT ![w] = BatchCounts(batch[w])]
    /\ pc' = [pc EXCEPT ![w] = "status"]
    /\ UNCHANGED <<store, stop, todo, batch, pageVars, tries, faults, deniedBatch>>

WriteStatus(w) ==
    /\ pc[w] = "status"
    /\ completeLog' = [completeLog EXCEPT ![batch[w]] = @ \cup {counts[w]}]
    /\ pc' = [pc EXCEPT ![w] = "next"]
    /\ DropBatch(w)
    /\ UNCHANGED <<submitted, results, limbo, stop, todo, faults>>

-----------------------------------------------------------------------------
(* Failures.                                                               *)

Fault == faults < MaxFaults /\ faults' = faults + 1

\* A worker is inserting a chunk, or the batch's status.
Inserting(w) ==
    \/ pc[w] = "run" /\ ChunkDue(w)
    \/ pc[w] = "status"

AttemptsFor(w) == IF pc[w] = "run" THEN ResultAttempts ELSE StatusAttempts

PendingInsert(w) ==
    [id |-> faults, batch |-> batch[w],
     chunk |-> IF pc[w] = "run" THEN chunk[w] ELSE {},
     counts |-> IF pc[w] = "status" THEN {counts[w]} ELSE {}]

\* The insert is lost, or the server has it and will apply it.
MayLand(w) ==
    \/ UNCHANGED limbo
    \/ LateInserts /\ limbo' = limbo \cup {PendingInsert(w)}

\* Mutant of BackToPoll: handling the error forgets the stop signal.
BackToPollForgetsStop(w) ==
    /\ pc' = [pc EXCEPT ![w] = "poll"]
    /\ todo' = [todo EXCEPT ![w] = {}]
    /\ DropBatch(w)
    /\ stop' = [stop EXCEPT ![w] = FALSE]

\* The exception also leaves the for loop of run: the batches the poll returned
\* and the loop has not visited are dropped too.
BackToPoll(w) ==
    /\ pc' = [pc EXCEPT ![w] = "poll"]
    /\ todo' = [todo EXCEPT ![w] = {}]
    /\ DropBatch(w)
    /\ UNCHANGED stop

\* Mutant of ReadError: a page that could not be read is taken for an empty one.
ReadErrorEmptyPage(w) ==
    /\ pc[w] = "fetch"
    /\ Fault
    /\ pc' = [pc EXCEPT ![w] = "count"]
    /\ UNCHANGED <<store, stop, todo, batch, pageVars, tries, counts, deniedBatch>>

\* A query raises ClickHouseError; queries are not retried.
ReadError(w) ==
    /\ pc[w] \in {"fetch", "count"}
    /\ Fault
    /\ BackToPoll(w)
    /\ UNCHANGED store

\* Mutant of RetryWrite: one attempt too many.
RetryWriteOneTooMany(w) ==
    /\ Inserting(w)
    /\ tries[w] + 1 <= AttemptsFor(w)
    /\ Fault
    /\ MayLand(w)
    /\ tries' = [tries EXCEPT ![w] = @ + 1]
    /\ UNCHANGED <<submitted, results, completeLog, pc, stop, todo, batch, pageVars,
                   counts, deniedBatch>>

\* An insert raises ClickHouseError and is tried again, ...
RetryWrite(w) ==
    /\ Inserting(w)
    /\ tries[w] + 1 < AttemptsFor(w)
    /\ Fault
    /\ MayLand(w)
    /\ tries' = [tries EXCEPT ![w] = @ + 1]
    /\ UNCHANGED <<submitted, results, completeLog, pc, stop, todo, batch, pageVars,
                   counts, deniedBatch>>

\* ... until its attempts are used up.
GiveUpWrite(w) ==
    /\ Inserting(w)
    /\ tries[w] + 1 >= AttemptsFor(w)
    /\ Fault
    /\ MayLand(w)
    /\ BackToPoll(w)
    /\ UNCHANGED <<submitted, results, completeLog>>

\* The server applies an insert whose client did not learn of it.
LandOf(i) ==
    /\ limbo' = limbo \ {i}
    /\ results' = Inserted(i.batch, i.chunk, FALSE)
    /\ completeLog' = [completeLog EXCEPT ![i.batch] = @ \cup i.counts]
    /\ UNCHANGED <<submitted, pc, stop, todo, batch, pageVars, tries, counts,
                   faults, deniedBatch>>

Land == \E i \in limbo : LandOf(i)

\* SIGTERM or SIGINT: the handler only sets _should_stop.
Signal(w) ==
    /\ pc[w] # "down"
    /\ ~stop[w]
    /\ Fault
    /\ stop' = [stop EXCEPT ![w] = TRUE]
    /\ UNCHANGED <<store, pc, todo, batch, pageVars, tries, counts, deniedBatch>>

\* SIGKILL, or an exception nobody handles, at any point of the loop; an insert
\* it cuts off may land.
Kill(w) ==
    /\ pc[w] # "down"
    /\ Fault
    /\ IF Inserting(w) THEN MayLand(w) ELSE UNCHANGED limbo
    /\ pc' = [pc EXCEPT ![w] = "down"]
    /\ todo' = [todo EXCEPT ![w] = {}]
    /\ DropBatch(w)
    /\ UNCHANGED <<submitted, results, completeLog, stop>>

\* Kubernetes starts the container again: a new process, nothing remembered.
Start(w) ==
    /\ pc[w] = "down"
    /\ pc' = [pc EXCEPT ![w] = "poll"]
    /\ stop' = [stop EXCEPT ![w] = FALSE]
    /\ UNCHANGED <<store, todo, batch, pageVars, tries, counts, faults, deniedBatch>>

-----------------------------------------------------------------------------
Init ==
    /\ submitted = {}
    /\ results = [b \in Batches |-> {}]
    /\ completeLog = [b \in Batches |-> {}]
    /\ limbo = {}
    /\ pc = [w \in Workers |-> "down"]
    /\ stop = [w \in Workers |-> FALSE]
    /\ todo = [w \in Workers |-> {}]
    /\ batch = [w \in Workers |-> NoBatch]
    /\ left = [w \in Workers |-> {}]
    /\ denied = [w \in Workers |-> {}]
    /\ chunk = [w \in Workers |-> {}]
    /\ tries = [w \in Workers |-> 0]
    /\ counts = [w \in Workers |-> NoCounts]
    /\ faults = 0
    /\ deniedBatch = [w \in Workers |-> FALSE]

Work(w) ==
    \/ Poll(w) \/ PickBatch(w) \/ EndFor(w) \/ Exit(w)
    \/ FetchPage(w) \/ FetchNothing(w)
    \/ \E r \in RowIds : "denied" \in Outcomes /\ Deny(w, r)
    \/ \E r \in RowIds, o \in Outcomes : Emit(w, r, o)
    \/ WriteResults(w) \/ EndPage(w) \/ CountRows(w) \/ WriteStatus(w)

Fail(w) ==
    \/ ReadError(w) \/ RetryWrite(w) \/ GiveUpWrite(w) \/ Signal(w) \/ Kill(w)

Next ==
    \/ \E b \in Batches : Submit(b)
    \/ \E w \in Workers : Work(w) \/ Fail(w) \/ Start(w)
    \/ Land

\* A worker process keeps running its loop and Kubernetes restarts a container that
\* ended; the executor's pages end (PageTerminates of BatchExecutor).  Nothing makes an insert land.
Fairness ==
    \A w \in Workers : WF_vars(Work(w)) /\ WF_vars(Start(w))

Spec == Init /\ [][Next]_vars /\ Fairness

-----------------------------------------------------------------------------
CountsType == [total : Nat, completed : Nat, failed : Nat]

InsertType ==
    [id : Nat, batch : Batches, chunk : SUBSET (RowIds \X Outcomes), counts : SUBSET CountsType]

TypeOK ==
    /\ submitted \subseteq Batches
    /\ results \in [Batches -> SUBSET (RowIds \X Status \X Nat \X BOOLEAN)]
    /\ \A b \in Batches : IsFiniteSet(results[b])
    /\ completeLog \in [Batches -> SUBSET CountsType]
    /\ \A i \in limbo : i \in InsertType
    /\ pc \in [Workers -> {"poll", "next", "fetch", "run", "count", "status", "down"}]
    /\ stop \in [Workers -> BOOLEAN]
    /\ todo \in [Workers -> SUBSET Batches]
    /\ batch \in [Workers -> Batches \cup {NoBatch}]
    /\ \A w \in Workers : pc[w] \in {"fetch", "run", "count", "status"} <=> batch[w] # NoBatch
    /\ left \in [Workers -> SUBSET RowIds]
    /\ chunk \in [Workers -> SUBSET (RowIds \X Outcomes)]
    /\ denied \in [Workers -> SUBSET RowIds]
    /\ deniedBatch \in [Workers -> BOOLEAN]
    /\ tries \in [Workers -> Nat]
    /\ \A w \in Workers : tries[w] < AttemptsFor(w)
    /\ counts \in [Workers -> CountsType]
    /\ faults \in 0..MaxFaults

\* A batch that llm_batches calls complete has a result for every row, whatever
\* crashed, was retried, or ran at the same time.
CompleteIsAnswered ==
    \A b \in Batches : completeLog[b] # {} => Answered(b) = Inputs[b]

\* c accounts for every row of b, and for no more results than llm_results has.
Accounts(b, c) ==
    /\ c.total = Cardinality(Inputs[b])
    /\ c.completed + c.failed >= c.total
    /\ c.completed <= CountStatus(b, "complete")
    /\ c.failed <= CountStatus(b, "failed")

\* The published counts account for every row of the batch, and never for more
\* result rows than llm_results has, although they are read before the status is
\* written, other workers add results meanwhile, and the insert may land late.
CountsBracketed ==
    \A b \in Batches : \A c \in completeLog[b] : Accounts(b, c)

\* The results of b whose insert was reported as failed, or cut off by a kill.
Unacknowledged(b) == {x \in results[b] : ~x[4]}

\* One worker at a time: each row has at most one result from an insert that was
\* acknowledged, however the worker was killed, restarted or went on to the next
\* attempt (tests/test_batch.py, test_idempotent_rerun).  Any other result of the
\* row is an insert that took effect although its client was told, or had to
\* assume, that it had not.
OneResultPerRow ==
    \A b \in Batches : \A x, y \in results[b] : x[1] = y[1] /\ x[4] /\ y[4] => x = y

\* One worker at a time: the published counts exceed the rows of the batch by no
\* more than such unacknowledged results, and without any they are what
\* llm_results holds for good, each row counted once.
CountsExact ==
    \A b \in Batches : \A c \in completeLog[b] :
        /\ c.completed + c.failed <= c.total + Cardinality(Unacknowledged(b))
        /\ Unacknowledged(b) = {} => c = BatchCounts(b)

\* An authentication or permission failure aborts the batch: no later row of it is
\* sent to the provider (README.md, "batch-level abort").
AbortIsBatchWide ==
    [][\A w \in Workers, r \in RowIds :
          deniedBatch[w] => <<r, "complete">> \notin chunk'[w] \ chunk[w]]_vars

\* Once faults are over every submitted batch is completed, also when it was left
\* half done, or has no rows.
BatchCompletes == \A b \in Batches : b \in submitted ~> completeLog[b] # {}

\* A worker told to stop ends, after the batch it is working on.
WorkerStops == \A w \in Workers : stop[w] ~> pc[w] = "down"

\* Readers of the store see a BatchLedger.
Ledger == INSTANCE BatchLedger WITH
    submitted <- submitted,
    answered <- [b \in Batches |-> Answered(b)],
    complete <- {b \in Batches : completeLog[b] # {}}

\* The workers together implement the ledger.
ImplementsLedger == Ledger!Spec
=============================================================================

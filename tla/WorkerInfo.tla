------------------------------ MODULE WorkerInfo ------------------------------
(***************************************************************************)
(* main.py: _maybe_publish_worker_info and clickhouse.py:                  *)
(* write_worker_info.  Worker processes publish their capabilities in one  *)
(* row of llm_worker_info at startup and every ten minutes, best effort,   *)
(* while the chart's schema job adds the capabilities column or writes a   *)
(* row of its own, and while a worker is told to stop and replaced.        *)
(*                                                                         *)
(* Time is counted in ticks.  A worker's time.monotonic() appears as what  *)
(* is left until _worker_info_next_at and as the age of the time it last   *)
(* read for a publish.                                                     *)
(***************************************************************************)
EXTENDS Naturals, FiniteSets

CONSTANTS
    Workers,        \* the worker processes: the old one and its replacement
    Republish,      \* WORKER_INFO_REPUBLISH_SECONDS, in ticks
    Retry,          \* WORKER_INFO_RETRY_SECONDS, in ticks
    Overlap,        \* a replacement may start before the old one is told to stop
    MaxFaults       \* bound: errors, kills, signals and job runs in a behaviour

ASSUME PeriodsAssumption == Republish \in Nat /\ Retry \in 1..Republish
ASSUME OverlapAssumption == Overlap \in BOOLEAN
ASSUME MaxFaultsAssumption == MaxFaults \in Nat
ASSUME WorkersAssumption == "job" \notin Workers /\ "nobody" \notin Workers

VARIABLES
    (* ClickHouse *)
    hasColumn,      \* llm_worker_info has the capabilities column
    row,            \* the newest row: who wrote it, and whether with capabilities
    accepted,       \* blocks the replicated table has accepted
    (* each worker process *)
    pc,             \* "check": at _maybe_publish_worker_info; "work": elsewhere
    stop,           \* _should_stop
    due,            \* ticks left until _worker_info_next_at, 0 at startup
    age,            \* ticks since the worker read now for its last publish
    columnSeen,     \* what _has_capabilities_column returned
    warned,         \* _warned_no_capabilities_column
    (* the run *)
    faults,         \* how many errors, kills, signals and job runs there were
    latest,         \* the worker process started last
    ended,          \* history: how a process's last publish ended, "none" before
    lateRows        \* history: rows a process wrote after it was told to stop

tableVars == <<hasColumn, row, accepted>>
runVars == <<faults, latest>>
vars == <<hasColumn, row, accepted, pc, stop, due, age, columnSeen, warned,
          faults, latest, ended, lateRows>>

Publishing == {"probe", "insert"}

Fault == faults < MaxFaults /\ faults' = faults + 1

Left(period, spent) == IF spent < period THEN period - spent ELSE 0

-----------------------------------------------------------------------------
(* The clock.                                                              *)

Tick ==
    /\ due' = [w \in Workers |-> Left(due[w], 1)]
    /\ age' = [w \in Workers |->
                  IF (pc[w] \in Publishing \/ ended[w] # "none") /\ age[w] < Republish
                     THEN age[w] + 1 ELSE age[w]]
    /\ UNCHANGED <<tableVars, pc, stop, columnSeen, warned, runVars, ended, lateRows>>

-----------------------------------------------------------------------------
(* A worker process.                                                       *)

Start(w) ==
    /\ pc[w] = "down"
    /\ Overlap \/ \A v \in Workers : pc[v] = "down" \/ stop[v]
    /\ pc' = [pc EXCEPT ![w] = "check"]
    /\ latest' = w
    /\ UNCHANGED <<tableVars, stop, due, age, columnSeen, warned, faults, ended, lateRows>>

\* The process ends and its memory with it.
Down(w) ==
    /\ pc' = [pc EXCEPT ![w] = "down"]
    /\ stop' = [stop EXCEPT ![w] = FALSE]
    /\ due' = [due EXCEPT ![w] = 0]
    /\ age' = [age EXCEPT ![w] = 0]
    /\ columnSeen' = [columnSeen EXCEPT ![w] = FALSE]
    /\ warned' = [warned EXCEPT ![w] = FALSE]
    /\ ended' = [ended EXCEPT ![w] = "none"]
    /\ lateRows' = [lateRows EXCEPT ![w] = 0]

\* A stopping worker, or one whose time has not come, returns.
Skip(w) ==
    /\ pc[w] = "check"
    /\ stop[w] \/ due[w] > 0
    /\ pc' = [pc EXCEPT ![w] = "work"]
    /\ UNCHANGED <<tableVars, stop, due, age, columnSeen, warned, runVars, ended, lateRows>>

\* Mutant of BeginPublish: a stopping worker publishes too.
BeginPublishStopping(w) ==
    /\ pc[w] = "check"
    /\ due[w] = 0
    /\ pc' = [pc EXCEPT ![w] = "probe"]
    /\ age' = [age EXCEPT ![w] = 0]
    /\ UNCHANGED <<tableVars, stop, due, columnSeen, warned, runVars, ended, lateRows>>

\* The stop flag is read here, and not again before the insert.
BeginPublish(w) ==
    /\ pc[w] = "check"
    /\ ~stop[w]
    /\ due[w] = 0
    /\ pc' = [pc EXCEPT ![w] = "probe"]
    /\ age' = [age EXCEPT ![w] = 0]
    /\ UNCHANGED <<tableVars, stop, due, columnSeen, warned, runVars, ended, lateRows>>

\* Mutant of Probe: a worker that has warned takes the column for missing.
ProbeOnce(w) ==
    /\ pc[w] = "probe"
    /\ columnSeen' = [columnSeen EXCEPT ![w] = hasColumn /\ ~warned[w]]
    /\ pc' = [pc EXCEPT ![w] = "insert"]
    /\ UNCHANGED <<tableVars, stop, due, age, warned, runVars, ended, lateRows>>

\* _has_capabilities_column
Probe(w) ==
    /\ pc[w] = "probe"
    /\ columnSeen' = [columnSeen EXCEPT ![w] = hasColumn]
    /\ pc' = [pc EXCEPT ![w] = "insert"]
    /\ UNCHANGED <<tableVars, stop, due, age, warned, runVars, ended, lateRows>>

\* The row a worker inserts; without the column the table's default stands for
\* the capabilities.
Block(w) == [by |-> w, capabilities |-> columnSeen[w]]

\* Mutant of Store: without a token of its own a block is known by its content.
StoreOnce(w) ==
    /\ row' = IF Block(w) \in accepted THEN row ELSE Block(w)
    /\ accepted' = accepted \cup {Block(w)}

\* The table takes the row: each write has a deduplication token of its own.
Store(w) ==
    /\ row' = Block(w)
    /\ accepted' = accepted \cup {Block(w)}

\* _maybe_publish_worker_info returns, and is due again a period after the time
\* it read at its start.
EndPublish(w, period) ==
    /\ pc' = [pc EXCEPT ![w] = "work"]
    /\ due' = [due EXCEPT ![w] = Left(period, age[w])]
    /\ columnSeen' = [columnSeen EXCEPT ![w] = FALSE]

CountLate(w) == lateRows' = IF stop[w] THEN [lateRows EXCEPT ![w] = @ + 1] ELSE lateRows

Insert(w) ==
    /\ pc[w] = "insert"
    /\ Store(w)
    /\ CountLate(w)
    /\ warned' = [warned EXCEPT ![w] = @ \/ ~columnSeen[w]]
    /\ EndPublish(w, Republish)
    /\ ended' = [ended EXCEPT ![w] = "written"]
    /\ UNCHANGED <<hasColumn, stop, age, runVars>>

\* Mutant of PublishError: a failed write is scheduled like one that was made.
PublishErrorLong(w) ==
    /\ pc[w] \in Publishing
    /\ Fault
    /\ \/ pc[w] = "insert" /\ Store(w) /\ CountLate(w)
       \/ UNCHANGED <<row, accepted, lateRows>>
    /\ EndPublish(w, Republish)
    /\ ended' = [ended EXCEPT ![w] = "failed"]
    /\ UNCHANGED <<hasColumn, stop, age, warned, latest>>

\* The query or the insert raises; the table may have taken the row all the same.
PublishError(w) ==
    /\ pc[w] \in Publishing
    /\ Fault
    /\ \/ pc[w] = "insert" /\ Store(w) /\ CountLate(w)
       \/ UNCHANGED <<row, accepted, lateRows>>
    /\ EndPublish(w, Retry)
    /\ ended' = [ended EXCEPT ![w] = "failed"]
    /\ UNCHANGED <<hasColumn, stop, age, warned, latest>>

\* A poll or a page later the worker is back at the check, also while it finishes
\* its batch after the stop signal, ...
Return(w) ==
    /\ pc[w] = "work"
    /\ pc' = [pc EXCEPT ![w] = "check"]
    /\ UNCHANGED <<tableVars, stop, due, age, columnSeen, warned, runVars, ended, lateRows>>

\* ... until its loop ends.
Exit(w) ==
    /\ pc[w] = "work"
    /\ stop[w]
    /\ Down(w)
    /\ UNCHANGED <<tableVars, runVars>>

\* SIGTERM: the handler may run between any two steps.
Signal(w) ==
    /\ pc[w] # "down"
    /\ ~stop[w]
    /\ Fault
    /\ stop' = [stop EXCEPT ![w] = TRUE]
    /\ UNCHANGED <<tableVars, pc, due, age, columnSeen, warned, latest, ended, lateRows>>

Kill(w) ==
    /\ pc[w] # "down"
    /\ Fault
    /\ \/ pc[w] = "insert" /\ Store(w)
       \/ UNCHANGED <<row, accepted>>
    /\ Down(w)
    /\ UNCHANGED <<hasColumn, latest>>

-----------------------------------------------------------------------------
(* The chart.                                                              *)

\* The migration adds the column; rows written before get its default.
AddColumn ==
    /\ ~hasColumn
    /\ hasColumn' = TRUE
    /\ UNCHANGED <<row, accepted, pc, stop, due, age, columnSeen, warned, runVars, ended, lateRows>>

\* An older chart's schema job writes a newer row, without capabilities.
JobWrites ==
    /\ Fault
    /\ row' = [by |-> "job", capabilities |-> FALSE]
    /\ UNCHANGED <<hasColumn, accepted, pc, stop, due, age, columnSeen, warned,
                   latest, ended, lateRows>>

-----------------------------------------------------------------------------
Init ==
    /\ hasColumn \in BOOLEAN
    /\ row = [by |-> "nobody", capabilities |-> FALSE]
    /\ accepted = {}
    /\ pc = [w \in Workers |-> "down"]
    /\ stop = [w \in Workers |-> FALSE]
    /\ due = [w \in Workers |-> 0]
    /\ age = [w \in Workers |-> 0]
    /\ columnSeen = [w \in Workers |-> FALSE]
    /\ warned = [w \in Workers |-> FALSE]
    /\ faults = 0
    /\ latest \in Workers
    /\ ended = [w \in Workers |-> "none"]
    /\ lateRows = [w \in Workers |-> 0]

Work(w) ==
    \/ Skip(w) \/ BeginPublish(w) \/ Probe(w) \/ Insert(w) \/ Return(w)

Next ==
    \/ Tick
    \/ \E w \in Workers :
          \/ Start(w) \/ Work(w) \/ Exit(w)
          \/ PublishError(w) \/ Signal(w) \/ Kill(w)
    \/ AddColumn
    \/ JobWrites

\* Time passes and a running process goes on; nothing else is promised.
Fairness == WF_vars(Tick) /\ \A w \in Workers : WF_vars(Work(w))

Spec == Init /\ [][Next]_vars /\ Fairness

-----------------------------------------------------------------------------
BlockType == [by : Workers, capabilities : BOOLEAN]

\* The period until a publish is due again, counted from the time its check read.
PeriodAfter(end) == IF end = "failed" THEN Retry ELSE Republish

\* When a worker publishes again (main.py, _maybe_publish_worker_info): at once after it
\* started, Retry ticks after it began a publish that failed and Republish ticks after it
\* began one that was made, however long the write took and whatever the worker did since.
\* One that took longer than that is due at once.
TypeOK ==
    /\ hasColumn \in BOOLEAN
    /\ row \in [by : Workers \cup {"job", "nobody"}, capabilities : BOOLEAN]
    /\ accepted \subseteq BlockType
    /\ pc \in [Workers -> {"down", "check", "work"} \cup Publishing]
    /\ stop \in [Workers -> BOOLEAN]
    /\ due \in [Workers -> 0..Republish]
    /\ \A w \in Workers :
          due[w] = IF pc[w] \in Publishing \/ ended[w] = "none" THEN 0
                   ELSE Left(PeriodAfter(ended[w]), age[w])
    /\ age \in [Workers -> 0..Republish]
    /\ columnSeen \in [Workers -> BOOLEAN]
    /\ warned \in [Workers -> BOOLEAN]
    /\ faults \in 0..MaxFaults
    /\ latest \in Workers
    /\ ended \in [Workers -> {"none", "written", "failed"}]
    /\ lateRows \in [Workers -> Nat]

\* A worker told to stop writes at most one more row, however long it takes to
\* finish its batch: the one it was writing when the signal came.
AtMostOneLateRow == \A w \in Workers : lateRows[w] <= 1

Serving(w) == pc[w] # "down" /\ ~stop[w]

\* Once the migration has added the column and a worker stays up, the row carries
\* capabilities for good: whatever the probe saw before, whichever writes failed,
\* and whatever the schema job wrote over it (README.md, main.py's constants).
CapabilitiesLand ==
    (<>hasColumn /\ <>[](\E w \in Workers : Serving(w)))
        => <>[](row.capabilities /\ row.by \in Workers)

\* Once a worker is the only one left, the row is its own for good.
HandOverSettles ==
    \A w \in Workers :
        <>[](Serving(w) /\ \A v \in Workers \ {w} : pc[v] = "down") => <>[](row.by = w)
=============================================================================

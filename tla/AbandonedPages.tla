--------------------------- MODULE AbandonedPages ---------------------------
(***************************************************************************)
(* What becomes of a page whose results cannot be written.  main.py drops  *)
(* the generator of executor.py in the middle of the page and goes on to   *)
(* the next one, with a pool of its own.  Tenacity's attempt holds the     *)
(* exception whose traceback holds the frame that holds the generator, so  *)
(* the old pool is shut down only when the cyclic garbage collector runs,  *)
(* in whatever thread it happens to run: that thread then closes the       *)
(* generator and joins the old pool's threads.  The threads share the lock *)
(* of the one log handler, and JSONFormatter runs under it.                *)
(***************************************************************************)
EXTENDS Naturals, FiniteSets

CONSTANTS
    MaxWorkers,     \* BatchExecutor._max_workers
    NumPages,       \* bound: page runs in a behaviour
    PageRows,       \* rows of a page
    CollectsWhileLogging    \* the collector may run inside JSONFormatter.format

ASSUME SizesAssumption ==
    MaxWorkers \in Nat \ {0} /\ NumPages \in Nat \ {0} /\ PageRows \in Nat \ {0}
ASSUME CollectsAssumption == CollectsWhileLogging \in BOOLEAN

Pages == 1..NumPages

\* A place in a page's pool: a row in flight and the thread that runs it.
Slots == Pages \X (1..MaxWorkers)

\* The other actors that take locks, or hold none.
Main == <<0, 0>>
Nobody == <<0, 1>>

VARIABLES
    page,           \* the page run() is at
    pc,             \* where run() and the generator of that page are
    handed,         \* rows of the page handed to the pool
    slot,           \* what the place's row and thread are doing
    done,           \* the done set of wait(), as far as not yet yielded
    dropped,        \* pages whose generator was left suspended
    garbage,        \* those of them the collector can find
    collector,      \* the thread the collector runs in, closing a generator,
    closing,        \*   the page of that generator (0: none),
    joining,        \*   and the threads it still has to join
    logLock,        \* who holds the lock of the log handler
    stop            \* _should_stop

mainVars == <<page, pc, handed, done, dropped>>
gcVars == <<collector, closing, joining>>
vars == <<page, pc, handed, slot, done, dropped, garbage, collector, closing,
          joining, logLock, stop>>

PoolOf(p) == {p} \X (1..MaxWorkers)

Calling == {s \in Slots : slot[s] = "calling"}

\* The collector, and the close it calls, run inside the thread they interrupt.
Runs(t) == collector # t

-----------------------------------------------------------------------------
(* The generator of the page at hand, driven by _write_results_in_chunks.  *)

Submit(s) ==
    /\ Runs(Main)
    /\ pc = "fill"
    /\ s \in PoolOf(page)
    /\ slot[s] = "free"
    /\ handed < PageRows
    /\ slot' = [slot EXCEPT ![s] = "calling"]
    /\ handed' = handed + 1
    /\ UNCHANGED <<page, pc, done, dropped, garbage, gcVars, logLock, stop>>

EndFill ==
    /\ Runs(Main)
    /\ pc = "fill"
    /\ handed = PageRows \/ \A s \in PoolOf(page) : slot[s] # "free"
    /\ pc' = "wait"
    /\ UNCHANGED <<page, handed, slot, done, dropped, garbage, gcVars, logLock, stop>>

\* Mutant of AwaitFirst: the other set that wait() returns.
AwaitFirstSwapped ==
    /\ Runs(Main)
    /\ pc = "wait"
    /\ \E s \in PoolOf(page) : slot[s] = "finished"
    /\ done' = {s \in PoolOf(page) : slot[s] \in {"calling", "called"}}
    /\ pc' = "drain"
    /\ UNCHANGED <<page, handed, slot, dropped, garbage, gcVars, logLock, stop>>

AwaitFirst ==
    /\ Runs(Main)
    /\ pc = "wait"
    /\ done' = {s \in PoolOf(page) : slot[s] = "finished"}
    /\ done' # {}
    /\ pc' = "drain"
    /\ UNCHANGED <<page, handed, slot, dropped, garbage, gcVars, logLock, stop>>

\* Mutant of Yield: the pool is refilled before the result is handed over.
YieldRefilled(s) ==
    /\ Runs(Main)
    /\ pc = "drain"
    /\ s \in done
    /\ slot' = [slot EXCEPT ![s] = IF handed < PageRows THEN "calling" ELSE "free"]
    /\ handed' = IF handed < PageRows THEN handed + 1 ELSE handed
    /\ done' = done \ {s}
    /\ pc' \in {"drain", "write"}
    /\ UNCHANGED <<page, dropped, garbage, gcVars, logLock, stop>>

\* Mutant of Yield: the future is not taken out of in_flight.
YieldKeepsInFlight(s) ==
    /\ Runs(Main)
    /\ pc = "drain"
    /\ s \in done
    /\ done' = done \ {s}
    /\ pc' \in {"drain", "write"}
    /\ UNCHANGED <<page, handed, slot, dropped, garbage, gcVars, logLock, stop>>

\* The result is yielded; it may complete a chunk, which is written while the
\* generator is suspended.
Yield(s) ==
    /\ Runs(Main)
    /\ pc = "drain"
    /\ s \in done
    /\ slot' = [slot EXCEPT ![s] = "free"]
    /\ done' = done \ {s}
    /\ pc' \in {"drain", "write"}
    /\ UNCHANGED <<page, handed, dropped, garbage, gcVars, logLock, stop>>

Written ==
    /\ Runs(Main)
    /\ pc = "write"
    /\ pc' = "drain"
    /\ UNCHANGED <<page, handed, slot, done, dropped, garbage, gcVars, logLock, stop>>

Refill ==
    /\ Runs(Main)
    /\ pc = "drain"
    /\ done = {}
    /\ pc' = "fill"
    /\ UNCHANGED <<page, handed, slot, done, dropped, garbage, gcVars, logLock, stop>>

\* Every row was yielded: the with block joins idle threads, the last chunk is
\* written, successfully or not, with no generator left to drop.  A batch goes on
\* with its next page whatever _should_stop says.
EndPage ==
    /\ Runs(Main)
    /\ pc = "wait"
    /\ \A s \in PoolOf(page) : slot[s] = "free"
    /\ \/ pc' = "poll"
       \/ pc' = "fetch" /\ page < NumPages
    /\ UNCHANGED <<page, handed, slot, done, dropped, garbage, gcVars, logLock, stop>>

\* _write_results_with_retry reraises; run() catches the error, logs and sleeps.
GiveUp ==
    /\ Runs(Main)
    /\ pc = "write"
    /\ dropped' = dropped \cup {page}
    /\ done' = {}
    /\ pc' = "sleep"
    /\ UNCHANGED <<page, handed, slot, garbage, gcVars, logLock, stop>>

\* run() leaves the except clause, and with it the last reference to the error
\* from outside the cycle.
EndSleep ==
    /\ Runs(Main)
    /\ pc = "sleep"
    /\ garbage' = garbage \cup {page}
    /\ pc' = "poll"
    /\ UNCHANGED <<page, handed, slot, done, dropped, gcVars, logLock, stop>>

-----------------------------------------------------------------------------
(* The loop of run().                                                      *)

StartBatch ==
    /\ Runs(Main)
    /\ pc = "poll"
    /\ page < NumPages /\ ~stop
    /\ pc' = "fetch"
    /\ UNCHANGED <<page, handed, slot, done, dropped, garbage, gcVars, logLock, stop>>

\* The next page is fetched and logged, ...
BeginMainLog ==
    /\ Runs(Main)
    /\ pc = "fetch"
    /\ logLock = Nobody
    /\ logLock' = Main
    /\ UNCHANGED <<mainVars, slot, garbage, gcVars, stop>>

\* ... and a new generator makes a new pool for it.
NextPage ==
    /\ Runs(Main)
    /\ pc = "fetch"
    /\ logLock = Main
    /\ logLock' = Nobody
    /\ page' = page + 1
    /\ handed' = 0
    /\ pc' = "fill"
    /\ UNCHANGED <<slot, done, dropped, garbage, gcVars, stop>>

\* Without a batch the loop idles until it is stopped; the interpreter then joins
\* the threads of every pool before the process ends.
Exit ==
    /\ Runs(Main)
    /\ pc = "poll"
    /\ stop
    /\ \A s \in Slots : slot[s] \in {"free", "finished"}
    /\ pc' = "stopped"
    /\ UNCHANGED <<page, handed, slot, done, dropped, garbage, gcVars, logLock, stop>>

Signal ==
    /\ ~stop
    /\ stop' = TRUE
    /\ UNCHANGED <<mainVars, slot, garbage, gcVars, logLock>>

-----------------------------------------------------------------------------
(* A pool thread.                                                          *)

\* The provider has answered, or the row's retries are used up.
CallEnds(s) ==
    /\ Runs(s)
    /\ slot[s] = "calling"
    /\ slot' = [slot EXCEPT ![s] = "called"]
    /\ UNCHANGED <<mainVars, garbage, gcVars, logLock, stop>>

\* row_complete, row_failed: the handler's lock, then JSONFormatter.format, ...
BeginLog(s) ==
    /\ Runs(s)
    /\ slot[s] = "called"
    /\ logLock = Nobody
    /\ logLock' = s
    /\ UNCHANGED <<mainVars, slot, garbage, gcVars, stop>>

\* Mutant of EndLog: the lock is not given back.
EndLogKeepsLock(s) ==
    /\ Runs(s)
    /\ logLock = s
    /\ slot[s] = "called"
    /\ slot' = [slot EXCEPT ![s] = "finished"]
    /\ UNCHANGED <<mainVars, garbage, gcVars, logLock, stop>>

\* ... and the future has its result.
EndLog(s) ==
    /\ Runs(s)
    /\ logLock = s
    /\ logLock' = Nobody
    /\ slot' = [slot EXCEPT ![s] = "finished"]
    /\ UNCHANGED <<mainVars, garbage, gcVars, stop>>

-----------------------------------------------------------------------------
(* The garbage collector.                                                  *)

\* It can interrupt any thread between two bytecodes: here a call's, one that is
\* logging, or run's.
MayCollect(t) ==
    /\ \/ t = Main /\ pc # "stopped"
       \/ t \in Calling
       \/ t = logLock
    /\ CollectsWhileLogging \/ t # logLock

\* The generator is closed: its with block shuts the pool down and joins its
\* threads in some order; a thread that comes to itself gets a RuntimeError,
\* which ends the close.
Collect(t, p) ==
    /\ collector = Nobody
    /\ MayCollect(t)
    /\ p \in garbage
    /\ collector' = t
    /\ closing' = p
    /\ IF t \in PoolOf(p) THEN joining' \in SUBSET (PoolOf(p) \ {t}) ELSE joining' = PoolOf(p)
    /\ garbage' = garbage \ {p}
    /\ UNCHANGED <<mainVars, slot, logLock, stop>>

EndCollect ==
    /\ collector # Nobody
    /\ \A s \in joining : slot[s] \in {"free", "finished"}
    /\ collector' = Nobody
    /\ closing' = 0
    /\ joining' = {}
    /\ UNCHANGED <<mainVars, slot, garbage, logLock, stop>>

-----------------------------------------------------------------------------
Init ==
    /\ page = 1
    /\ pc = "fill"
    /\ handed = 0
    /\ slot = [s \in Slots |-> "free"]
    /\ done = {}
    /\ dropped = {}
    /\ garbage = {}
    /\ collector = Nobody
    /\ closing = 0
    /\ joining = {}
    /\ logLock = Nobody
    /\ stop = FALSE

Thread(s) == CallEnds(s) \/ BeginLog(s) \/ EndLog(s)

Run ==
    \/ EndFill \/ AwaitFirst \/ Written \/ Refill \/ EndPage \/ GiveUp \/ EndSleep
    \/ StartBatch \/ BeginMainLog \/ NextPage \/ Exit
    \/ \E s \in Slots : Submit(s) \/ Yield(s)

Next ==
    \/ Run
    \/ Signal
    \/ \E s \in Slots : Thread(s)
    \/ \E t \in Slots \cup {Main}, p \in Pages : Collect(t, p)
    \/ EndCollect

\* Every thread goes on, and a call ends or times out.  The collector need never
\* run.
Fairness ==
    /\ WF_vars(Run)
    /\ \A s \in Slots : WF_vars(Thread(s))
    /\ WF_vars(EndCollect)

Spec == Init /\ [][Next]_vars /\ Fairness

-----------------------------------------------------------------------------
TypeOK ==
    /\ page \in Pages
    /\ pc \in {"fill", "wait", "drain", "write", "sleep", "poll",
               "fetch", "stopped"}
    /\ handed \in 0..PageRows
    /\ slot \in [Slots -> {"free", "calling", "called", "finished"}]
    /\ done \subseteq {s \in PoolOf(page) : slot[s] = "finished"}
    /\ dropped \subseteq 1..page
    /\ garbage \subseteq dropped
    /\ collector \in Slots \cup {Main, Nobody}
    /\ closing \in Pages \cup {0}
    /\ collector # Nobody => closing \in dropped \ garbage
    /\ joining \subseteq Slots
    /\ logLock \in Slots \cup {Main, Nobody}
    /\ stop \in BOOLEAN

\* What a dropped page goes on costing: suspended at a yield, the generator has one
\* place of its pool free at least and hands out nothing, so the page adds at most
\* MaxWorkers - 1 calls to those of the page at hand; a page that ended adds none.
StragglersBounded ==
    \A p \in Pages :
        Cardinality(Calling \cap PoolOf(p)) <=
            (IF p \in dropped THEN MaxWorkers - 1 ELSE IF p = page THEN MaxWorkers ELSE 0)

\* SIGTERM ends the process, whatever was dropped before and in whichever thread it
\* is being cleaned up.
SignalStops == stop ~> pc = "stopped"

\* No page is kept waiting by those dropped before it: again and again run() is
\* between two pages, or at its end.
PagesGoOn == []<>(pc \in {"fetch", "poll", "stopped"})
=============================================================================

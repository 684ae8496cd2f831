------------------------ MODULE AbandonedPages_proofs ------------------------
(***************************************************************************)
(* Proofs about AbandonedPages, for any number of threads, pages and rows, *)
(* and wherever the collector may run.  A generator is left behind where   *)
(* it yielded, right after its thread became free, and it hands out rows   *)
(* nowhere else: that place stays free for as long as the process lives.   *)
(***************************************************************************)
EXTENDS AbandonedPages, FiniteSetTheorems, TLAPS

HasRoom(p) == \E s \in PoolOf(p) : slot[s] = "free"
Empty(p) == \A s \in PoolOf(p) : slot[s] = "free"

\* Where run() is in the page at hand.
PhaseInv ==
    /\ pc \notin {"drain", "write"} => done = {}
    /\ pc \in {"fill", "wait", "drain", "write"} => page \notin dropped
    /\ pc = "write" => HasRoom(page)
    /\ pc = "sleep" =>
          /\ page \in dropped \ garbage
          /\ collector # Nobody => closing # page
    /\ pc \in {"poll", "fetch", "stopped"} /\ page \notin dropped => Empty(page)
    /\ pc = "fetch" => page < NumPages

\* What the pages before left in their pools.
PoolsInv ==
    /\ \A p \in dropped : HasRoom(p)
    /\ \A p \in Pages : p # page /\ p \notin dropped => Empty(p)

\* A pool thread that has the log handler's lock is between its call and its result.
LockInv == logLock \in Slots => slot[logLock] = "called"

IInv == TypeOK /\ PhaseInv /\ PoolsInv /\ LockInv

-----------------------------------------------------------------------------
\* A place that changes while it holds a row leaves what is free as it was.
LEMMA BusyChange ==
    ASSUME NEW s \in Slots, NEW state \in {"called", "finished"}, TypeOK,
           slot[s] \in {"calling", "called"},
           slot' = [slot EXCEPT ![s] = state]
    PROVE  /\ slot' \in [Slots -> {"free", "calling", "called", "finished"}]
           /\ \A t \in Slots : (slot'[t] = "free") <=> (slot[t] = "free")
           /\ \A t \in Slots : slot[t] = "finished" => slot'[t] = "finished"
           /\ \A t \in Slots : t # s => slot'[t] = slot[t]
           /\ slot'[s] = state
BY DEF TypeOK

\* A page's pool is some of the places there are.
LEMMA PoolsAreSlots ==
    ASSUME NEW p \in Pages
    PROVE  PoolOf(p) \subseteq Slots
BY DEF PoolOf, Slots

\* No place is in the pools of two pages.
LEMMA PoolsApart ==
    ASSUME NEW p, NEW q, p # q
    PROVE  PoolOf(p) \cap PoolOf(q) = {}
BY DEF PoolOf

\* At first nothing runs and nothing was dropped.
LEMMA InitInv == Init => IInv
<1> SUFFICES ASSUME Init PROVE IInv
  OBVIOUS
<1>1. 1 \in Pages
  BY SizesAssumption DEF Pages
<1>2. Nobody \notin Slots
  BY DEF Nobody, Slots, Pages
<1>3. TypeOK
  <2>1. slot \in [Slots -> {"free", "calling", "called", "finished"}]
    BY DEF Init
  <2>2. handed \in 0..PageRows
    BY SizesAssumption DEF Init
  <2> QED BY <1>1, <2>1, <2>2 DEF Init, TypeOK
<1>4. PoolsInv
  BY PoolsAreSlots DEF Init, PoolsInv, Empty
<1> QED BY <1>2, <1>3, <1>4 DEF Init, IInv, PhaseInv, LockInv

-----------------------------------------------------------------------------
(* The generator and the loop of run.                                      *)

\* A row takes a free place in the pool of the page at hand, which was not dropped.
LEMMA SubmitInv == ASSUME IInv, NEW s \in Slots, Submit(s) PROVE IInv'
<1> USE DEF IInv, Submit, gcVars
<1>1. page \notin dropped /\ page \in Pages /\ s \in PoolOf(page)
  BY DEF PhaseInv, TypeOK
<1>2. /\ slot' \in [Slots -> {"free", "calling", "called", "finished"}]
      /\ \A t \in Slots : t # s => slot'[t] = slot[t]
  BY DEF TypeOK
<1>3. handed' \in 0..PageRows
  BY SizesAssumption DEF TypeOK
<1>4. done = {}
  BY DEF PhaseInv
<1>5. TypeOK'
  BY <1>2, <1>3, <1>4 DEF TypeOK
<1>6. PhaseInv'
  BY <1>1, <1>4 DEF PhaseInv
<1>7. \A p \in Pages : p # page => \A t \in PoolOf(p) : slot'[t] = slot[t]
  BY <1>1, <1>2, PoolsAreSlots, PoolsApart
<1>8. PoolsInv'
  <2>1. dropped \subseteq Pages
    BY SizesAssumption DEF TypeOK, Pages
  <2> QED BY <1>1, <1>7, <2>1 DEF PoolsInv, HasRoom, Empty
<1>9. LockInv'
  BY <1>2 DEF LockInv
<1> QED BY <1>5, <1>6, <1>8, <1>9

\* The place of a result that is handed over becomes free: there the generator waits.
LEMMA YieldInv == ASSUME IInv, NEW s \in Slots, Yield(s) PROVE IInv'
<1> USE DEF IInv, Yield, gcVars
<1>1. page \notin dropped /\ page \in Pages /\ s \in PoolOf(page) /\ slot[s] = "finished"
  BY DEF PhaseInv, TypeOK
<1>2. /\ slot' \in [Slots -> {"free", "calling", "called", "finished"}]
      /\ slot'[s] = "free"
      /\ \A t \in Slots : t # s => slot'[t] = slot[t]
  BY DEF TypeOK
<1>3. TypeOK'
  <2>1. done' \subseteq {t \in PoolOf(page) : slot'[t] = "finished"}
    BY <1>1, <1>2, PoolsAreSlots DEF TypeOK
  <2>2. pc' \in {"drain", "write"}
    OBVIOUS
  <2> QED BY <1>2, <2>1, <2>2 DEF TypeOK
<1>4. PhaseInv'
  BY <1>1, <1>2 DEF PhaseInv, HasRoom
<1>5. \A p \in Pages : p # page => \A t \in PoolOf(p) : slot'[t] = slot[t]
  BY <1>1, <1>2, PoolsAreSlots, PoolsApart
<1>6. PoolsInv'
  <2>1. dropped \subseteq Pages
    BY SizesAssumption DEF TypeOK, Pages
  <2> QED BY <1>1, <1>5, <2>1 DEF PoolsInv, HasRoom, Empty
<1>7. LockInv'
  BY <1>1, <1>2 DEF LockInv
<1> QED BY <1>3, <1>4, <1>6, <1>7

\* The steps of run() that leave the pools alone.
LEMMA GeneratorInv ==
    ASSUME IInv, EndFill \/ AwaitFirst \/ Written \/ Refill
    PROVE  IInv'
<1> USE DEF IInv, EndFill, AwaitFirst, Written, Refill, gcVars
<1>1. TypeOK'
  BY DEF TypeOK
<1>2. PhaseInv'
  BY DEF PhaseInv, HasRoom, Empty
<1>3. PoolsInv'
  BY DEF PoolsInv, HasRoom, Empty
<1>4. LockInv'
  BY DEF LockInv
<1> QED BY <1>1, <1>2, <1>3, <1>4

\* The step that ends a page and goes on to the next, or to the sleep.
LEMMA EndPageInv == ASSUME IInv, EndPage PROVE IInv'
<1> USE DEF IInv, EndPage, gcVars
<1>1. TypeOK'
  BY DEF TypeOK
<1>2. PhaseInv'
  BY DEF PhaseInv, HasRoom, Empty
<1>3. PoolsInv'
  BY DEF PoolsInv, HasRoom, Empty
<1>4. LockInv'
  BY DEF LockInv
<1> QED BY <1>1, <1>2, <1>3, <1>4

\* The page was not dropped before, so no collector is closing it.
LEMMA GiveUpInv == ASSUME IInv, GiveUp PROVE IInv'
<1> USE DEF IInv, GiveUp, gcVars
<1>1. page \notin dropped /\ page \in 1..page /\ HasRoom(page)
  BY SizesAssumption DEF PhaseInv, TypeOK, Pages
<1>2. TypeOK'
  BY <1>1 DEF TypeOK
<1>3. PhaseInv'
  BY <1>1 DEF PhaseInv, TypeOK
<1>4. PoolsInv'
  BY <1>1 DEF PoolsInv, HasRoom, Empty
<1>5. LockInv'
  BY DEF LockInv
<1> QED BY <1>2, <1>3, <1>4, <1>5

\* The step that ends the sleep after a page was dropped.
LEMMA EndSleepInv == ASSUME IInv, EndSleep PROVE IInv'
<1> USE DEF IInv, EndSleep, gcVars
<1>1. page \in dropped /\ (collector # Nobody => closing # page)
  BY DEF PhaseInv
<1>2. TypeOK'
  BY <1>1 DEF TypeOK
<1>3. PhaseInv'
  BY <1>1 DEF PhaseInv
<1>4. PoolsInv'
  BY DEF PoolsInv, HasRoom, Empty
<1>5. LockInv'
  BY DEF LockInv
<1> QED BY <1>2, <1>3, <1>4, <1>5

\* The other steps of the loop leave the pools alone.
LEMMA LoopInv == ASSUME IInv, StartBatch \/ BeginMainLog \/ Exit PROVE IInv'
<1> USE DEF IInv, StartBatch, BeginMainLog, Exit, gcVars, mainVars
<1>1. TypeOK'
  BY DEF TypeOK
<1>2. PhaseInv'
  BY DEF PhaseInv, HasRoom, Empty
<1>3. PoolsInv'
  BY DEF PoolsInv, HasRoom, Empty
<1>4. LockInv'
  BY DEF LockInv, Main, Slots, Pages
<1> QED BY <1>1, <1>2, <1>3, <1>4

\* The pool of the page before was emptied, or that page was dropped.
LEMMA NextPageInv == ASSUME IInv, NextPage PROVE IInv'
<1> USE DEF IInv, NextPage, gcVars
<1>1. done = {} /\ page < NumPages /\ (page \notin dropped => Empty(page))
  BY DEF PhaseInv
<1>2. page' \in Pages /\ page' \notin dropped /\ dropped \subseteq 1..page'
  BY <1>1, SizesAssumption DEF TypeOK, Pages
<1>3. TypeOK'
  BY <1>1, <1>2, SizesAssumption DEF TypeOK
<1>4. PhaseInv'
  BY <1>1, <1>2 DEF PhaseInv
<1>5. PoolsInv'
  BY <1>1 DEF PoolsInv, HasRoom, Empty
<1>6. LockInv'
  BY DEF LockInv, Nobody, Slots, Pages
<1> QED BY <1>3, <1>4, <1>5, <1>6

-----------------------------------------------------------------------------
(* The pool threads and the collector.                                     *)

\* What a thread does to a place with a row in it disturbs no free place.
LEMMA BusyInv ==
    ASSUME IInv, NEW s \in Slots, NEW state \in {"called", "finished"},
           slot[s] \in {"calling", "called"},
           slot' = [slot EXCEPT ![s] = state],
           UNCHANGED <<mainVars, garbage, gcVars, stop>>
    PROVE  /\ logLock' \in Slots \cup {Main, Nobody} => TypeOK'
           /\ PhaseInv'
           /\ PoolsInv'
<1> USE DEF IInv, mainVars, gcVars
<1>1. /\ slot' \in [Slots -> {"free", "calling", "called", "finished"}]
      /\ \A t \in Slots : (slot'[t] = "free") <=> (slot[t] = "free")
      /\ \A t \in Slots : slot[t] = "finished" => slot'[t] = "finished"
  BY BusyChange
<1>2. \A p \in Pages : (HasRoom(p)' <=> HasRoom(p)) /\ (Empty(p)' <=> Empty(p))
  BY <1>1, PoolsAreSlots DEF HasRoom, Empty
<1>3. page \in Pages /\ dropped \subseteq Pages
  BY SizesAssumption DEF TypeOK, Pages
<1>4. ASSUME logLock' \in Slots \cup {Main, Nobody} PROVE TypeOK'
  <2>1. done' \subseteq {t \in PoolOf(page') : slot'[t] = "finished"}
    BY <1>1, <1>3, PoolsAreSlots DEF TypeOK
  <2> QED BY <1>1, <1>4, <2>1 DEF TypeOK
<1>5. PhaseInv'
  BY <1>2, <1>3 DEF PhaseInv
<1>6. PoolsInv'
  BY <1>2, <1>3 DEF PoolsInv
<1> QED BY <1>4, <1>5, <1>6

\* A step of a row's thread goes on with its place and frees none.
LEMMA ThreadInv == ASSUME IInv, NEW s \in Slots, Thread(s) PROVE IInv'
<1> USE DEF IInv
<1>1. CASE CallEnds(s)
  <2>1. logLock' \in Slots \cup {Main, Nobody}
    BY <1>1 DEF CallEnds, TypeOK
  <2>2. TypeOK' /\ PhaseInv' /\ PoolsInv'
    BY <1>1, <2>1, BusyInv DEF CallEnds
  <2>3. LockInv'
    BY <1>1 DEF CallEnds, LockInv, TypeOK
  <2> QED BY <2>2, <2>3
<1>2. CASE BeginLog(s)
  <2> USE DEF BeginLog, mainVars, gcVars
  <2>1. TypeOK'
    BY <1>2 DEF TypeOK
  <2>2. PhaseInv'
    BY <1>2 DEF PhaseInv, HasRoom, Empty
  <2>3. PoolsInv'
    BY <1>2 DEF PoolsInv, HasRoom, Empty
  <2>4. LockInv'
    BY <1>2 DEF LockInv
  <2> QED BY <2>1, <2>2, <2>3, <2>4
<1>3. CASE EndLog(s)
  <2>1. slot[s] = "called"
    BY <1>3 DEF EndLog, LockInv
  <2>2. TypeOK' /\ PhaseInv' /\ PoolsInv'
    BY <1>3, <2>1, BusyInv DEF EndLog
  <2>3. LockInv'
    BY <1>3 DEF EndLog, LockInv, Nobody, Slots, Pages
  <2> QED BY <2>2, <2>3
<1> QED BY <1>1, <1>2, <1>3 DEF Thread

\* Only what is garbage is closed, and a page that is still slept over is not.
LEMMA CollectorInv ==
    ASSUME IInv,
           \/ \E t \in Slots \cup {Main}, p \in Pages : Collect(t, p)
           \/ EndCollect
    PROVE  IInv'
<1> USE DEF IInv, mainVars
<1>1. ASSUME NEW t \in Slots \cup {Main}, NEW p \in Pages, Collect(t, p)
      PROVE  IInv'
  <2> USE <1>1 DEF Collect
  <2>1. joining' \subseteq Slots
    BY PoolsAreSlots
  <2>2. collector' \in Slots \cup {Main, Nobody} /\ closing' \in Pages \cup {0}
    OBVIOUS
  <2>3. closing' \in dropped' \ garbage' /\ garbage' \subseteq dropped'
    BY DEF TypeOK
  <2>4. TypeOK'
    BY <2>1, <2>2, <2>3 DEF TypeOK
  <2>5. PhaseInv'
    BY DEF PhaseInv, HasRoom, Empty
  <2>6. PoolsInv'
    BY DEF PoolsInv, HasRoom, Empty
  <2>7. LockInv'
    BY DEF LockInv
  <2> QED BY <2>4, <2>5, <2>6, <2>7
<1>2. ASSUME EndCollect PROVE IInv'
  <2> USE <1>2 DEF EndCollect
  <2>1. TypeOK'
    BY DEF TypeOK
  <2>2. PhaseInv'
    BY DEF PhaseInv, HasRoom, Empty
  <2>3. PoolsInv'
    BY DEF PoolsInv, HasRoom, Empty
  <2>4. LockInv'
    BY DEF LockInv
  <2> QED BY <2>1, <2>2, <2>3, <2>4
<1> QED BY <1>1, <1>2

\* A signal only sets stop.
LEMMA StutterInv == ASSUME IInv, Signal \/ UNCHANGED vars PROVE IInv'
<1> USE DEF IInv, Signal, vars, mainVars, gcVars
<1>1. TypeOK'
  BY DEF TypeOK
<1>2. PhaseInv'
  BY DEF PhaseInv, HasRoom, Empty
<1>3. PoolsInv'
  BY DEF PoolsInv, HasRoom, Empty
<1>4. LockInv'
  BY DEF LockInv
<1> QED BY <1>1, <1>2, <1>3, <1>4

-----------------------------------------------------------------------------
\* The inductive invariant of the pages, dropped or not.
THEOREM Invariance == Spec => []IInv
<1>1. IInv /\ [Next]_vars => IInv'
  <2> SUFFICES ASSUME IInv, [Next]_vars PROVE IInv'
    OBVIOUS
  <2>1. CASE Run
    BY <2>1, SubmitInv, YieldInv, GeneratorInv, EndPageInv, GiveUpInv, EndSleepInv,
       LoopInv, NextPageInv DEF Run
  <2>2. CASE \E s \in Slots : Thread(s)
    BY <2>2, ThreadInv
  <2>3. CASE \/ \E t \in Slots \cup {Main}, p \in Pages : Collect(t, p)
             \/ EndCollect
    BY <2>3, CollectorInv
  <2>4. CASE Signal \/ UNCHANGED vars
    BY <2>4, StutterInv
  <2> QED BY <2>1, <2>2, <2>3, <2>4 DEF Next
<1> QED BY InitInv, <1>1, PTL DEF Spec

\* Every variable of the pages has its type; a result handed over was finished, and a
\* generator is closed only after it was dropped, and once.
THEOREM TypeCorrect == Spec => []TypeOK
BY Invariance, PTL DEF IInv

\* A pool of MaxWorkers places is a finite set of that many.
LEMMA PoolSize ==
    ASSUME NEW p \in Pages
    PROVE  IsFiniteSet(PoolOf(p)) /\ Cardinality(PoolOf(p)) = MaxWorkers
<1>1. IsFiniteSet(1..MaxWorkers) /\ Cardinality(1..MaxWorkers) = MaxWorkers
  BY SizesAssumption, FS_Interval
<1>2. IsFiniteSet({p}) /\ Cardinality({p}) = 1
  BY FS_Singleton
<1> QED BY <1>1, <1>2, FS_Product, SizesAssumption DEF PoolOf

\* However many pages are dropped, and wherever the collector runs, a dropped page keeps
\* at most MaxWorkers - 1 calls in flight, the page at hand MaxWorkers, and a page that
\* ended none.
THEOREM StragglersLimited == Spec => []StragglersBounded
<1>1. IInv => StragglersBounded
  <2> SUFFICES ASSUME IInv, NEW p \in Pages
               PROVE  Cardinality(Calling \cap PoolOf(p)) <=
                        (IF p \in dropped THEN MaxWorkers - 1
                         ELSE IF p = page THEN MaxWorkers ELSE 0)
    BY DEF StragglersBounded
  <2>1. IsFiniteSet(PoolOf(p)) /\ Cardinality(PoolOf(p)) = MaxWorkers
    BY PoolSize
  <2>2. CASE p \in dropped
    <3>1. PICK s \in PoolOf(p) : slot[s] = "free"
      BY <2>2 DEF IInv, PoolsInv, HasRoom
    <3>2. Calling \cap PoolOf(p) \subseteq PoolOf(p) \ {s}
      BY <3>1 DEF Calling
    <3>3. IsFiniteSet(PoolOf(p) \ {s}) /\ Cardinality(PoolOf(p) \ {s}) = MaxWorkers - 1
      BY <2>1, <3>1, FS_RemoveElement
    <3> QED BY <2>2, <3>2, <3>3, FS_Subset
  <2>3. CASE p \notin dropped /\ p = page
    BY <2>1, <2>3, FS_Subset
  <2>4. CASE p \notin dropped /\ p # page
    <3>1. Calling \cap PoolOf(p) = {}
      BY <2>4 DEF IInv, PoolsInv, Empty, Calling
    <3> QED BY <2>4, <3>1, FS_EmptySet
  <2> QED BY <2>2, <2>3, <2>4
<1> QED BY Invariance, <1>1, PTL
=============================================================================

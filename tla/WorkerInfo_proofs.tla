--------------------------- MODULE WorkerInfo_proofs ---------------------------
(***************************************************************************)
(* Proofs about WorkerInfo, for any workers, periods and number of faults. *)
(* The stop flag is read at the check and not again before the insert, so  *)
(* a stopping worker can be caught in one publish, and begins no other.    *)
(***************************************************************************)
EXTENDS WorkerInfo, TLAPS

\* A worker has late rows only once it was told to stop, and none while a publish it
\* began before is under way.
LateInv ==
    \A w \in Workers :
        /\ lateRows[w] <= 1
        /\ ~stop[w] \/ pc[w] \in Publishing => lateRows[w] = 0

IInv == TypeOK /\ LateInv

\* The clock of every worker, as TypeOK has it.
DueOK ==
    \A w \in Workers :
        due[w] = IF pc[w] \in Publishing \/ ended[w] = "none" THEN 0
                 ELSE Left(PeriodAfter(ended[w]), age[w])

LEMMA ClockOfType ==
    ASSUME TypeOK
    PROVE  DueOK
BY DEF TypeOK, DueOK

\* A worker's clock is right again if its own part of it is unchanged.
LEMMA ClockKept ==
    ASSUME TypeOK, UNCHANGED <<due, age, ended>>,
           \A w \in Workers : pc'[w] \in Publishing <=> pc[w] \in Publishing
    PROVE  DueOK'
BY ClockOfType DEF DueOK, PeriodAfter, Publishing

\* A process that ends leaves a worker as it was before the first start.
LEMMA DownInv ==
    ASSUME TypeOK, LateInv, NEW w \in Workers, Down(w)
    PROVE  /\ pc' \in [Workers -> {"down", "check", "work"} \cup Publishing]
           /\ stop' \in [Workers -> BOOLEAN]
           /\ due' \in [Workers -> 0..Republish]
           /\ DueOK'
           /\ age' \in [Workers -> 0..Republish]
           /\ columnSeen' \in [Workers -> BOOLEAN]
           /\ warned' \in [Workers -> BOOLEAN]
           /\ ended' \in [Workers -> {"none", "written", "failed"}]
           /\ lateRows' \in [Workers -> Nat]
           /\ LateInv'
<1>1. 0 \in 0..Republish
  BY PeriodsAssumption
<1>2. LateInv'
  BY DEF Down, TypeOK, LateInv, Publishing
<1>3. DueOK'
  <2>1. ASSUME NEW v \in Workers, v # w
        PROVE  /\ pc'[v] = pc[v] /\ due'[v] = due[v]
               /\ age'[v] = age[v] /\ ended'[v] = ended[v]
    BY <2>1 DEF Down, TypeOK
  <2>2. due'[w] = 0 /\ ended'[w] = "none"
    BY DEF Down, TypeOK
  <2> QED BY <2>1, <2>2, ClockOfType DEF DueOK
<1> QED BY <1>1, <1>2, <1>3 DEF Down, TypeOK, Publishing

\* The end of a publish, with or without a row, and how it is then due again.
LEMMA EndPublishInv ==
    ASSUME TypeOK, LateInv, NEW w \in Workers, NEW end \in {"written", "failed"},
           pc[w] \in Publishing, EndPublish(w, PeriodAfter(end)),
           ended' = [ended EXCEPT ![w] = end], UNCHANGED <<stop, age>>,
           CountLate(w) \/ lateRows' = lateRows
    PROVE  /\ pc' \in [Workers -> {"down", "check", "work"} \cup Publishing]
           /\ due' \in [Workers -> 0..Republish]
           /\ DueOK'
           /\ columnSeen' \in [Workers -> BOOLEAN]
           /\ ended' \in [Workers -> {"none", "written", "failed"}]
           /\ lateRows' \in [Workers -> Nat]
           /\ LateInv'
<1> DEFINE left == Left(PeriodAfter(end), age[w])
<1>1. left \in 0..Republish
  <2>1. PeriodAfter(end) \in Nat /\ PeriodAfter(end) <= Republish /\ age[w] \in Nat
    BY PeriodsAssumption DEF TypeOK, PeriodAfter
  <2> QED BY <2>1, PeriodsAssumption DEF Left
<1>2. /\ pc' \in [Workers -> {"down", "check", "work"} \cup Publishing]
      /\ pc'[w] = "work"
      /\ \A v \in Workers : v # w => pc'[v] = pc[v]
  BY DEF EndPublish, TypeOK, Publishing
<1>3. /\ due' \in [Workers -> 0..Republish]
      /\ columnSeen' \in [Workers -> BOOLEAN]
      /\ due'[w] = left
      /\ \A v \in Workers : v # w => due'[v] = due[v]
  BY <1>1 DEF EndPublish, TypeOK
<1>4. /\ ended' \in [Workers -> {"none", "written", "failed"}]
      /\ ended'[w] = end
      /\ \A v \in Workers : v # w => ended'[v] = ended[v]
  BY DEF TypeOK
<1>5. DueOK'
  <2>1. ASSUME NEW v \in Workers, v # w
        PROVE  due'[v] = IF pc'[v] \in Publishing \/ ended'[v] = "none" THEN 0
                         ELSE Left(PeriodAfter(ended'[v]), age'[v])
    BY <1>2, <1>3, <1>4, <2>1, ClockOfType DEF DueOK
  <2>2. due'[w] = IF pc'[w] \in Publishing \/ ended'[w] = "none" THEN 0
                  ELSE Left(PeriodAfter(ended'[w]), age'[w])
    BY <1>2, <1>3, <1>4 DEF Publishing
  <2> QED BY <2>1, <2>2 DEF DueOK, PeriodAfter, Publishing
<1>6. lateRows' \in [Workers -> Nat]
  BY DEF CountLate, TypeOK
<1>7. LateInv'
  <2>1. ASSUME NEW v \in Workers, v # w
        PROVE  lateRows'[v] = lateRows[v] /\ pc'[v] = pc[v] /\ stop'[v] = stop[v]
    BY <2>1, <1>2 DEF CountLate, TypeOK
  <2>2. /\ lateRows[w] = 0
        /\ lateRows'[w] = 0 \/ (lateRows'[w] = 1 /\ stop[w])
    BY DEF CountLate, TypeOK, LateInv
  <2>3. pc'[w] \notin Publishing
    BY <1>2 DEF Publishing
  <2> QED BY <2>1, <2>2, <2>3 DEF LateInv
<1> QED BY <1>2, <1>3, <1>4, <1>5, <1>6, <1>7

\* A row that is stored is a worker's.
LEMMA StoreType ==
    ASSUME TypeOK, NEW w \in Workers, Store(w)
    PROVE  /\ row' \in [by : Workers \cup {"job", "nobody"}, capabilities : BOOLEAN]
           /\ accepted' \subseteq BlockType
<1>1. Block(w) \in BlockType
  BY DEF Block, BlockType, TypeOK
<1>2. Block(w) \in [by : Workers \cup {"job", "nobody"}, capabilities : BOOLEAN]
  BY <1>1 DEF BlockType
<1> QED BY <1>1, <1>2 DEF Store, TypeOK

LEMMA InitInv ==
    ASSUME Init
    PROVE  IInv
<1>1. 0 \in 0..Republish /\ 0 \in 0..MaxFaults
  BY PeriodsAssumption, MaxFaultsAssumption
<1> QED BY <1>1 DEF Init, IInv, TypeOK, LateInv, Publishing

LEMMA Step ==
    ASSUME IInv, [Next]_vars
    PROVE  IInv'
<1> USE PeriodsAssumption, MaxFaultsAssumption DEF tableVars, runVars
<1>0. TypeOK /\ LateInv
  BY DEF IInv
<1>1. CASE Tick
  <2>1. UNCHANGED <<hasColumn, row, accepted, pc, stop, columnSeen, warned, faults, latest,
                    ended, lateRows>>
    BY <1>1 DEF Tick
  <2>2. due' \in [Workers -> 0..Republish] /\ age' \in [Workers -> 0..Republish]
    BY <1>0, <1>1 DEF Tick, TypeOK, Left
  <2>3. ASSUME NEW w \in Workers
        PROVE  due'[w] = IF pc[w] \in Publishing \/ ended[w] = "none" THEN 0
                         ELSE Left(PeriodAfter(ended[w]), age'[w])
    <3>1. due'[w] = Left(due[w], 1) /\ due[w] \in Nat /\ age[w] \in 0..Republish
      BY <1>0, <1>1 DEF Tick, TypeOK
    <3>2. due[w] = IF pc[w] \in Publishing \/ ended[w] = "none" THEN 0
                   ELSE Left(PeriodAfter(ended[w]), age[w])
      BY <1>0, ClockOfType DEF DueOK
    <3>3. CASE pc[w] \in Publishing \/ ended[w] = "none"
      BY <3>1, <3>2, <3>3 DEF Left
    <3>4. CASE ~(pc[w] \in Publishing \/ ended[w] = "none")
      <4>1. age'[w] = IF age[w] < Republish THEN age[w] + 1 ELSE age[w]
        BY <1>1, <3>4 DEF Tick
      <4>2. PeriodAfter(ended[w]) \in Nat /\ PeriodAfter(ended[w]) <= Republish
        BY DEF PeriodAfter
      <4> QED BY <3>1, <3>2, <3>4, <4>1, <4>2 DEF Left
    <3> QED BY <3>3, <3>4
  <2>4. DueOK'
    BY <2>1, <2>3 DEF DueOK, PeriodAfter, Publishing
  <2> QED BY <1>0, <2>1, <2>2, <2>4 DEF IInv, TypeOK, DueOK, LateInv, Publishing
<1>2. ASSUME NEW w \in Workers, Start(w) \/ Skip(w) \/ Return(w) PROVE IInv'
  <2>1. /\ pc' \in [Workers -> {"down", "check", "work"} \cup Publishing]
        /\ \A v \in Workers : pc'[v] \in Publishing <=> pc[v] \in Publishing
        /\ latest' \in Workers
        /\ UNCHANGED <<hasColumn, row, accepted, stop, due, age, columnSeen, warned, faults,
                       ended, lateRows>>
    BY <1>0, <1>2 DEF Start, Skip, Return, TypeOK, Publishing
  <2>2. DueOK'
    BY <1>0, <2>1, ClockKept
  <2> QED BY <1>0, <2>1, <2>2 DEF IInv, TypeOK, DueOK, LateInv
<1>3. ASSUME NEW w \in Workers, BeginPublish(w) PROVE IInv'
  <2>1. 0 \in 0..Republish
    OBVIOUS
  <2>2. DueOK'
    <3>1. ASSUME NEW v \in Workers, v # w
          PROVE  /\ pc'[v] = pc[v] /\ due'[v] = due[v]
                 /\ age'[v] = age[v] /\ ended'[v] = ended[v]
      BY <1>0, <1>3, <3>1 DEF BeginPublish, TypeOK
    <3>2. pc'[w] \in Publishing /\ due'[w] = 0
      BY <1>0, <1>3 DEF BeginPublish, TypeOK, Publishing
    <3> QED BY <1>0, <3>1, <3>2, ClockOfType DEF DueOK
  <2>3. TypeOK'
    BY <1>0, <1>3, <2>1, <2>2 DEF BeginPublish, TypeOK, DueOK, Publishing
  <2>4. LateInv'
    BY <1>0, <1>3 DEF BeginPublish, TypeOK, LateInv, Publishing
  <2> QED BY <2>3, <2>4 DEF IInv
<1>4. ASSUME NEW w \in Workers, Probe(w) PROVE IInv'
  <2>1. DueOK'
    BY <1>0, <1>4, ClockKept DEF Probe, TypeOK, Publishing
  <2>2. TypeOK'
    BY <1>0, <1>4, <2>1 DEF Probe, TypeOK, DueOK, Publishing
  <2>3. LateInv'
    BY <1>0, <1>4 DEF Probe, TypeOK, LateInv, Publishing
  <2> QED BY <2>2, <2>3 DEF IInv
<1>5. ASSUME NEW w \in Workers, Insert(w) PROVE IInv'
  <2>1. pc[w] \in Publishing
    BY <1>5 DEF Insert, Publishing
  <2>2. /\ row' \in [by : Workers \cup {"job", "nobody"}, capabilities : BOOLEAN]
        /\ accepted' \subseteq BlockType
    BY <1>0, <1>5, StoreType DEF Insert
  <2>3. warned' \in [Workers -> BOOLEAN]
    BY <1>0, <1>5 DEF Insert, TypeOK
  <2>4. UNCHANGED <<hasColumn, stop, age, faults, latest>>
    BY <1>5 DEF Insert
  <2>5. /\ EndPublish(w, PeriodAfter("written")) /\ CountLate(w)
        /\ ended' = [ended EXCEPT ![w] = "written"]
    BY <1>5 DEF Insert, PeriodAfter
  <2>6. /\ pc' \in [Workers -> {"down", "check", "work"} \cup Publishing]
        /\ due' \in [Workers -> 0..Republish]
        /\ DueOK'
        /\ columnSeen' \in [Workers -> BOOLEAN]
        /\ ended' \in [Workers -> {"none", "written", "failed"}]
        /\ lateRows' \in [Workers -> Nat]
        /\ LateInv'
    BY <1>0, <2>1, <2>4, <2>5, EndPublishInv
  <2> QED BY <1>0, <2>2, <2>3, <2>4, <2>6 DEF IInv, TypeOK, DueOK
<1>6. ASSUME NEW w \in Workers, PublishError(w) PROVE IInv'
  <2>1. /\ row' \in [by : Workers \cup {"job", "nobody"}, capabilities : BOOLEAN]
        /\ accepted' \subseteq BlockType
    <3>1. CASE Store(w)
      BY <1>0, <3>1, StoreType
    <3>2. CASE UNCHANGED <<row, accepted>>
      BY <1>0, <3>2 DEF TypeOK
    <3> QED BY <1>6, <3>1, <3>2 DEF PublishError
  <2>2. UNCHANGED <<hasColumn, stop, age, warned, latest>> /\ faults' \in 0..MaxFaults
    BY <1>0, <1>6 DEF PublishError, Fault, TypeOK
  <2>3. /\ pc[w] \in Publishing /\ EndPublish(w, PeriodAfter("failed"))
        /\ ended' = [ended EXCEPT ![w] = "failed"]
        /\ CountLate(w) \/ lateRows' = lateRows
    BY <1>6 DEF PublishError, PeriodAfter
  <2>4. /\ pc' \in [Workers -> {"down", "check", "work"} \cup Publishing]
        /\ due' \in [Workers -> 0..Republish]
        /\ DueOK'
        /\ columnSeen' \in [Workers -> BOOLEAN]
        /\ ended' \in [Workers -> {"none", "written", "failed"}]
        /\ lateRows' \in [Workers -> Nat]
        /\ LateInv'
    BY <1>0, <2>2, <2>3, EndPublishInv
  <2> QED BY <1>0, <2>1, <2>2, <2>4 DEF IInv, TypeOK, DueOK
<1>7. ASSUME NEW w \in Workers, Exit(w) PROVE IInv'
  <2>1. Down(w) /\ UNCHANGED <<hasColumn, row, accepted, faults, latest>>
    BY <1>7 DEF Exit
  <2> QED BY <1>0, <2>1, DownInv DEF IInv, TypeOK, DueOK
<1>8. ASSUME NEW w \in Workers, Kill(w) PROVE IInv'
  <2>1. /\ row' \in [by : Workers \cup {"job", "nobody"}, capabilities : BOOLEAN]
        /\ accepted' \subseteq BlockType
    <3>1. CASE Store(w)
      BY <1>0, <3>1, StoreType
    <3>2. CASE UNCHANGED <<row, accepted>>
      BY <1>0, <3>2 DEF TypeOK
    <3> QED BY <1>8, <3>1, <3>2 DEF Kill
  <2>2. Down(w) /\ UNCHANGED <<hasColumn, latest>> /\ faults' \in 0..MaxFaults
    BY <1>0, <1>8 DEF Kill, Fault, TypeOK
  <2> QED BY <1>0, <2>1, <2>2, DownInv DEF IInv, TypeOK, DueOK
<1>9. ASSUME NEW w \in Workers, Signal(w) PROVE IInv'
  <2>1. TypeOK'
    BY <1>0, <1>9 DEF Signal, Fault, TypeOK
  <2>2. LateInv'
    BY <1>0, <1>9 DEF Signal, TypeOK, LateInv
  <2> QED BY <2>1, <2>2 DEF IInv
<1>10. CASE AddColumn
  BY <1>0, <1>10 DEF AddColumn, IInv, TypeOK, LateInv
<1>11. CASE JobWrites
  <2>1. row' \in [by : Workers \cup {"job", "nobody"}, capabilities : BOOLEAN]
    BY <1>11 DEF JobWrites
  <2> QED BY <1>0, <1>11, <2>1 DEF JobWrites, Fault, IInv, TypeOK, LateInv
<1>12. CASE UNCHANGED vars
  BY <1>0, <1>12 DEF vars, IInv, TypeOK, LateInv
<1> QED BY <1>1, <1>2, <1>3, <1>4, <1>5, <1>6, <1>7, <1>8, <1>9, <1>10, <1>11, <1>12 DEF Next, Work

\* The invariant behind the properties below.
THEOREM Invariance == Spec => []IInv
<1>1. Init => IInv
  BY InitInv
<1>2. IInv /\ [Next]_vars => IInv'
  BY Step
<1> QED BY <1>1, <1>2, PTL DEF Spec

\* Type correctness, for any two periods: what is left until a publish is due again is what
\* the period of the last one leaves, counted from where it began.
THEOREM TypeCorrect == Spec => []TypeOK
<1>1. IInv => TypeOK
  BY DEF IInv
<1> QED BY <1>1, Invariance, PTL

\* A worker told to stop writes at most one more row over its replacement's, for any
\* number of workers, however long it goes on and however its writes fail.
THEOREM LateRowsBounded == Spec => []AtMostOneLateRow
<1>1. IInv => AtMostOneLateRow
  BY DEF IInv, LateInv, AtMostOneLateRow
<1> QED BY <1>1, Invariance, PTL
=============================================================================

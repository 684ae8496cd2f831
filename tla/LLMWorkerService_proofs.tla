------------------------ MODULE LLMWorkerService_proofs ------------------------
(***************************************************************************)
(* Proofs about LLMWorkerService, for any workers, batches, sizes and      *)
(* number of faults.  A worker that reads an empty page knows that every   *)
(* row of its batch is answered; results are never removed; so the counts  *)
(* it reads account for the batch, and go on to, until the status lands.   *)
(***************************************************************************)
EXTENDS LLMWorkerService, FiniteSetTheorems, WellFoundedInduction, TLAPS

\* An empty page of a query with ORDER BY and LIMIT means that nothing matched: the
\* smallest match is always on the page (get_batch_rows, process_single_batch).
LEMMA FirstKEmpty ==
    ASSUME NEW S \in SUBSET Nat, NEW k \in Nat \ {0}, FirstK(S, k) = {}
    PROVE  S = {}
<1> SUFFICES ASSUME S # {} PROVE FALSE
  OBVIOUS
<1>1. PICK m \in S : \A y \in S : ~(y < m)
  <2>1. \E m \in S : \A y \in S : <<y, m>> \notin OpToRel(<, Nat)
    BY NatLessThanWellFounded, WFMin
  <2> QED BY <2>1 DEF OpToRel
<1>2. {y \in S : y < m} = {}
  BY <1>1
<1>3. Cardinality({y \in S : y < m}) = 0
  BY <1>2, FS_EmptySet
<1>4. m \in FirstK(S, k)
  BY <1>3 DEF FirstK
<1> QED BY <1>4

\* A batch whose next page is empty has all its rows answered.
LEMMA EmptyPage ==
    ASSUME NEW b \in Batches, UnansweredRows(b) = {}
    PROVE  Answered(b) = Inputs[b]
<1>1. Inputs[b] \ Answered(b) \in SUBSET Nat
  BY IdsAssumption, InputsAssumption
<1>2. Inputs[b] \ Answered(b) = {}
  BY <1>1, FirstKEmpty, SizesAssumption DEF UnansweredRows
<1> QED BY <1>2 DEF Answered

\* Subsets of finite sets.
LEMMA FiniteSub ==
    ASSUME NEW S, IsFiniteSet(S), NEW T \in SUBSET S
    PROVE  /\ IsFiniteSet(T) /\ Cardinality(S) \in Nat /\ Cardinality(T) \in Nat
           /\ Cardinality(T) <= Cardinality(S)
BY FS_Subset, FS_CardinalityType

\* Result rows that answer a set of rows are at least as many as those rows.
LEMMA AnswersCount ==
    ASSUME NEW R, IsFiniteSet(R), NEW I,
           \A r \in I : \E x \in R : x[1] = r
    PROVE  /\ IsFiniteSet(I)
           /\ Cardinality(I) <= Cardinality(R)
<1> DEFINE J == {x[1] : x \in R}
           f == [x \in R |-> x[1]]
<1>1. f \in Surjection(R, J)
  BY DEF Surjection
<1>2. IsFiniteSet(J) /\ Cardinality(J) <= Cardinality(R)
  BY <1>1, FS_Surjection
<1>3. I \in SUBSET J
  OBVIOUS
<1>4. /\ IsFiniteSet(I) /\ Cardinality(I) <= Cardinality(J)
      /\ Cardinality(I) \in Nat /\ Cardinality(J) \in Nat /\ Cardinality(R) \in Nat
  BY <1>2, <1>3, FS_Subset, FS_CardinalityType
<1> QED BY <1>2, <1>4

\* A finite set of result rows is its completed and its failed ones.
LEMMA ByStatus ==
    ASSUME NEW R \in SUBSET (RowIds \X Status \X Nat \X BOOLEAN), IsFiniteSet(R)
    PROVE  Cardinality(R) = Cardinality({x \in R : x[2] = "complete"})
                              + Cardinality({x \in R : x[2] = "failed"})
<1> DEFINE C == {x \in R : x[2] = "complete"}
           F == {x \in R : x[2] = "failed"}
<1>1. C \cup F = R /\ C \cap F = {}
  BY DEF Status
<1>2. IsFiniteSet(C) /\ IsFiniteSet(F) /\ Cardinality(C) \in Nat /\ Cardinality(F) \in Nat
  BY FiniteSub
<1>3. Cardinality(C \cup F) = Cardinality(C) + Cardinality(F) - Cardinality(C \cap F)
  BY <1>2, FS_Union
<1>4. Cardinality(C \cup F) = Cardinality(R) /\ Cardinality(C \cap F) = 0
  BY <1>1, FS_EmptySet, Zenon
<1> QED BY <1>2, <1>3, <1>4
-----------------------------------------------------------------------------
(* What inserting does to the store.                                       *)

ResultsOK(res) ==
    \A b \in Batches : res[b] \subseteq RowIds \X Status \X Nat \X BOOLEAN /\ IsFiniteSet(res[b])

\* An insert adds finitely many rows and removes none.
LEMMA InsertedStore ==
    ASSUME TypeOK, NEW b \in Batches, NEW ck \in SUBSET (RowIds \X Outcomes), NEW a \in BOOLEAN
    PROVE  /\ DOMAIN Inserted(b, ck, a) = Batches
           /\ ResultsOK(Inserted(b, ck, a))
           /\ \A c \in Batches : results[c] \subseteq Inserted(b, ck, a)[c]
<1> DEFINE new == {NewResult(b, e, a) : e \in ck}
           f == [e \in ck |-> NewResult(b, e, a)]
<1>1. IsFiniteSet(ck)
  <2>1. IsFiniteSet({"complete", "failed", "denied", "aborted"})
    <3>1. \A S, x : IsFiniteSet(S) => IsFiniteSet(S \cup {x})
      BY FS_AddElement
    <3>2. IsFiniteSet({"complete"})
      BY FS_Singleton
    <3>3. IsFiniteSet((({"complete"} \cup {"failed"}) \cup {"denied"}) \cup {"aborted"})
      BY <3>1, <3>2, Zenon
    <3>4. (({"complete"} \cup {"failed"}) \cup {"denied"}) \cup {"aborted"}
            = {"complete", "failed", "denied", "aborted"}
      OBVIOUS
    <3> QED BY <3>3, <3>4, Zenon
  <2>2. IsFiniteSet(Outcomes)
    BY <2>1, OutcomesAssumption, FS_Subset
  <2>3. IsFiniteSet(RowIds \X Outcomes)
    BY <2>2, FiniteAssumption, FS_Product
  <2> QED BY <2>3, FS_Subset
<1>2. IsFiniteSet(new)
  <2>1. f \in Surjection(ck, new)
    BY DEF Surjection
  <2> QED BY <1>1, <2>1, FS_Surjection
<1>3. new \subseteq RowIds \X Status \X Nat \X BOOLEAN
  <2>1. ASSUME NEW e \in ck PROVE NewResult(b, e, a) \in RowIds \X Status \X Nat \X BOOLEAN
    <3>1. \A S \in SUBSET results[b] : Cardinality(S) \in Nat
      BY FiniteSub DEF TypeOK
    <3> QED BY <3>1 DEF NewResult, StatusOf, Status
  <2> QED BY <2>1
<1>4. Inserted(b, ck, a) = [results EXCEPT ![b] = results[b] \cup new]
  BY DEF Inserted
<1>5. IsFiniteSet(results[b] \cup new)
  BY <1>2, FS_Union DEF TypeOK
<1> HIDE DEF new
<1>6. /\ DOMAIN Inserted(b, ck, a) = Batches
      /\ \A c \in Batches : Inserted(b, ck, a)[c] = IF c = b THEN results[b] \cup new
                                                       ELSE results[c]
  BY <1>4 DEF TypeOK
<1>7. ASSUME NEW c \in Batches
      PROVE  IsFiniteSet(Inserted(b, ck, a)[c])
  <2>1. CASE c = b
    BY <1>5, <1>6, <2>1, Zenon
  <2>2. CASE c # b
    BY <1>6, <2>2 DEF TypeOK
  <2> QED BY <2>1, <2>2
<1> QED BY <1>3, <1>6, <1>7 DEF TypeOK, ResultsOK

\* Results only accumulate in a step, and stay well formed.
Grows == ResultsOK(results') /\ \A b \in Batches : results[b] \subseteq results'[b]

\* An answered row stays answered.
LEMMA AnsweredGrows ==
    ASSUME Grows, NEW b \in Batches
    PROVE  Answered(b) \subseteq Answered(b)'
BY DEF Grows, Answered

\* Counts that account for a batch still do when more results arrive.
LEMMA AccountsGrows ==
    ASSUME TypeOK, Grows, NEW b \in Batches, NEW c \in CountsType, Accounts(b, c)
    PROVE  Accounts(b, c)'
<1>1. ASSUME NEW s \in Status
      PROVE  /\ CountStatus(b, s) \in Nat /\ CountStatus(b, s)' \in Nat
             /\ CountStatus(b, s) <= CountStatus(b, s)'
  <2>1. IsFiniteSet(results'[b]) /\ IsFiniteSet({x \in results'[b] : x[2] = s})
    BY FiniteSub DEF Grows, ResultsOK
  <2>2. {x \in results[b] : x[2] = s} \in SUBSET {x \in results'[b] : x[2] = s}
    BY DEF Grows
  <2> QED BY <2>1, <2>2, FiniteSub DEF CountStatus
<1>2. c.total' = c.total /\ c.completed \in Nat /\ c.failed \in Nat
  BY DEF CountsType
<1> QED BY <1>1, <1>2 DEF Accounts, Status

\* The counts read from a batch whose rows are all answered account for it.
LEMMA AccountsWhenAnswered ==
    ASSUME TypeOK, NEW b \in Batches, Answered(b) = Inputs[b]
    PROVE  BatchCounts(b) \in CountsType /\ Accounts(b, BatchCounts(b))
<1>1. IsFiniteSet(results[b]) /\ results[b] \in SUBSET (RowIds \X Status \X Nat \X BOOLEAN)
  BY DEF TypeOK
<1>2. CountStatus(b, "complete") \in Nat /\ CountStatus(b, "failed") \in Nat
  BY <1>1, FiniteSub DEF CountStatus
<1>3. Cardinality(results[b]) = CountStatus(b, "complete") + CountStatus(b, "failed")
  BY <1>1, ByStatus DEF CountStatus
<1>4. /\ IsFiniteSet(Inputs[b])
      /\ Cardinality(Inputs[b]) <= Cardinality(results[b])
  BY <1>1, AnswersCount DEF Answered
<1>5. Cardinality(Inputs[b]) \in Nat
  BY <1>4, FS_CardinalityType
<1> QED BY <1>2, <1>3, <1>4, <1>5 DEF Accounts, BatchCounts, CountsType
-----------------------------------------------------------------------------
(* The inductive invariant.                                                *)

\* Attempts are counted only while an insert is under way.
TriesInv == \A w \in Workers : tries[w] > 0 => Inserting(w)

\* Counts c may be published for batch b: every row is answered and accounted for.
Good(b, c) == Answered(b) = Inputs[b] /\ Accounts(b, c)

\* From the empty fetch on, a worker, an insert it lost track of, and the status
\* row it leads to, are about a batch with every row answered and accounted for.
Sound ==
    /\ \A w \in Workers : pc[w] = "count" => Answered(batch[w]) = Inputs[batch[w]]
    /\ \A w \in Workers : pc[w] = "status" => Good(batch[w], counts[w])
    /\ \A i \in limbo : \A c \in i.counts : Good(i.batch, c)
    /\ \A b \in Batches : \A c \in completeLog[b] : Good(b, c)

IInv == TypeOK /\ TriesInv /\ Sound

LEMMA BatchCountsType ==
    ASSUME TypeOK, NEW b \in Batches
    PROVE  BatchCounts(b) \in CountsType
<1>1. Cardinality(Inputs[b]) \in Nat
  BY InputsAssumption, FiniteAssumption, FiniteSub
<1>2. \A s \in Status : CountStatus(b, s) \in Nat
  BY FiniteSub DEF TypeOK, CountStatus
<1> QED BY <1>1, <1>2 DEF BatchCounts, CountsType, Status

\* What an insert cut off by an error leaves behind.
LEMMA PendingInsertType ==
    ASSUME TypeOK, NEW w \in Workers, Inserting(w), MayLand(w)
    PROVE  \A i \in limbo' : i \in InsertType
<1>1. PendingInsert(w) \in InsertType
  <2>1. faults \in Nat
    BY SizesAssumption DEF TypeOK
  <2>2. batch[w] \in Batches
    BY DEF TypeOK, Inserting
  <2> QED BY <2>1, <2>2 DEF TypeOK, PendingInsert, InsertType
<1> QED BY <1>1 DEF MayLand, TypeOK

\* The part of TypeOK about the worker processes, without their attempts.
WorkerTypes ==
    /\ pc \in [Workers -> {"poll", "next", "fetch", "run", "count", "status", "down"}]
    /\ batch \in [Workers -> Batches \cup {NoBatch}]
    /\ \A w \in Workers : pc[w] \in {"fetch", "run", "count", "status"} <=> batch[w] # NoBatch
    /\ left \in [Workers -> SUBSET RowIds]
    /\ chunk \in [Workers -> SUBSET (RowIds \X Outcomes)]
    /\ denied \in [Workers -> SUBSET RowIds]
    /\ deniedBatch \in [Workers -> BOOLEAN]
    /\ counts \in [Workers -> CountsType]
    /\ tries \in [Workers -> Nat]

\* A worker that drops its batch leaves no trace of it.
LEMMA DropTypes ==
    ASSUME TypeOK, NEW w \in Workers, DropBatch(w),
           NEW p \in {"poll", "next", "down"}, pc' = [pc EXCEPT ![w] = p]
    PROVE  /\ WorkerTypes'
           /\ tries'[w] = 0
           /\ \A v \in Workers \ {w} :
                 pc'[v] = pc[v] /\ left'[v] = left[v] /\ chunk'[v] = chunk[v] /\ tries'[v] = tries[v]
<1>1. NoCounts \in CountsType
  BY DEF NoCounts, CountsType
<1>2. \A v \in Workers : pc'[v] \in {"fetch", "run", "count", "status"} <=> batch'[v] # NoBatch
  BY DEF DropBatch, TypeOK
<1>3. /\ pc' \in [Workers -> {"poll", "next", "fetch", "run", "count", "status", "down"}]
      /\ batch' \in [Workers -> Batches \cup {NoBatch}]
      /\ left' \in [Workers -> SUBSET RowIds]
      /\ chunk' \in [Workers -> SUBSET (RowIds \X Outcomes)]
  BY DEF DropBatch, TypeOK
<1>4. /\ denied' \in [Workers -> SUBSET RowIds]
      /\ deniedBatch' \in [Workers -> BOOLEAN]
      /\ counts' \in [Workers -> CountsType]
      /\ tries' \in [Workers -> Nat]
  BY <1>1 DEF DropBatch, TypeOK
<1>5. /\ tries'[w] = 0
      /\ \A v \in Workers \ {w} :
            pc'[v] = pc[v] /\ left'[v] = left[v] /\ chunk'[v] = chunk[v] /\ tries'[v] = tries[v]
  BY DEF DropBatch, TypeOK
<1> QED BY <1>2, <1>3, <1>4, <1>5 DEF WorkerTypes

\* The attempts of the other workers are theirs.
LEMMA TriesOf ==
    ASSUME TypeOK, TriesInv, NEW w \in Workers,
           \A v \in Workers \ {w} :
              pc'[v] = pc[v] /\ left'[v] = left[v] /\ chunk'[v] = chunk[v] /\ tries'[v] = tries[v],
           tries'[w] < AttemptsFor(w)',
           tries'[w] > 0 => Inserting(w)'
    PROVE  /\ \A v \in Workers : tries'[v] < AttemptsFor(v)'
           /\ TriesInv'
<1>1. ASSUME NEW v \in Workers, v # w
      PROVE  /\ tries'[v] < AttemptsFor(v)'
             /\ tries'[v] > 0 => Inserting(v)'
  <2>1. AttemptsFor(v)' = AttemptsFor(v) /\ (Inserting(v)' <=> Inserting(v))
    BY <1>1 DEF AttemptsFor, Inserting, ChunkDue
  <2> QED BY <1>1, <2>1 DEF TypeOK, TriesInv
<1> QED BY <1>1 DEF TriesInv

\* Types, by action.
LEMMA TypeStep ==
    ASSUME TypeOK, TriesInv, [Next]_vars
    PROVE  TypeOK' /\ TriesInv'
<1> USE IdsAssumption, SizesAssumption
    DEF store, pageVars
<1>1. ASSUME NEW w \in Workers, Poll(w) PROVE TypeOK' /\ TriesInv'
  <2>2. TypeOK'
    BY <1>1 DEF Poll, FirstK, PendingBatches, TypeOK, AttemptsFor
  <2>3. TriesInv'
    BY <1>1 DEF Poll, FirstK, PendingBatches, TypeOK, TriesInv, Inserting, ChunkDue
  <2> QED BY <2>2, <2>3
<1>2. ASSUME NEW w \in Workers, PickBatch(w) PROVE TypeOK' /\ TriesInv'
  <2>1. PICK b \in todo[w] : /\ batch' = [batch EXCEPT ![w] = b]
                           /\ todo' = [todo EXCEPT ![w] = @ \ {b}]
    BY <1>2 DEF PickBatch
  <2>2. b \in Batches /\ b # NoBatch
    BY DEF TypeOK, NoBatch
  <2>3. WorkerTypes' /\ todo' \in [Workers -> SUBSET Batches]
    BY <1>2, <2>1, <2>2 DEF PickBatch, TypeOK, WorkerTypes
  <2>4. ASSUME NEW v \in Workers
        PROVE  /\ tries'[v] < AttemptsFor(v)'
               /\ tries'[v] > 0 => Inserting(v)'
    <3>1. AttemptsFor(v)' = AttemptsFor(v) /\ (Inserting(v) => Inserting(v)')
      BY <1>2 DEF PickBatch, TypeOK, AttemptsFor, Inserting, ChunkDue
    <3>2. tries'[v] = tries[v]
      BY <1>2 DEF PickBatch
    <3> QED BY <3>1, <3>2 DEF TypeOK, TriesInv
  <2>5. TriesInv' /\ \A v \in Workers : tries'[v] < AttemptsFor(v)'
    BY <2>4 DEF TriesInv
  <2>6. TypeOK'
    BY <1>2, <2>3, <2>5 DEF PickBatch, TypeOK, WorkerTypes
  <2> QED BY <2>5, <2>6
<1>3. ASSUME NEW w \in Workers, EndFor(w) PROVE TypeOK' /\ TriesInv'
  <2>2. TypeOK'
    BY <1>3 DEF EndFor, TypeOK, AttemptsFor
  <2>3. TriesInv'
    BY <1>3 DEF EndFor, TypeOK, TriesInv, Inserting, ChunkDue
  <2> QED BY <2>2, <2>3
<1>4. ASSUME NEW w \in Workers, Exit(w) PROVE TypeOK' /\ TriesInv'
  <2>2. TypeOK'
    BY <1>4 DEF Exit, TypeOK, AttemptsFor
  <2>3. TriesInv'
    BY <1>4 DEF Exit, TypeOK, TriesInv, Inserting, ChunkDue
  <2> QED BY <2>2, <2>3
<1>5. ASSUME NEW w \in Workers, FetchPage(w) PROVE TypeOK' /\ TriesInv'
  <2>1. UnansweredRows(batch[w]) \in SUBSET RowIds
    <3>1. batch[w] \in Batches
      BY <1>5 DEF FetchPage, TypeOK
    <3> QED BY <3>1, InputsAssumption DEF UnansweredRows, FirstK
  <2>2. WorkerTypes'
    BY <1>5, <2>1 DEF FetchPage, TypeOK, WorkerTypes
  <2>3. \A v \in Workers \ {w} :
           pc'[v] = pc[v] /\ left'[v] = left[v] /\ chunk'[v] = chunk[v] /\ tries'[v] = tries[v]
    BY <1>5 DEF FetchPage, TypeOK
  <2>4. tries[w] = 0
    BY <1>5 DEF FetchPage, TriesInv, Inserting, TypeOK
  <2>5. tries'[w] < AttemptsFor(w)' /\ (tries'[w] > 0 => Inserting(w)')
    BY <1>5, <2>4 DEF FetchPage, AttemptsFor
  <2>6. TriesInv' /\ \A v \in Workers : tries'[v] < AttemptsFor(v)'
    BY <2>3, <2>5, TriesOf
  <2>7. TypeOK'
    BY <1>5, <2>2, <2>6 DEF FetchPage, TypeOK, WorkerTypes
  <2> QED BY <2>6, <2>7
<1>6. ASSUME NEW w \in Workers, FetchNothing(w) PROVE TypeOK' /\ TriesInv'
  <2>2. TypeOK'
    BY <1>6 DEF FetchNothing, TypeOK, AttemptsFor
  <2>3. TriesInv'
    BY <1>6 DEF FetchNothing, TypeOK, TriesInv, Inserting, ChunkDue
  <2> QED BY <2>2, <2>3
<1>7. ASSUME NEW w \in Workers, NEW r \in RowIds, NEW o \in Outcomes, Emit(w, r, o) PROVE TypeOK' /\ TriesInv'
  <2>2. TypeOK'
    BY <1>7 DEF Emit, TypeOK, AttemptsFor
  <2>3. TriesInv'
    BY <1>7 DEF Emit, TypeOK, TriesInv, Inserting, ChunkDue
  <2> QED BY <2>2, <2>3
<1>21. ASSUME NEW w \in Workers, NEW r \in RowIds, Deny(w, r) PROVE TypeOK' /\ TriesInv'
  <2>2. TypeOK'
    BY <1>21 DEF Deny, TypeOK, AttemptsFor
  <2>3. TriesInv'
    BY <1>21 DEF Deny, TypeOK, TriesInv, Inserting, ChunkDue
  <2> QED BY <2>2, <2>3
<1>8. ASSUME NEW w \in Workers, WriteResults(w) PROVE TypeOK' /\ TriesInv'
  <2>1. results' \in [Batches -> SUBSET (RowIds \X Status \X Nat \X BOOLEAN)]
        /\ \A b \in Batches : IsFiniteSet(results'[b])
    <3>1. batch[w] \in Batches /\ chunk[w] \in SUBSET (RowIds \X Outcomes)
      BY <1>8 DEF WriteResults, TypeOK
    <3>2. /\ DOMAIN Inserted(batch[w], chunk[w], TRUE) = Batches
          /\ ResultsOK(Inserted(batch[w], chunk[w], TRUE))
      BY <3>1, InsertedStore
    <3> QED BY <1>8, <3>2 DEF WriteResults, ResultsOK, Inserted, TypeOK
  <2>2. WorkerTypes'
    BY <1>8 DEF WriteResults, TypeOK, WorkerTypes
  <2>3. \A v \in Workers \ {w} :
           pc'[v] = pc[v] /\ left'[v] = left[v] /\ chunk'[v] = chunk[v] /\ tries'[v] = tries[v]
    BY <1>8 DEF WriteResults, TypeOK
  <2>4. tries'[w] < AttemptsFor(w)' /\ (tries'[w] > 0 => Inserting(w)')
    BY <1>8 DEF WriteResults, AttemptsFor, TypeOK
  <2>5. TriesInv' /\ \A v \in Workers : tries'[v] < AttemptsFor(v)'
    BY <2>3, <2>4, TriesOf
  <2>6. TypeOK'
    BY <1>8, <2>1, <2>2, <2>5 DEF WriteResults, TypeOK, WorkerTypes
  <2> QED BY <2>5, <2>6
<1>9. ASSUME NEW w \in Workers, EndPage(w) PROVE TypeOK' /\ TriesInv'
  <2>2. WorkerTypes'
    BY <1>9 DEF EndPage, TypeOK, WorkerTypes
  <2>3. \A v \in Workers \ {w} :
           pc'[v] = pc[v] /\ left'[v] = left[v] /\ chunk'[v] = chunk[v] /\ tries'[v] = tries[v]
    BY <1>9 DEF EndPage, TypeOK
  <2>4. tries[w] = 0
    <3>1. ~(Cardinality(chunk[w]) >= ChunkSize)
      BY <1>9, FS_EmptySet DEF EndPage
    <3>2. ~Inserting(w)
      BY <1>9, <3>1 DEF EndPage, Inserting, ChunkDue
    <3> QED BY <3>2 DEF TriesInv, TypeOK
  <2>5. tries'[w] < AttemptsFor(w)' /\ (tries'[w] > 0 => Inserting(w)')
    BY <1>9, <2>4 DEF EndPage, AttemptsFor
  <2>6. TriesInv' /\ \A v \in Workers : tries'[v] < AttemptsFor(v)'
    BY <2>3, <2>5, TriesOf
  <2>7. TypeOK'
    BY <1>9, <2>2, <2>6 DEF EndPage, TypeOK, WorkerTypes
  <2> QED BY <2>6, <2>7
<1>10. ASSUME NEW w \in Workers, CountRows(w) PROVE TypeOK' /\ TriesInv'
  <2>1. BatchCounts(batch[w]) \in CountsType
    BY <1>10, BatchCountsType DEF CountRows, TypeOK
  <2>2. TypeOK'
    BY <1>10, <2>1 DEF CountRows, TypeOK, AttemptsFor
  <2>3. TriesInv'
    BY <1>10 DEF CountRows, TypeOK, TriesInv, Inserting, ChunkDue
  <2> QED BY <2>2, <2>3
<1>11. ASSUME NEW w \in Workers, WriteStatus(w) PROVE TypeOK' /\ TriesInv'
  <2>1. completeLog' \in [Batches -> SUBSET CountsType]
    BY <1>11 DEF WriteStatus, TypeOK
  <2>2. /\ WorkerTypes'
        /\ tries'[w] = 0
        /\ \A v \in Workers \ {w} :
              pc'[v] = pc[v] /\ left'[v] = left[v] /\ chunk'[v] = chunk[v] /\ tries'[v] = tries[v]
    BY <1>11, DropTypes DEF WriteStatus
  <2>3. tries'[w] < AttemptsFor(w)' /\ (tries'[w] > 0 => Inserting(w)')
    BY <2>2 DEF AttemptsFor
  <2>4. TriesInv' /\ \A v \in Workers : tries'[v] < AttemptsFor(v)'
    BY <2>2, <2>3, TriesOf
  <2>5. TypeOK'
    BY <1>11, <2>1, <2>2, <2>4 DEF WriteStatus, TypeOK, WorkerTypes
  <2> QED BY <2>4, <2>5
<1>12. ASSUME NEW w \in Workers, ReadError(w) PROVE TypeOK' /\ TriesInv'
  <2>1. stop' = stop /\ limbo' = limbo
    BY <1>12 DEF ReadError, BackToPoll
  <2>2. /\ WorkerTypes'
        /\ tries'[w] = 0
        /\ \A v \in Workers \ {w} :
              pc'[v] = pc[v] /\ left'[v] = left[v] /\ chunk'[v] = chunk[v] /\ tries'[v] = tries[v]
    BY <1>12, DropTypes DEF ReadError, BackToPoll
  <2>3. tries'[w] < AttemptsFor(w)' /\ (tries'[w] > 0 => Inserting(w)')
    BY <2>2 DEF AttemptsFor
  <2>4. TriesInv' /\ \A v \in Workers : tries'[v] < AttemptsFor(v)'
    BY <2>2, <2>3, TriesOf
  <2>5. TypeOK'
    BY <1>12, <2>1, <2>2, <2>4 DEF ReadError, BackToPoll, Fault, TypeOK, WorkerTypes
  <2> QED BY <2>4, <2>5
<1>13. ASSUME NEW w \in Workers, RetryWrite(w) PROVE TypeOK' /\ TriesInv'
  <2>1. \A i \in limbo' : i \in InsertType
    BY <1>13, PendingInsertType DEF RetryWrite, TypeOK
  <2>2. TypeOK'
    BY <1>13, <2>1 DEF RetryWrite, Fault, TypeOK, AttemptsFor, NoCounts, CountsType
  <2>3. TriesInv'
    BY <1>13 DEF RetryWrite, Fault, TypeOK, TriesInv, Inserting, ChunkDue
  <2> QED BY <2>2, <2>3
<1>14. ASSUME NEW w \in Workers, GiveUpWrite(w) PROVE TypeOK' /\ TriesInv'
  <2>1. \A i \in limbo' : i \in InsertType
    BY <1>14, PendingInsertType DEF GiveUpWrite, TypeOK
  <2>2. /\ WorkerTypes'
        /\ tries'[w] = 0
        /\ \A v \in Workers \ {w} :
              pc'[v] = pc[v] /\ left'[v] = left[v] /\ chunk'[v] = chunk[v] /\ tries'[v] = tries[v]
    BY <1>14, DropTypes DEF GiveUpWrite, BackToPoll
  <2>3. tries'[w] < AttemptsFor(w)' /\ (tries'[w] > 0 => Inserting(w)')
    BY <2>2 DEF AttemptsFor
  <2>4. TriesInv' /\ \A v \in Workers : tries'[v] < AttemptsFor(v)'
    BY <2>2, <2>3, TriesOf
  <2>5. TypeOK'
    BY <1>14, <2>1, <2>2, <2>4 DEF GiveUpWrite, BackToPoll, Fault, TypeOK, WorkerTypes
  <2> QED BY <2>4, <2>5
<1>15. ASSUME NEW w \in Workers, Signal(w) PROVE TypeOK' /\ TriesInv'
  <2>2. TypeOK'
    BY <1>15 DEF Signal, Fault, TypeOK, AttemptsFor
  <2>3. TriesInv'
    BY <1>15 DEF Signal, Fault, TypeOK, TriesInv, Inserting, ChunkDue
  <2> QED BY <2>2, <2>3
<1>16. ASSUME NEW w \in Workers, Kill(w) PROVE TypeOK' /\ TriesInv'
  <2>1. \A i \in limbo' : i \in InsertType
    BY <1>16, PendingInsertType DEF Kill, TypeOK
  <2>2. /\ WorkerTypes'
        /\ tries'[w] = 0
        /\ \A v \in Workers \ {w} :
              pc'[v] = pc[v] /\ left'[v] = left[v] /\ chunk'[v] = chunk[v] /\ tries'[v] = tries[v]
    BY <1>16, DropTypes DEF Kill
  <2>3. tries'[w] < AttemptsFor(w)' /\ (tries'[w] > 0 => Inserting(w)')
    BY <2>2 DEF AttemptsFor
  <2>4. TriesInv' /\ \A v \in Workers : tries'[v] < AttemptsFor(v)'
    BY <2>2, <2>3, TriesOf
  <2>5. TypeOK'
    BY <1>16, <2>1, <2>2, <2>4 DEF Kill, Fault, TypeOK, WorkerTypes
  <2> QED BY <2>4, <2>5
<1>17. ASSUME NEW w \in Workers, Start(w) PROVE TypeOK' /\ TriesInv'
  <2>2. TypeOK'
    BY <1>17 DEF Start, TypeOK, AttemptsFor
  <2>3. TriesInv'
    BY <1>17 DEF Start, TypeOK, TriesInv, Inserting, ChunkDue
  <2> QED BY <2>2, <2>3
<1>18. ASSUME NEW b \in Batches, Submit(b) PROVE TypeOK' /\ TriesInv'
  BY <1>18 DEF Submit, TypeOK, AttemptsFor, TriesInv, Inserting, ChunkDue
<1>19. ASSUME NEW i \in limbo, LandOf(i) PROVE TypeOK' /\ TriesInv'
  <2>1. results' \in [Batches -> SUBSET (RowIds \X Status \X Nat \X BOOLEAN)]
        /\ \A b \in Batches : IsFiniteSet(results'[b])
    <3>1. i.batch \in Batches /\ i.chunk \in SUBSET (RowIds \X Outcomes)
      BY DEF TypeOK, InsertType
    <3>2. /\ DOMAIN Inserted(i.batch, i.chunk, FALSE) = Batches
          /\ ResultsOK(Inserted(i.batch, i.chunk, FALSE))
      BY <3>1, InsertedStore
    <3> QED BY <1>19, <3>2 DEF LandOf, ResultsOK, Inserted, TypeOK
  <2>2. completeLog' \in [Batches -> SUBSET CountsType]
    BY <1>19 DEF LandOf, TypeOK, InsertType
  <2>3. TypeOK'
    BY <1>19, <2>1, <2>2 DEF LandOf, TypeOK, AttemptsFor
  <2>4. TriesInv'
    BY <1>19 DEF LandOf, TriesInv, Inserting, ChunkDue
  <2> QED BY <2>3, <2>4
<1>20. CASE UNCHANGED vars
  BY <1>20 DEF vars, TypeOK, AttemptsFor, TriesInv, Inserting, ChunkDue
<1> QED BY <1>1, <1>2, <1>3, <1>4, <1>5, <1>6, <1>7, <1>8, <1>9, <1>10, <1>11, <1>12, <1>13, <1>14, <1>15, <1>16, <1>17, <1>18, <1>19, <1>20, <1>21 DEF Next, Work, Fail, Land
-----------------------------------------------------------------------------
(* Results accumulate in every step.                                       *)

LEMMA GrowsStep ==
    ASSUME TypeOK, [Next]_vars
    PROVE  Grows
<1>1. ASSUME results' = results PROVE Grows
  BY <1>1 DEF Grows, ResultsOK, TypeOK
<1>2. ASSUME NEW b \in Batches, NEW ck \in SUBSET (RowIds \X Outcomes),
             NEW a \in BOOLEAN, results' = Inserted(b, ck, a)
      PROVE  Grows
  BY <1>2, InsertedStore DEF Grows
<1>3. ASSUME NEW w \in Workers, WriteResults(w) PROVE Grows
  <2>1. batch[w] \in Batches /\ chunk[w] \in SUBSET (RowIds \X Outcomes)
    BY <1>3 DEF WriteResults, TypeOK
  <2> QED BY <1>2, <1>3, <2>1 DEF WriteResults
<1>4. ASSUME NEW i \in limbo, LandOf(i) PROVE Grows
  <2>1. i.batch \in Batches /\ i.chunk \in SUBSET (RowIds \X Outcomes)
    BY DEF TypeOK, InsertType
  <2> QED BY <1>2, <1>4, <2>1 DEF LandOf
<1>5. ASSUME NEW w \in Workers, Work(w), ~WriteResults(w) PROVE results' = results
  BY <1>5 DEF Work, Poll, PickBatch, EndFor, Exit, FetchPage, FetchNothing, Deny, Emit, EndPage,
              CountRows, WriteStatus, store
<1>6. ASSUME NEW w \in Workers, Fail(w) PROVE results' = results
  BY <1>6 DEF Fail, ReadError, RetryWrite, GiveUpWrite, Signal, Kill, store
<1>7. ASSUME NEW w \in Workers, Start(w) PROVE results' = results
  BY <1>7 DEF Start, store
<1>8. ASSUME NEW b \in Batches, Submit(b) PROVE results' = results
  BY <1>8 DEF Submit
<1>9. CASE UNCHANGED vars
  BY <1>1, <1>9 DEF vars
<1> QED BY <1>1, <1>3, <1>4, <1>5, <1>6, <1>7, <1>8, <1>9 DEF Next, Land

\* What may be published stays so.
LEMMA GoodGrows ==
    ASSUME TypeOK, Grows, NEW b \in Batches, NEW c \in CountsType, Good(b, c)
    PROVE  Good(b, c)'
<1>1. Accounts(b, c)'
  BY AccountsGrows DEF Good
<1>2. Answered(b)' = Inputs[b]
  BY AnsweredGrows DEF Good, Answered
<1> QED BY <1>1, <1>2 DEF Good
-----------------------------------------------------------------------------
(* Where a worker's position, its counts and a status row can come from.   *)

CountFrom(v) ==
    pc'[v] = "count" =>
        \/ pc[v] = "count" /\ batch'[v] = batch[v]
        \/ batch'[v] \in Batches /\ UnansweredRows(batch'[v]) = {}

StatusFrom(v) ==
    pc'[v] = "status" =>
        \/ pc[v] = "status" /\ batch'[v] = batch[v] /\ counts'[v] = counts[v]
        \/ pc[v] = "count" /\ batch'[v] = batch[v] /\ counts'[v] = BatchCounts(batch[v])

LimboFrom(i) ==
    \/ i \in limbo
    \/ \E v \in Workers : pc[v] = "status" /\ i.batch = batch[v] /\ i.counts = {counts[v]}
    \/ i.counts = {}

LogFrom(b, c) ==
    \/ c \in completeLog[b]
    \/ \E v \in Workers : pc[v] = "status" /\ b = batch[v] /\ c = counts[v]
    \/ \E i \in limbo : b = i.batch /\ c \in i.counts

Provenance ==
    /\ \A v \in Workers : CountFrom(v) /\ StatusFrom(v)
    /\ \A i \in limbo' : LimboFrom(i)
    /\ \A b \in Batches : \A c \in completeLog'[b] : LogFrom(b, c)

LEMMA MayLandFrom ==
    ASSUME NEW w \in Workers, Inserting(w), MayLand(w), NEW i \in limbo'
    PROVE  LimboFrom(i)
BY DEF Inserting, MayLand, PendingInsert, LimboFrom

LEMMA ProvenanceStep ==
    ASSUME TypeOK, [Next]_vars
    PROVE  Provenance
<1> USE DEF store, pageVars
<1>1. ASSUME limbo' = limbo PROVE \A i \in limbo' : LimboFrom(i)
  BY <1>1 DEF LimboFrom
<1>2. ASSUME completeLog' = completeLog
      PROVE  \A b \in Batches : \A c \in completeLog'[b] : LogFrom(b, c)
  BY <1>2 DEF LogFrom
<1>3. ASSUME NEW w \in Workers, NEW p \in {"poll", "next", "down"},
             pc' = [pc EXCEPT ![w] = p], DropBatch(w)
      PROVE  \A v \in Workers : CountFrom(v) /\ StatusFrom(v)
  BY <1>3 DEF DropBatch, TypeOK, CountFrom, StatusFrom
<1>4. ASSUME NEW w \in Workers, Poll(w) PROVE Provenance
  <2>1. \A v \in Workers : CountFrom(v) /\ StatusFrom(v)
    BY <1>4 DEF Poll, TypeOK, CountFrom, StatusFrom
  <2> QED BY <1>1, <1>2, <1>4, <2>1 DEF Poll, Provenance
<1>5. ASSUME NEW w \in Workers, PickBatch(w) PROVE Provenance
  <2>1. \A v \in Workers : CountFrom(v) /\ StatusFrom(v)
    BY <1>5 DEF PickBatch, TypeOK, CountFrom, StatusFrom
  <2> QED BY <1>1, <1>2, <1>5, <2>1 DEF PickBatch, Provenance
<1>6. ASSUME NEW w \in Workers, EndFor(w) PROVE Provenance
  <2>1. \A v \in Workers : CountFrom(v) /\ StatusFrom(v)
    BY <1>6 DEF EndFor, TypeOK, CountFrom, StatusFrom
  <2> QED BY <1>1, <1>2, <1>6, <2>1 DEF EndFor, Provenance
<1>7. ASSUME NEW w \in Workers, Exit(w) PROVE Provenance
  <2>1. \A v \in Workers : CountFrom(v) /\ StatusFrom(v)
    BY <1>7 DEF Exit, TypeOK, CountFrom, StatusFrom
  <2> QED BY <1>1, <1>2, <1>7, <2>1 DEF Exit, Provenance
<1>8. ASSUME NEW w \in Workers, FetchPage(w) PROVE Provenance
  <2>1. \A v \in Workers : CountFrom(v) /\ StatusFrom(v)
    BY <1>8 DEF FetchPage, TypeOK, CountFrom, StatusFrom
  <2> QED BY <1>1, <1>2, <1>8, <2>1 DEF FetchPage, Provenance
<1>9. ASSUME NEW w \in Workers, WriteResults(w) PROVE Provenance
  <2>1. \A v \in Workers : CountFrom(v) /\ StatusFrom(v)
    BY <1>9 DEF WriteResults, TypeOK, CountFrom, StatusFrom
  <2> QED BY <1>1, <1>2, <1>9, <2>1 DEF WriteResults, Provenance
<1>10. ASSUME NEW w \in Workers, EndPage(w) PROVE Provenance
  <2>1. \A v \in Workers : CountFrom(v) /\ StatusFrom(v)
    BY <1>10 DEF EndPage, TypeOK, CountFrom, StatusFrom
  <2> QED BY <1>1, <1>2, <1>10, <2>1 DEF EndPage, Provenance
<1>11. ASSUME NEW w \in Workers, Start(w) PROVE Provenance
  <2>1. \A v \in Workers : CountFrom(v) /\ StatusFrom(v)
    BY <1>11 DEF Start, TypeOK, CountFrom, StatusFrom
  <2> QED BY <1>1, <1>2, <1>11, <2>1 DEF Start, Provenance
<1>12. ASSUME NEW w \in Workers, CountRows(w) PROVE Provenance
  <2>1. \A v \in Workers : CountFrom(v) /\ StatusFrom(v)
    BY <1>12 DEF CountRows, TypeOK, CountFrom, StatusFrom
  <2> QED BY <1>1, <1>2, <1>12, <2>1 DEF CountRows, Provenance
<1>13. ASSUME NEW w \in Workers, Signal(w) PROVE Provenance
  <2>1. \A v \in Workers : CountFrom(v) /\ StatusFrom(v)
    BY <1>13 DEF Signal, TypeOK, CountFrom, StatusFrom
  <2> QED BY <1>1, <1>2, <1>13, <2>1 DEF Signal, Provenance
<1>14. ASSUME NEW w \in Workers, FetchNothing(w) PROVE Provenance
  <2>1. \A v \in Workers : CountFrom(v) /\ StatusFrom(v)
    <3>1. batch[w] \in Batches
      BY <1>14 DEF FetchNothing, TypeOK
    <3> QED BY <1>14, <3>1 DEF FetchNothing, TypeOK, CountFrom, StatusFrom
  <2> QED BY <1>1, <1>2, <1>14, <2>1 DEF FetchNothing, Provenance
<1>15. ASSUME NEW w \in Workers, NEW r \in RowIds, NEW o \in Outcomes, Emit(w, r, o)
      PROVE  Provenance
  <2>1. \A v \in Workers : CountFrom(v) /\ StatusFrom(v)
    BY <1>15 DEF Emit, TypeOK, CountFrom, StatusFrom
  <2> QED BY <1>1, <1>2, <1>15, <2>1 DEF Emit, Provenance
<1>24. ASSUME NEW w \in Workers, NEW r \in RowIds, Deny(w, r) PROVE Provenance
  <2>1. \A v \in Workers : CountFrom(v) /\ StatusFrom(v)
    BY <1>24 DEF Deny, TypeOK, CountFrom, StatusFrom
  <2> QED BY <1>1, <1>2, <1>24, <2>1 DEF Deny, Provenance
<1>16. ASSUME NEW w \in Workers, WriteStatus(w) PROVE Provenance
  <2>1. \A b \in Batches : \A c \in completeLog'[b] : LogFrom(b, c)
    BY <1>16 DEF WriteStatus, TypeOK, LogFrom
  <2>2. \A v \in Workers : CountFrom(v) /\ StatusFrom(v)
    BY <1>3, <1>16 DEF WriteStatus
  <2> QED BY <1>1, <1>16, <2>1, <2>2 DEF WriteStatus, Provenance
<1>17. ASSUME NEW w \in Workers, ReadError(w) PROVE Provenance
  <2>1. \A v \in Workers : CountFrom(v) /\ StatusFrom(v)
    BY <1>3, <1>17 DEF ReadError, BackToPoll
  <2> QED BY <1>1, <1>2, <1>17, <2>1 DEF ReadError, Provenance
<1>18. ASSUME NEW w \in Workers, RetryWrite(w) PROVE Provenance
  <2>1. \A i \in limbo' : LimboFrom(i)
    BY <1>18, MayLandFrom DEF RetryWrite
  <2>2. \A v \in Workers : CountFrom(v) /\ StatusFrom(v)
    BY <1>18 DEF RetryWrite, CountFrom, StatusFrom
  <2> QED BY <1>2, <1>18, <2>1, <2>2 DEF RetryWrite, Provenance
<1>19. ASSUME NEW w \in Workers, GiveUpWrite(w) PROVE Provenance
  <2>1. \A i \in limbo' : LimboFrom(i)
    BY <1>19, MayLandFrom DEF GiveUpWrite
  <2>2. \A v \in Workers : CountFrom(v) /\ StatusFrom(v)
    BY <1>3, <1>19 DEF GiveUpWrite, BackToPoll
  <2> QED BY <1>2, <1>19, <2>1, <2>2 DEF GiveUpWrite, Provenance
<1>20. ASSUME NEW w \in Workers, Kill(w) PROVE Provenance
  <2>1. \A i \in limbo' : LimboFrom(i)
    BY <1>1, <1>20, MayLandFrom DEF Kill
  <2>2. \A v \in Workers : CountFrom(v) /\ StatusFrom(v)
    BY <1>3, <1>20 DEF Kill
  <2> QED BY <1>2, <1>20, <2>1, <2>2 DEF Kill, Provenance
<1>21. ASSUME NEW b \in Batches, Submit(b) PROVE Provenance
  BY <1>1, <1>2, <1>21 DEF Submit, CountFrom, StatusFrom, Provenance
<1>22. ASSUME NEW i \in limbo, LandOf(i) PROVE Provenance
  <2>1. \A j \in limbo' : LimboFrom(j)
    BY <1>22 DEF LandOf, LimboFrom
  <2>2. \A b \in Batches : \A c \in completeLog'[b] : LogFrom(b, c)
    BY <1>22 DEF LandOf, TypeOK, LogFrom
  <2>3. \A v \in Workers : CountFrom(v) /\ StatusFrom(v)
    BY <1>22 DEF LandOf, CountFrom, StatusFrom
  <2> QED BY <2>1, <2>2, <2>3 DEF Provenance
<1>23. CASE UNCHANGED vars
  BY <1>1, <1>2, <1>23 DEF vars, CountFrom, StatusFrom, Provenance
<1> QED BY <1>4, <1>5, <1>6, <1>7, <1>8, <1>9, <1>10, <1>11, <1>12, <1>13, <1>14, <1>15, <1>16, <1>17, <1>18, <1>19, <1>20, <1>21, <1>22, <1>23, <1>24 DEF Next, Work, Fail, Land
-----------------------------------------------------------------------------
(* The invariant holds.                                                    *)

LEMMA SoundStep ==
    ASSUME IInv, [Next]_vars
    PROVE  Sound'
<1>1. TypeOK /\ Grows /\ Provenance /\ TypeOK'
  BY GrowsStep, ProvenanceStep, TypeStep DEF IInv
<1>2. ASSUME NEW b \in Batches, UnansweredRows(b) = {} \/ Answered(b) = Inputs[b]
      PROVE  Answered(b)' = Inputs[b]
  <2>1. Answered(b) = Inputs[b]
    BY <1>2, EmptyPage
  <2> QED BY <1>1, <2>1, AnsweredGrows DEF Answered
<1>3. ASSUME NEW v \in Workers, pc[v] = "status",
             NEW b, NEW c, b = batch[v], c = counts[v]
      PROVE  b \in Batches /\ c \in CountsType /\ Good(b, c)'
  <2>1. b \in Batches /\ c \in CountsType
    BY <1>3 DEF IInv, TypeOK
  <2>2. Good(b, c)
    BY <1>3 DEF IInv, Sound
  <2> QED BY <1>1, <2>1, <2>2, GoodGrows DEF IInv
<1>4. ASSUME NEW i \in limbo, NEW c \in i.counts
      PROVE  i.batch \in Batches /\ c \in CountsType /\ Good(i.batch, c)'
  <2>1. i.batch \in Batches /\ c \in CountsType
    BY DEF IInv, TypeOK, InsertType
  <2>2. Good(i.batch, c)
    BY DEF IInv, Sound
  <2> QED BY <1>1, <2>1, <2>2, GoodGrows DEF IInv
<1>5. ASSUME NEW v \in Workers, NEW b, pc'[v] = "count", b = batch'[v]
      PROVE  Answered(b)' = Inputs[b]
  <2>1. \/ pc[v] = "count" /\ b = batch[v]
        \/ b \in Batches /\ UnansweredRows(b) = {}
    BY <1>1, <1>5 DEF Provenance, CountFrom
  <2>2. CASE pc[v] = "count" /\ b = batch[v]
    <3>1. b \in Batches /\ Answered(b) = Inputs[b]
      BY <2>2 DEF IInv, TypeOK, Sound
    <3> QED BY <1>2, <3>1
  <2>3. CASE b \in Batches /\ UnansweredRows(b) = {}
    BY <1>2, <2>3
  <2> QED BY <2>1, <2>2, <2>3
<1>6. ASSUME NEW v \in Workers, NEW b, NEW c, pc'[v] = "status", b = batch'[v], c = counts'[v]
      PROVE  Good(b, c)'
  <2>1. \/ pc[v] = "status" /\ b = batch[v] /\ c = counts[v]
        \/ pc[v] = "count" /\ b = batch[v] /\ c = BatchCounts(b)
    BY <1>1, <1>6 DEF Provenance, StatusFrom
  <2>2. CASE pc[v] = "status" /\ b = batch[v] /\ c = counts[v]
    BY <1>3, <2>2
  <2>3. CASE pc[v] = "count" /\ b = batch[v] /\ c = BatchCounts(b)
    <3>1. b \in Batches /\ Answered(b) = Inputs[b]
      BY <2>3 DEF IInv, TypeOK, Sound
    <3>2. c \in CountsType /\ Good(b, c)
      BY <2>3, <3>1, AccountsWhenAnswered DEF IInv, Good
    <3> QED BY <1>1, <3>1, <3>2, GoodGrows DEF IInv
  <2> QED BY <2>1, <2>2, <2>3
<1>7. ASSUME NEW i \in limbo', NEW c \in i.counts
      PROVE  Good(i.batch, c)'
  <2>1. CASE i \in limbo
    BY <1>4, <2>1
  <2>2. CASE \E v \in Workers : pc[v] = "status" /\ i.batch = batch[v] /\ i.counts = {counts[v]}
    BY <1>3, <1>7, <2>2
  <2> QED BY <1>1, <1>7, <2>1, <2>2 DEF Provenance, LimboFrom
<1>8. ASSUME NEW b \in Batches, NEW c \in completeLog'[b]
      PROVE  Good(b, c)'
  <2>1. CASE c \in completeLog[b]
    <3>1. Good(b, c) /\ c \in CountsType
      BY <2>1 DEF IInv, TypeOK, Sound
    <3> QED BY <1>1, <3>1, GoodGrows DEF IInv
  <2>2. CASE \E v \in Workers : pc[v] = "status" /\ b = batch[v] /\ c = counts[v]
    BY <1>3, <2>2
  <2>3. CASE \E i \in limbo : b = i.batch /\ c \in i.counts
    BY <1>4, <2>3
  <2> QED BY <1>1, <1>8, <2>1, <2>2, <2>3 DEF Provenance, LogFrom
<1> QED BY <1>5, <1>6, <1>7, <1>8 DEF Sound

LEMMA InitInv ==
    ASSUME Init
    PROVE  IInv
<1>1. TypeOK
  BY FS_EmptySet, SizesAssumption DEF Init, TypeOK, NoBatch, NoCounts, CountsType, AttemptsFor
<1>2. TriesInv /\ Sound
  BY DEF Init, TriesInv, Sound
<1> QED BY <1>1, <1>2 DEF IInv

\* The invariant behind the properties below.
THEOREM Invariance == Spec => []IInv
<1>1. Init => IInv
  BY InitInv
<1>2. IInv /\ [Next]_vars => IInv'
  BY TypeStep, SoundStep DEF IInv
<1> QED BY <1>1, <1>2, PTL DEF Spec

\* Type correctness: a worker outside process_single_batch has no batch, and the
\* attempts at an insert stay below their limit.
THEOREM TypeCorrect == Spec => []TypeOK
<1>1. IInv => TypeOK
  BY DEF IInv
<1> QED BY <1>1, Invariance, PTL

\* A batch that llm_batches calls complete has a result for every row: for any
\* number of workers and any mix of errors, kills and late inserts.
THEOREM CompleteBatchesAnswered == Spec => []CompleteIsAnswered
<1>1. IInv => CompleteIsAnswered
  BY DEF IInv, Sound, Good, CompleteIsAnswered
<1> QED BY <1>1, Invariance, PTL

\* The published counts of a batch account for every row and for no more result
\* rows than there are, although they are read before they are written.
THEOREM PublishedCountsBracketed == Spec => []CountsBracketed
<1>1. IInv => CountsBracketed
  BY DEF IInv, Sound, Good, CountsBracketed
<1> QED BY <1>1, Invariance, PTL
-----------------------------------------------------------------------------
(* The workers implement BatchLedger.                                      *)

\* Batches are found, worked on and written to only once they were submitted; an
\* insert nobody waits for is a chunk of results or a status, never both.
OfSubmitted ==
    /\ \A w \in Workers : todo[w] \subseteq submitted /\ batch[w] \in submitted \cup {NoBatch}
    /\ \A i \in limbo : i.batch \in submitted /\ (i.chunk = {} \/ i.counts = {})

LInv == IInv /\ OfSubmitted

\* A worker's list comes from a poll and its batch from the list.
BatchFrom(v) ==
    /\ todo'[v] \subseteq todo[v] \cup submitted
    /\ batch'[v] \in todo[v] \cup {batch[v], NoBatch}

\* A worker that drops its batch, and perhaps its list.
LEMMA DropFrom ==
    ASSUME TypeOK, NEW w \in Workers, DropBatch(w),
           todo' = todo \/ todo' = [todo EXCEPT ![w] = {}]
    PROVE  \A v \in Workers : BatchFrom(v)
BY DEF DropBatch, TypeOK, BatchFrom

LEMMA WorkerFrom ==
    ASSUME TypeOK, NEW w \in Workers, Work(w) \/ Fail(w) \/ Start(w)
    PROVE  submitted' = submitted /\ \A v \in Workers : BatchFrom(v)
<1> USE DEF store, pageVars
<1>1. ASSUME Poll(w) PROVE submitted' = submitted /\ \A v \in Workers : BatchFrom(v)
  <2>1. FirstK(PendingBatches, PendingLimit) \subseteq submitted
    BY DEF FirstK, PendingBatches
  <2> QED BY <1>1, <2>1 DEF Poll, TypeOK, BatchFrom
<1>2. ASSUME PickBatch(w) PROVE submitted' = submitted /\ \A v \in Workers : BatchFrom(v)
  BY <1>2 DEF PickBatch, TypeOK, BatchFrom
<1>3. ASSUME EndFor(w) PROVE submitted' = submitted /\ \A v \in Workers : BatchFrom(v)
  BY <1>3 DEF EndFor, TypeOK, BatchFrom
<1>4. ASSUME \/ Exit(w) \/ FetchPage(w) \/ FetchNothing(w) \/ WriteResults(w) \/ EndPage(w)
             \/ CountRows(w) \/ RetryWrite(w) \/ Signal(w) \/ Start(w)
      PROVE  submitted' = submitted /\ \A v \in Workers : BatchFrom(v)
  <2>1. submitted' = submitted /\ todo' = todo /\ batch' = batch
    BY <1>4 DEF Exit, FetchPage, FetchNothing, WriteResults, EndPage, CountRows, RetryWrite,
        Signal, Start
  <2> QED BY <2>1 DEF BatchFrom
<1>5. ASSUME NEW r \in RowIds, NEW o \in Outcomes, Emit(w, r, o)
      PROVE  submitted' = submitted /\ \A v \in Workers : BatchFrom(v)
  BY <1>5 DEF Emit, BatchFrom
<1>8. ASSUME NEW r \in RowIds, Deny(w, r)
      PROVE  submitted' = submitted /\ \A v \in Workers : BatchFrom(v)
  BY <1>8 DEF Deny, BatchFrom
<1>6. ASSUME WriteStatus(w) PROVE submitted' = submitted /\ \A v \in Workers : BatchFrom(v)
  BY <1>6, DropFrom DEF WriteStatus
<1>7. ASSUME ReadError(w) \/ GiveUpWrite(w) \/ Kill(w)
      PROVE  submitted' = submitted /\ \A v \in Workers : BatchFrom(v)
  BY <1>7, DropFrom DEF ReadError, GiveUpWrite, Kill, BackToPoll
<1> QED BY <1>1, <1>2, <1>3, <1>4, <1>5, <1>6, <1>7, <1>8 DEF Work, Fail

\* Inserts get lost only while they are made.
LEMMA LimboGrows ==
    ASSUME NEW w \in Workers, Work(w) \/ Fail(w) \/ Start(w)
    PROVE  \A i \in limbo' : i \in limbo \/ (Inserting(w) /\ i = PendingInsert(w))
<1>1. ASSUME Work(w) \/ Start(w) PROVE limbo' = limbo
  BY <1>1 DEF Work, Start, Poll, PickBatch, EndFor, Exit, FetchPage, FetchNothing, Deny, Emit,
      WriteResults, EndPage, CountRows, WriteStatus, store
<1>2. ASSUME Fail(w)
      PROVE  limbo' = limbo \/ (Inserting(w) /\ limbo' = limbo \cup {PendingInsert(w)})
  BY <1>2 DEF Fail, ReadError, RetryWrite, GiveUpWrite, Signal, Kill, MayLand, store
<1> QED BY <1>1, <1>2

LEMMA OfSubmittedStep ==
    ASSUME TypeOK, OfSubmitted, [Next]_vars
    PROVE  OfSubmitted'
<1>1. ASSUME NEW w \in Workers, Work(w) \/ Fail(w) \/ Start(w) PROVE OfSubmitted'
  <2>1. submitted' = submitted /\ \A v \in Workers : BatchFrom(v)
    BY <1>1, WorkerFrom
  <2>2. ASSUME NEW v \in Workers
        PROVE  todo'[v] \subseteq submitted' /\ batch'[v] \in submitted' \cup {NoBatch}
    BY <2>1 DEF OfSubmitted, BatchFrom
  <2>3. ASSUME NEW i \in limbo'
        PROVE  i.batch \in submitted' /\ (i.chunk = {} \/ i.counts = {})
    <3>1. CASE i \in limbo
      BY <2>1, <3>1 DEF OfSubmitted
    <3>2. CASE Inserting(w) /\ i = PendingInsert(w)
      <4>1. batch[w] \in submitted
        BY <3>2 DEF Inserting, TypeOK, OfSubmitted
      <4> QED BY <2>1, <3>2, <4>1 DEF PendingInsert
    <3> QED BY <1>1, <3>1, <3>2, LimboGrows
  <2> QED BY <2>2, <2>3 DEF OfSubmitted
<1>2. ASSUME NEW b \in Batches, Submit(b) PROVE OfSubmitted'
  BY <1>2 DEF Submit, OfSubmitted
<1>3. ASSUME NEW i \in limbo, LandOf(i) PROVE OfSubmitted'
  BY <1>3 DEF LandOf, OfSubmitted
<1>4. CASE UNCHANGED vars
  BY <1>4 DEF vars, OfSubmitted
<1> QED BY <1>1, <1>2, <1>3, <1>4 DEF Next, Land

\* The ledger sees the workers' results and status rows through these two.
AnsweredRows == [b \in Batches |-> Answered(b)]
CompleteBatches == {b \in Batches : completeLog[b] # {}}

\* A chunk answers the rows it is about.
LEMMA InsertAnswers ==
    ASSUME TypeOK, NEW b \in Batches, NEW ck \in SUBSET (RowIds \X Outcomes),
           NEW a \in BOOLEAN, results' = Inserted(b, ck, a)
    PROVE  AnsweredRows' =
             [AnsweredRows EXCEPT ![b] = @ \cup {r \in Inputs[b] : \E e \in ck : e[1] = r}]
<1> DEFINE new == {NewResult(b, e, a) : e \in ck}
           rows == {r \in Inputs[b] : \E e \in ck : e[1] = r}
<1>1. \A r : (\E x \in new : x[1] = r) <=> (\E e \in ck : e[1] = r)
  <2>1. \A e \in ck : NewResult(b, e, a)[1] = e[1]
    BY DEF NewResult
  <2> QED BY <2>1, Zenon
<1>2. results'[b] = results[b] \cup new /\ \A c \in Batches \ {b} : results'[c] = results[c]
  BY DEF Inserted, TypeOK
<1> HIDE DEF new
<1>3. Answered(b)' = Answered(b) \cup rows
  BY <1>1, <1>2 DEF Answered
<1>4. \A c \in Batches \ {b} : Answered(c)' = Answered(c)
  BY <1>2 DEF Answered
<1> QED BY <1>3, <1>4 DEF AnsweredRows

\* A status row completes its batch, or the batch was complete already.
LEMMA StatusCompletes ==
    ASSUME TypeOK, NEW b \in Batches, b \in submitted, submitted' = submitted,
           Answered(b) = Inputs[b], results' = results,
           NEW cs, cs # {}, completeLog' = [completeLog EXCEPT ![b] = @ \cup cs]
    PROVE  Ledger!Complete(b) \/ UNCHANGED Ledger!vars
<1>1. AnsweredRows' = AnsweredRows
  BY DEF AnsweredRows, Answered
<1>2. CompleteBatches' = CompleteBatches \cup {b}
  BY DEF CompleteBatches, TypeOK
<1>3. CASE b \in CompleteBatches
  BY <1>1, <1>2, <1>3 DEF Ledger!vars, AnsweredRows, CompleteBatches
<1>4. CASE b \notin CompleteBatches
  BY <1>1, <1>2, <1>4 DEF Ledger!Complete, AnsweredRows, CompleteBatches
<1> QED BY <1>3, <1>4

LEMMA LedgerStep ==
    ASSUME LInv, [Next]_vars
    PROVE  [Ledger!Next]_(Ledger!vars)
<1>1. TypeOK /\ Sound /\ OfSubmitted
  BY DEF LInv, IInv
<1>2. ASSUME UNCHANGED <<submitted, results, completeLog>> PROVE UNCHANGED Ledger!vars
  BY <1>2 DEF Ledger!vars, Answered
<1>3. ASSUME NEW b \in Batches, Submit(b) PROVE Ledger!Submit(b)
  BY <1>3 DEF Submit, Ledger!Submit, Answered
<1>4. ASSUME NEW b \in Batches, b \in submitted, NEW ck \in SUBSET (RowIds \X Outcomes),
             NEW a \in BOOLEAN, results' = Inserted(b, ck, a), UNCHANGED <<submitted, completeLog>>
      PROVE  Ledger!Next
  <2> DEFINE rows == {r \in Inputs[b] : \E e \in ck : e[1] = r}
  <2>1. AnsweredRows' = [AnsweredRows EXCEPT ![b] = @ \cup rows]
    BY <1>1, <1>4, InsertAnswers
  <2> HIDE DEF rows
  <2>2. Ledger!Answer(b, rows)
    BY <1>4, <2>1 DEF Ledger!Answer, AnsweredRows
  <2>3. rows \in SUBSET Inputs[b]
    BY DEF rows
  <2> QED BY <2>2, <2>3 DEF Ledger!Next
<1>5. ASSUME NEW w \in Workers, WriteResults(w) PROVE Ledger!Next
  <2>1. batch[w] \in Batches /\ batch[w] \in submitted /\ chunk[w] \in SUBSET (RowIds \X Outcomes)
    BY <1>1, <1>5 DEF WriteResults, TypeOK, OfSubmitted
  <2>2. results' = Inserted(batch[w], chunk[w], TRUE) /\ UNCHANGED <<submitted, completeLog>>
    BY <1>5 DEF WriteResults
  <2> QED BY <1>4, <2>1, <2>2
<1>6. ASSUME NEW w \in Workers, WriteStatus(w) PROVE [Ledger!Next]_(Ledger!vars)
  <2>1. batch[w] \in Batches /\ batch[w] \in submitted /\ Answered(batch[w]) = Inputs[batch[w]]
    BY <1>1, <1>6 DEF WriteStatus, TypeOK, OfSubmitted, Sound, Good
  <2>0. PICK cs : cs = {counts[w]}
    OBVIOUS
  <2>2. PICK b \in Batches : b = batch[w] /\ cs = {counts[w]}
    BY <2>0, <2>1
  <2>3. /\ UNCHANGED <<submitted, results>> /\ cs # {}
        /\ completeLog' = [completeLog EXCEPT ![b] = @ \cup cs]
    BY <1>6, <2>2 DEF WriteStatus
  <2>4. Ledger!Complete(b) \/ UNCHANGED Ledger!vars
    BY <1>1, <2>1, <2>2, <2>3, StatusCompletes
  <2> QED BY <2>4 DEF Ledger!Next
<1>7. ASSUME NEW i \in limbo, LandOf(i) PROVE [Ledger!Next]_(Ledger!vars)
  <2>1. /\ i.batch \in Batches /\ i.batch \in submitted
        /\ i.chunk \in SUBSET (RowIds \X Outcomes)
        /\ i.chunk = {} \/ i.counts = {}
    BY <1>1 DEF TypeOK, InsertType, OfSubmitted
  <2>2. /\ submitted' = submitted /\ results' = Inserted(i.batch, i.chunk, FALSE)
        /\ completeLog' = [completeLog EXCEPT ![i.batch] = @ \cup i.counts]
    BY <1>7 DEF LandOf
  <2>3. CASE i.counts = {}
    <3>1. completeLog' = completeLog
      BY <1>1, <2>1, <2>2, <2>3 DEF TypeOK
    <3> QED BY <1>4, <2>1, <2>2, <3>1
  <2>4. CASE i.counts # {}
    <3>1. results' = results
      BY <1>1, <2>1, <2>2, <2>4 DEF TypeOK, Inserted
    <3>2. Answered(i.batch) = Inputs[i.batch]
      BY <1>1, <2>4 DEF Sound, Good
    <3>3. Ledger!Complete(i.batch) \/ UNCHANGED Ledger!vars
      BY <1>1, <2>1, <2>2, <2>4, <3>1, <3>2, StatusCompletes
    <3> QED BY <2>1, <3>3 DEF Ledger!Next
  <2> QED BY <2>3, <2>4
<1>8. ASSUME NEW w \in Workers, Work(w), ~WriteResults(w), ~WriteStatus(w)
      PROVE  UNCHANGED <<submitted, results, completeLog>>
  BY <1>8 DEF Work, Poll, PickBatch, EndFor, Exit, FetchPage, FetchNothing, Deny, Emit, EndPage,
      CountRows, store
<1>9. ASSUME NEW w \in Workers, Fail(w) \/ Start(w)
      PROVE  UNCHANGED <<submitted, results, completeLog>>
  BY <1>9 DEF Fail, ReadError, RetryWrite, GiveUpWrite, Signal, Kill, Start, store
<1>10. CASE UNCHANGED vars
  BY <1>2, <1>10 DEF vars
<1>11. CASE \E b \in Batches : Submit(b)
  BY <1>3, <1>11 DEF Ledger!Next
<1> QED BY <1>2, <1>5, <1>6, <1>7, <1>8, <1>9, <1>10, <1>11 DEF Next, Land

\* For readers of ClickHouse any number of workers, overlapping, failing and losing
\* inserts, are one ledger: no answer before the submission, none ever taken back, and
\* a batch complete once and for all and only when every row of it has an answer.
THEOREM RefinesLedger == Spec => ImplementsLedger
<1>1. Init => OfSubmitted /\ Ledger!Init
  <2> SUFFICES ASSUME Init PROVE OfSubmitted /\ Ledger!Init
    OBVIOUS
  <2>1. OfSubmitted
    BY DEF Init, OfSubmitted
  <2>2. \A b \in Batches : Answered(b) = {}
    BY DEF Init, Answered
  <2> QED BY <2>1, <2>2 DEF Init, Ledger!Init
<1>2. IInv /\ OfSubmitted /\ [Next]_vars => OfSubmitted'
  BY OfSubmittedStep DEF IInv
<1>3. IInv /\ OfSubmitted /\ [Next]_vars => [Ledger!Next]_(Ledger!vars)
  BY LedgerStep DEF LInv
<1> QED BY <1>1, <1>2, <1>3, Invariance, PTL DEF Spec, ImplementsLedger, Ledger!Spec
-----------------------------------------------------------------------------
(* One worker at a time.                                                   *)

OneAtATime == \A v, w \in Workers : v = w

\* The rows of b with a result from an acknowledged insert.
Acknowledged(b) == {r \in RowIds : \E x \in results[b] : x[1] = r /\ x[4]}

\* Between a worker's fetch and its next, the rows still to be yielded and those of
\* the chunk are distinct rows of the batch without an acknowledged result.
PageOfUnanswered(w) ==
    /\ pc[w] # "run" => chunk[w] = {}
    /\ pc[w] = "run" =>
          /\ left[w] \subseteq Inputs[batch[w]] \ Acknowledged(batch[w])
          /\ \A e \in chunk[w] :
                e[1] \in Inputs[batch[w]] \ (Acknowledged(batch[w]) \cup left[w])
          /\ \A e, f \in chunk[w] : e[1] = f[1] => e = f

\* Whatever lands behind the worker's back, nobody else has an insert acknowledged.
Exact ==
    /\ OneResultPerRow
    /\ \A b \in Batches : \A x \in results[b] : x[1] \in Inputs[b]
    /\ \A i \in limbo : \A e \in i.chunk : e[1] \in Inputs[i.batch]
    /\ \A w \in Workers : PageOfUnanswered(w)

\* A worker that drops its batch has nothing to be wrong about.
LEMMA DropExact ==
    ASSUME TypeOK, NEW w \in Workers, DropBatch(w), \A v \in Workers : v = w,
           NEW p \in {"poll", "next", "down"}, pc' = [pc EXCEPT ![w] = p]
    PROVE  \A v \in Workers : PageOfUnanswered(v)'
BY DEF DropBatch, TypeOK, PageOfUnanswered

\* A page is read from the rows without an answer.
LEMMA FetchExact ==
    ASSUME IInv, Exact, OneAtATime, NEW w \in Workers, FetchPage(w)
    PROVE  \A v \in Workers : PageOfUnanswered(v)'
<1>1. PICK b \in Batches : b = batch[w] /\ b = batch'[w]
  BY DEF FetchPage, IInv, TypeOK
<1>2. left'[w] = UnansweredRows(b) /\ pc'[w] = "run" /\ chunk'[w] = {} /\ results' = results
  BY <1>1 DEF FetchPage, IInv, TypeOK, Exact, PageOfUnanswered, store
<1>3. UnansweredRows(b) \subseteq Inputs[b] \ Answered(b)
  BY DEF UnansweredRows, FirstK
<1>4. Acknowledged(b)' = Acknowledged(b) /\ Inputs[b] \cap Acknowledged(b) \subseteq Answered(b)
  BY <1>2 DEF Answered, Acknowledged
<1>5. PageOfUnanswered(w)'
  BY <1>1, <1>2, <1>3, <1>4 DEF PageOfUnanswered
<1> QED BY <1>5 DEF OneAtATime

\* A yielded row goes from the rest of the page to the chunk.
LEMMA EmitExact ==
    ASSUME IInv, Exact, OneAtATime, NEW w \in Workers,
           NEW r \in RowIds, NEW o \in Outcomes, Emit(w, r, o)
    PROVE  \A v \in Workers : PageOfUnanswered(v)'
<1>1. PICK b \in Batches : b = batch[w] /\ b = batch'[w]
  BY DEF Emit, IInv, TypeOK
<1>2. /\ left'[w] = left[w] \ {r} /\ chunk'[w] = chunk[w] \cup {<<r, o>>}
      /\ pc[w] = "run" /\ pc'[w] = "run" /\ r \in left[w] /\ results' = results
  BY DEF Emit, IInv, TypeOK, store
<1>3. Acknowledged(b)' = Acknowledged(b)
  BY <1>2 DEF Acknowledged
<1>4. /\ left[w] \subseteq Inputs[b] \ Acknowledged(b)
      /\ \A e \in chunk[w] : e[1] \in Inputs[b] \ (Acknowledged(b) \cup left[w])
      /\ \A e, f \in chunk[w] : e[1] = f[1] => e = f
  BY <1>1, <1>2 DEF Exact, PageOfUnanswered
<1>5. /\ left'[w] \subseteq Inputs[b] \ Acknowledged(b)
      /\ \A e \in chunk'[w] : e[1] \in Inputs[b] \ (Acknowledged(b) \cup left'[w])
  BY <1>2, <1>4
<1>6. \A e, f \in chunk'[w] : e[1] = f[1] => e = f
  BY <1>2, <1>4
<1>7. PageOfUnanswered(w)'
  BY <1>1, <1>2, <1>3, <1>5, <1>6 DEF PageOfUnanswered
<1> QED BY <1>7 DEF OneAtATime

\* A step that leaves the results alone, and loses at most the insert it is making.
LEMMA QuietExact ==
    ASSUME IInv, Exact, results' = results,
           NEW w \in Workers, limbo' = limbo \/ (Inserting(w) /\ MayLand(w)),
           \A v \in Workers : PageOfUnanswered(v)'
    PROVE  Exact'
<1>1. OneResultPerRow' /\ \A b \in Batches : \A x \in results'[b] : x[1] \in Inputs[b]
  BY DEF Exact, OneResultPerRow
<1>2. ASSUME NEW i \in limbo' PROVE \A e \in i.chunk : e[1] \in Inputs[i.batch]
  <2>1. CASE i \in limbo
    BY <2>1 DEF Exact
  <2>2. CASE Inserting(w) /\ i = PendingInsert(w)
    BY <2>2 DEF Exact, PageOfUnanswered, PendingInsert
  <2> QED BY <1>2, <2>1, <2>2 DEF MayLand
<1> QED BY <1>1, <1>2 DEF Exact

NewResults(b, ck, a) == {NewResult(b, e, a) : e \in ck}

\* What an insert adds to its batch: results of the chunk's rows, acknowledged or not.
LEMMA Adds ==
    ASSUME TypeOK, NEW b \in Batches, NEW ck \in SUBSET (RowIds \X Outcomes), NEW a \in BOOLEAN,
           results' = Inserted(b, ck, a)
    PROVE  /\ results'[b] = results[b] \cup NewResults(b, ck, a)
           /\ \A c \in Batches \ {b} : results'[c] = results[c]
           /\ \A x \in NewResults(b, ck, a) : (a => x[4]) /\ (~a => ~x[4])
           /\ \A x \in NewResults(b, ck, a) :
                 \E e \in ck : x = NewResult(b, e, a) /\ x[1] = e[1]
<1>1. /\ results'[b] = results[b] \cup NewResults(b, ck, a)
      /\ \A c \in Batches \ {b} : results'[c] = results[c]
  BY DEF Inserted, NewResults, TypeOK
<1>2. \A e \in ck : /\ (a => NewResult(b, e, a)[4]) /\ (~a => ~NewResult(b, e, a)[4])
                    /\ NewResult(b, e, a)[1] = e[1]
  BY DEF NewResult
<1>3. /\ \A x \in NewResults(b, ck, a) : (a => x[4]) /\ (~a => ~x[4])
      /\ \A x \in NewResults(b, ck, a) :
            \E e \in ck : x = NewResult(b, e, a) /\ x[1] = e[1]
  BY <1>2 DEF NewResults
<1> QED BY <1>1, <1>3

\* The chunk's rows get their first acknowledged result.
LEMMA WriteExact ==
    ASSUME IInv, Exact, OneAtATime, NEW w \in Workers, WriteResults(w)
    PROVE  Exact'
<1>a. PICK a \in BOOLEAN : a = TRUE
  OBVIOUS
<1>0. PICK ck : ck = chunk[w]
  OBVIOUS
<1>1. PICK b \in Batches : b = batch[w] /\ b = batch'[w] /\ ck = chunk[w]
  BY <1>0 DEF WriteResults, IInv, TypeOK
<1>2. TypeOK /\ ck \in SUBSET (RowIds \X Outcomes) /\ results' = Inserted(b, ck, a)
  BY <1>a, <1>1 DEF WriteResults, IInv, TypeOK
<1>b. PICK new : new = NewResults(b, ck, a)
  OBVIOUS
<1>3. /\ results'[b] = results[b] \cup new
      /\ \A c \in Batches \ {b} : results'[c] = results[c]
      /\ \A x \in new : x[4]
      /\ \A x \in new : \E e \in ck : x = NewResult(b, e, a) /\ x[1] = e[1]
  <2>1. /\ results'[b] = results[b] \cup new
        /\ \A c \in Batches \ {b} : results'[c] = results[c]
        /\ \A x \in new : a => x[4]
        /\ \A x \in new : \E e \in ck : x = NewResult(b, e, a) /\ x[1] = e[1]
    BY <1>b, <1>2, Adds
  <2> QED BY <1>a, <2>1, Zenon
<1>4. /\ left[w] \subseteq Inputs[b] \ Acknowledged(b)
      /\ \A e \in ck : e[1] \in Inputs[b] \ (Acknowledged(b) \cup left[w])
      /\ \A e, f \in ck : e[1] = f[1] => e = f
      /\ left'[w] = left[w] /\ chunk'[w] = {} /\ pc'[w] = "run" /\ pc[w] = "run"
  BY <1>1 DEF WriteResults, Exact, PageOfUnanswered, IInv, TypeOK
<1>5. \A x \in new, y \in results[b] : y[4] => x[1] # y[1]
  <2>1. \A x \in new : x[1] \in RowIds \ Acknowledged(b)
    BY <1>2, <1>3, <1>4
  <2> QED BY <2>1 DEF Acknowledged
<1>6. \A x, y \in new : x[1] = y[1] => x = y
  BY <1>3, <1>4
<1>7. OneResultPerRow'
  <2>1. \A x, y \in results[b] : x[1] = y[1] /\ x[4] /\ y[4] => x = y
    BY DEF Exact, OneResultPerRow
  <2>2. \A x, y \in results'[b] : x[1] = y[1] /\ x[4] /\ y[4] => x = y
    BY <1>3, <1>5, <1>6, <2>1
  <2> QED BY <1>3, <2>2 DEF Exact, OneResultPerRow
<1>8. \A c \in Batches : \A x \in results'[c] : x[1] \in Inputs[c]
  BY <1>3, <1>4 DEF Exact
<1>9. ASSUME NEW v \in Workers PROVE PageOfUnanswered(v)'
  <2>1. v = w
    BY DEF OneAtATime
  <2>2. left'[w] \subseteq Inputs[b] \ Acknowledged(b)'
    <3>1. ASSUME NEW r \in left[w] PROVE \A x \in results'[b] : x[4] => x[1] # r
      <4>1. r \in RowIds \ Acknowledged(b)
        BY <1>4 DEF IInv, TypeOK
      <4> QED BY <1>3, <1>4, <4>1 DEF Acknowledged
    <3> QED BY <1>4, <3>1 DEF Acknowledged
  <2> QED BY <1>1, <1>4, <2>1, <2>2 DEF PageOfUnanswered
<1>10. limbo' = limbo
  BY DEF WriteResults
<1> QED BY <1>7, <1>8, <1>9, <1>10 DEF Exact

\* What lands late is not acknowledged: no row of a page is, either.
LEMMA LandExact ==
    ASSUME IInv, Exact, NEW i \in limbo, LandOf(i)
    PROVE  Exact'
<1>a. PICK a \in BOOLEAN : a = FALSE
  OBVIOUS
<1>0. PICK ck : ck = i.chunk
  OBVIOUS
<1>1. PICK b \in Batches : b = i.batch /\ ck = i.chunk
  BY <1>0 DEF IInv, TypeOK, InsertType
<1>2. TypeOK /\ ck \in SUBSET (RowIds \X Outcomes) /\ results' = Inserted(b, ck, a)
  BY <1>a, <1>1 DEF LandOf, IInv, TypeOK, InsertType
<1>b. PICK new : new = NewResults(b, ck, a)
  OBVIOUS
<1>3. /\ results'[b] = results[b] \cup new
      /\ \A c \in Batches \ {b} : results'[c] = results[c]
      /\ \A x \in new : ~x[4]
      /\ \A x \in new : \E e \in ck : x = NewResult(b, e, a) /\ x[1] = e[1]
  BY <1>a, <1>b, <1>2, Adds
<1>4. OneResultPerRow'
  BY <1>3 DEF Exact, OneResultPerRow
<1>5. \A c \in Batches : \A x \in results'[c] : x[1] \in Inputs[c]
  BY <1>1, <1>3 DEF Exact
<1>6. \A c \in Batches : Acknowledged(c)' = Acknowledged(c)
  BY <1>3 DEF Acknowledged
<1>7. ASSUME NEW v \in Workers PROVE PageOfUnanswered(v)'
  <2>1. pc[v] = "run" => batch[v] \in Batches
    BY DEF IInv, TypeOK
  <2> QED BY <1>6, <2>1 DEF LandOf, pageVars, Exact, PageOfUnanswered
<1>8. limbo' \subseteq limbo
  BY DEF LandOf
<1> QED BY <1>4, <1>5, <1>7, <1>8 DEF Exact

LEMMA ExactStep ==
    ASSUME IInv, Exact, OneAtATime, [Next]_vars
    PROVE  Exact'
<1> USE DEF store, pageVars
<1>1. TypeOK /\ \A v, w \in Workers : v = w
  BY DEF IInv, OneAtATime
<1>2. ASSUME NEW w \in Workers, Poll(w) \/ PickBatch(w) \/ EndFor(w) \/ Exit(w) \/ FetchNothing(w)
                 \/ EndPage(w) \/ CountRows(w) \/ Start(w)
      PROVE  Exact'
  <2>1. /\ UNCHANGED <<results, limbo>>
        /\ pc'[w] # "run" /\ chunk'[w] = {}
    BY <1>1, <1>2 DEF Poll, PickBatch, EndFor, Exit, FetchNothing, EndPage, CountRows, Start,
        TypeOK, Exact, PageOfUnanswered
  <2>2. \A v \in Workers : PageOfUnanswered(v)'
    BY <1>1, <2>1 DEF PageOfUnanswered
  <2> QED BY <2>1, <2>2, QuietExact
<1>3. ASSUME NEW w \in Workers, FetchPage(w) PROVE Exact'
  <2>1. UNCHANGED <<results, limbo>>
    BY <1>3 DEF FetchPage
  <2> QED BY <1>3, <2>1, FetchExact, QuietExact
<1>4. ASSUME NEW w \in Workers, NEW r \in RowIds, NEW o \in Outcomes, Emit(w, r, o) PROVE Exact'
  <2>1. UNCHANGED <<results, limbo>>
    BY <1>4 DEF Emit
  <2> QED BY <1>4, <2>1, EmitExact, QuietExact
<1>5. ASSUME UNCHANGED <<results, pc, batch, left, chunk>>,
             NEW w \in Workers, limbo' = limbo \/ (Inserting(w) /\ MayLand(w))
      PROVE  Exact'
  <2>1. ASSUME NEW v \in Workers PROVE PageOfUnanswered(v)'
    <3>1. Acknowledged(batch[v])' = Acknowledged(batch[v])
      BY <1>5 DEF Acknowledged
    <3> QED BY <1>5, <3>1 DEF Exact, PageOfUnanswered
  <2> QED BY <1>5, <2>1, QuietExact
<1>6. ASSUME NEW w \in Workers, ReadError(w) \/ GiveUpWrite(w) \/ Kill(w) \/ WriteStatus(w)
      PROVE  Exact'
  <2>1. results' = results /\ (limbo' = limbo \/ (Inserting(w) /\ MayLand(w)))
    BY <1>6 DEF ReadError, GiveUpWrite, Kill, WriteStatus
  <2>2. \A v \in Workers : PageOfUnanswered(v)'
    BY <1>1, <1>6, DropExact DEF ReadError, GiveUpWrite, Kill, WriteStatus, BackToPoll
  <2> QED BY <2>1, <2>2, QuietExact
<1>7. ASSUME NEW w \in Workers,
             RetryWrite(w) \/ Signal(w) \/ (\E r \in RowIds : Deny(w, r))
      PROVE  Exact'
  <2>1. UNCHANGED <<results, pc, batch, left, chunk>>
    BY <1>7 DEF RetryWrite, Signal, Deny
  <2>2. limbo' = limbo \/ (Inserting(w) /\ MayLand(w))
    BY <1>7 DEF RetryWrite, Signal, Deny
  <2> QED BY <1>5, <2>1, <2>2
<1>8. ASSUME UNCHANGED <<results, pc, batch, left, chunk, limbo>> PROVE Exact'
  <2>1. ASSUME NEW v \in Workers PROVE PageOfUnanswered(v)'
    <3>1. Acknowledged(batch[v])' = Acknowledged(batch[v])
      BY <1>8 DEF Acknowledged
    <3> QED BY <1>8, <3>1 DEF Exact, PageOfUnanswered
  <2> QED BY <1>8, <2>1 DEF Exact, OneResultPerRow
<1>9. ASSUME NEW b \in Batches, Submit(b) PROVE Exact'
  BY <1>8, <1>9 DEF Submit
<1>10. CASE UNCHANGED vars
  BY <1>8, <1>10 DEF vars
<1> QED BY <1>2, <1>3, <1>4, <1>6, <1>7, <1>9, <1>10, WriteExact, LandExact
        DEF Next, Work, Fail, Land

LEMMA InitExact ==
    ASSUME Init
    PROVE  Exact
BY DEF Init, Exact, OneResultPerRow, PageOfUnanswered

\* A worker that is killed, restarted and rerun over a half answered batch, and whose
\* inserts fail, land late or are retried although they landed, has at most one insert
\* of a row acknowledged, as long as it is alone.
THEOREM AloneOneResult == ASSUME OneAtATime PROVE Spec => []OneResultPerRow
<1>1. IInv /\ Exact /\ [Next]_vars => Exact'
  BY ExactStep
<1>2. Exact => OneResultPerRow
  BY DEF Exact
<1>3. Init => Exact
  BY InitExact
<1> QED BY <1>1, <1>2, <1>3, Invariance, PTL DEF Spec

\* Result rows of distinct rows, all of I, are no more than I.
LEMMA OneEachCount ==
    ASSUME NEW R, IsFiniteSet(R), NEW I, IsFiniteSet(I), \A x \in R : x[1] \in I,
           \A x, y \in R : x[1] = y[1] => x = y
    PROVE  Cardinality(R) <= Cardinality(I)
<1> DEFINE f == [x \in R |-> x[1]]
<1>1. f \in Injection(R, I)
  <2>1. f \in [R -> I] /\ \A x, y \in R : f[x] = f[y] => x = y
    OBVIOUS
  <2> HIDE DEF f
  <2> QED BY <2>1 DEF Injection, IsInjective
<1> HIDE DEF f
<1> QED BY <1>1, FS_Injection

\* A single worker's published counts exceed the batch's rows by no more than the
\* results whose insert was not acknowledged; without those they are exactly, and for
\* good, what llm_results holds.
THEOREM AloneCountsExact == ASSUME OneAtATime PROVE Spec => []CountsExact
<1>1. IInv /\ Exact /\ [Next]_vars => Exact'
  BY ExactStep
<1>2. IInv /\ Exact => CountsExact
  <2> SUFFICES ASSUME IInv, Exact, NEW b \in Batches, NEW c \in completeLog[b]
               PROVE  /\ c.completed + c.failed <= c.total + Cardinality(Unacknowledged(b))
                      /\ Unacknowledged(b) = {} => c = BatchCounts(b)
    BY DEF CountsExact
  <2> DEFINE A == {x \in results[b] : x[4]}
  <2>1. c \in CountsType /\ Accounts(b, c)
    BY DEF IInv, Sound, Good, TypeOK
  <2>2. IsFiniteSet(results[b]) /\ results[b] \in SUBSET (RowIds \X Status \X Nat \X BOOLEAN)
    BY DEF IInv, TypeOK
  <2>3. A \cup Unacknowledged(b) = results[b] /\ A \cap Unacknowledged(b) = {}
    BY DEF Unacknowledged
  <2>4. /\ IsFiniteSet(A) /\ Cardinality(A) \in Nat
        /\ IsFiniteSet(Unacknowledged(b)) /\ Cardinality(Unacknowledged(b)) \in Nat
    BY <2>2, FiniteSub DEF Unacknowledged
  <2> HIDE DEF A
  <2>5. Cardinality(results[b]) = Cardinality(A) + Cardinality(Unacknowledged(b))
    <3>1. Cardinality(A \cup Unacknowledged(b))
            = Cardinality(A) + Cardinality(Unacknowledged(b))
                - Cardinality(A \cap Unacknowledged(b))
      BY <2>4, FS_Union
    <3>2. Cardinality(A \cap Unacknowledged(b)) = 0
      BY <2>3, FS_EmptySet, Zenon
    <3>3. Cardinality(A \cup Unacknowledged(b)) = Cardinality(results[b])
      BY <2>3, Zenon
    <3> QED BY <2>4, <3>1, <3>2, <3>3
  <2>6. Cardinality(A) <= Cardinality(Inputs[b])
    <3>1. IsFiniteSet(Inputs[b])
      BY InputsAssumption, FiniteAssumption, FiniteSub
    <3>2. \A x \in A : x[1] \in Inputs[b]
      BY DEF Exact, A
    <3>3. \A x, y \in A : x[1] = y[1] => x = y
      BY DEF Exact, OneResultPerRow, A
    <3> QED BY <2>4, <3>1, <3>2, <3>3, OneEachCount
  <2>7. Cardinality(results[b]) = CountStatus(b, "complete") + CountStatus(b, "failed")
    BY <2>2, ByStatus DEF CountStatus
  <2>8. CountStatus(b, "complete") \in Nat /\ CountStatus(b, "failed") \in Nat
    BY <2>2, FiniteSub DEF CountStatus
  <2>9. /\ c.total \in Nat /\ c.completed \in Nat /\ c.failed \in Nat
        /\ c.total = Cardinality(Inputs[b])
        /\ c.completed + c.failed >= c.total
        /\ c.completed <= CountStatus(b, "complete")
        /\ c.failed <= CountStatus(b, "failed")
    BY <2>1 DEF CountsType, Accounts
  <2>12. Cardinality(Inputs[b]) \in Nat
    BY InputsAssumption, FiniteAssumption, FiniteSub
  <2>10. ASSUME Unacknowledged(b) = {} PROVE c = BatchCounts(b)
    <3>1. Cardinality(Unacknowledged(b)) = 0
      BY <2>10, FS_EmptySet
    <3>3. CountStatus(b, "complete") + CountStatus(b, "failed") <= c.completed + c.failed
      BY <2>4, <2>5, <2>6, <2>7, <2>8, <2>9, <2>12, <3>1
    <3>2. /\ c.completed = CountStatus(b, "complete")
          /\ c.failed = CountStatus(b, "failed")
      BY <2>8, <2>9, <3>3
    <3> QED BY <2>1, <2>9, <3>2 DEF BatchCounts, CountsType
  <2>11. c.completed + c.failed <= c.total + Cardinality(Unacknowledged(b))
    BY <2>4, <2>5, <2>6, <2>7, <2>8, <2>9
  <2> QED BY <2>10, <2>11
<1>3. Init => Exact
  BY InitExact
<1> QED BY <1>1, <1>2, <1>3, Invariance, PTL DEF Spec
=============================================================================

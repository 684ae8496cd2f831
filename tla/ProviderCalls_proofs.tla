-------------------------- MODULE ProviderCalls_proofs --------------------------
(***************************************************************************)
(* Proofs about ProviderCalls, for any number of threads, any models and   *)
(* any cooldown.  What a thread does depends on what the others taught the *)
(* provider meanwhile; the bounds count the threads that had not yet       *)
(* looked.                                                                 *)
(***************************************************************************)
EXTENDS ProviderCalls, FiniteSetTheorems, TLAPS

\* The types without the bound on calls.
Types ==
    /\ omit \subseteq Rejecting
    /\ marked \subseteq Profiled
    /\ invalidFor \in [Models -> 0..Cooldown]
    /\ validProfile \subseteq Profiled
    /\ pc \in [Threads -> {"idle", "resolve", "include", "call", "missed", "rejected"}]
    /\ model \in [Threads -> Models]
    /\ plain \in [Threads -> BOOLEAN]
    /\ target \in [Threads -> {"arn", "bare"}]
    /\ temperature \in [Threads -> BOOLEAN]
    /\ calls \in [Threads -> Nat]
    /\ rejections \in [Models -> Nat]
    /\ staleFailures \in [Models -> Nat]

\* Refusals a thread has behind it: the profile's, and, once the provider knows of
\* it, the temperature's.
Bare(t) == IF target[t] = "bare" THEN 1 ELSE 0
Learned(t) == IF model[t] \in omit THEN 1 ELSE 0

\* What a thread's place in complete says of its call: a profile is sent only for a
\* profiled model, each refusal allows one call more, and a temperature is missing
\* only where it was asked to be or where the model rejects it.
Local(t) ==
    /\ target[t] = "arn" => model[t] \in Profiled /\ pc[t] \notin {"idle", "resolve"}
    /\ pc[t] \in {"idle", "resolve"} => calls[t] = 0
    /\ pc[t] = "include" => calls[t] <= Bare(t) + Learned(t)
    /\ pc[t] \in {"call", "missed"} =>
          calls[t] <= 1 + Bare(t) + (IF temperature[t] THEN 0 ELSE Learned(t))
    /\ pc[t] = "missed" => target[t] = "arn"
    /\ pc[t] = "rejected" => temperature[t] /\ calls[t] <= 1 + Bare(t) /\ model[t] \in Rejecting
    /\ pc[t] = "call" /\ ~plain[t] /\ ~temperature[t] => model[t] \in Rejecting

\* Threads that met the rejection and have not passed it on, and threads whose call
\* under way may still meet it.
Rejected(m) == {t \in Threads : pc[t] = "rejected" /\ model[t] = m}
Carrying(m) == {t \in Threads : pc[t] = "call" /\ temperature[t] /\ model[t] = m}

\* Until one of them passes it on, every thread that met the rejection is still there;
\* afterwards nobody new can meet it.
RejectionInv ==
    \A m \in Models :
        IF m \in omit THEN rejections[m] + Cardinality(Carrying(m)) <= Cardinality(Threads)
                      ELSE rejections[m] <= Cardinality(Rejected(m))

\* Threads that go with the profile of m.
Holding(m) == {t \in Threads : target[t] = "arn" /\ model[t] = m}

\* During a cooldown nobody takes up the profile, and the thread that began it has
\* let go of it.
CooldownInv ==
    \A m \in Models :
        IF Cooling(m) THEN staleFailures[m] + Cardinality(Holding(m)) < Cardinality(Threads)
                      ELSE staleFailures[m] = 0

IInv ==
    /\ Types
    /\ \A t \in Threads : Local(t)
    /\ RejectionInv
    /\ CooldownInv

\* A thread's own variables stay as they are.
Same(t) ==
    /\ pc'[t] = pc[t] /\ model'[t] = model[t] /\ plain'[t] = plain[t]
    /\ target'[t] = target[t] /\ temperature'[t] = temperature[t] /\ calls'[t] = calls[t]

\* Sets of threads are finite.
LEMMA ThreadSets ==
    ASSUME NEW S \in SUBSET Threads, NEW T \in SUBSET S
    PROVE  /\ IsFiniteSet(S) /\ IsFiniteSet(T)
           /\ Cardinality(S) \in Nat /\ Cardinality(T) \in Nat
           /\ Cardinality(T) <= Cardinality(S)
<1>1. IsFiniteSet(S)
  BY ThreadsAssumption, FS_Subset
<1>2. IsFiniteSet(T) /\ Cardinality(T) <= Cardinality(S)
  BY <1>1, FS_Subset
<1> QED BY <1>1, <1>2, FS_CardinalityType

\* A set of threads that gains or loses one.
LEMMA OneMoreOrLess ==
    ASSUME NEW S \in SUBSET Threads, NEW t \in Threads
    PROVE  /\ t \notin S => Cardinality(S \cup {t}) = Cardinality(S) + 1
           /\ t \in S => Cardinality(S \ {t}) = Cardinality(S) - 1
<1>1. IsFiniteSet(S)
  BY ThreadSets
<1> QED BY <1>1, FS_AddElement, FS_RemoveElement

\* There is at least one thread.
LEMMA SomeThread == Cardinality(Threads) \in Nat \ {0}
<1>1. IsFiniteSet(Threads) /\ Threads # {}
  BY ThreadsAssumption
<1> QED BY <1>1, FS_EmptySet, FS_CardinalityType

\* A thread that does nothing is not disturbed by what the others learn.
LEMMA LocalSame ==
    ASSUME Types, NEW t \in Threads, Local(t), Same(t), omit \subseteq omit'
    PROVE  Local(t)'
<1>1. Bare(t)' = Bare(t) /\ Learned(t) \in {0, 1} /\ Learned(t)' \in {0, 1} /\ Learned(t) <= Learned(t)'
      /\ Bare(t) \in {0, 1} /\ calls[t] \in Nat
  BY DEF Same, Bare, Learned, Types
<1> QED BY <1>1 DEF Same, Local, Types
-----------------------------------------------------------------------------
(* Types and the threads' own steps.                                       *)

LEMMA LocalStep ==
    ASSUME Types, \A t \in Threads : Local(t), [Next]_vars
    PROVE  Types' /\ (\A t \in Threads : Local(t)') /\ omit \subseteq omit'
<1> USE ModelsAssumption, CooldownAssumption DEF shared, request, history
<1>1. ASSUME NEW t \in Threads, omit \subseteq omit', Local(t)', \A v \in Threads \ {t} : Same(v)
      PROVE  \A v \in Threads : Local(v)'
  BY <1>1, LocalSame
<1>2. ASSUME omit' = omit, \A v \in Threads : Same(v)
      PROVE  \A v \in Threads : Local(v)'
  BY <1>2, LocalSame
<1>3. CASE Tick
  <2>1. invalidFor' \in [Models -> 0..Cooldown]
    BY <1>3 DEF Tick, Cooling, Types
  <2>2. staleFailures' \in [Models -> Nat]
    BY <1>3 DEF Tick, Types
  <2>3. UNCHANGED <<omit, marked, validProfile, pc, model, plain, target, temperature, calls, rejections>>
    BY <1>3 DEF Tick
  <2> QED BY <1>2, <2>1, <2>2, <2>3 DEF Types, Same
<1>4. ASSUME NEW m \in Profiled, ChangeProfile(m)
      PROVE  Types' /\ (\A t \in Threads : Local(t)') /\ omit \subseteq omit'
  <2>1. validProfile' \subseteq Profiled
    BY <1>4 DEF ChangeProfile, Types
  <2> QED BY <1>2, <1>4, <2>1 DEF ChangeProfile, Types, Same
<1>5. ASSUME NEW t \in Threads, NEW m \in Models, NEW p \in BOOLEAN, Begin(t, m, p)
      PROVE  Types' /\ (\A v \in Threads : Local(v)') /\ omit \subseteq omit'
  <2>1. Types'
    BY <1>5 DEF Begin, Types
  <2>2. \A v \in Threads \ {t} : Same(v)
    BY <1>5 DEF Begin, Types, Same
  <2>3. Local(t)'
    BY <1>5 DEF Begin, Types, Local
  <2>4. omit' = omit
    BY <1>5 DEF Begin
  <2> QED BY <1>1, <2>1, <2>2, <2>3, <2>4
<1>6. ASSUME NEW t \in Threads, Resolve(t)
      PROVE  Types' /\ (\A v \in Threads : Local(v)') /\ omit \subseteq omit'
  <2>1. Types'
    BY <1>6 DEF Resolve, Types
  <2>2. \A v \in Threads \ {t} : Same(v)
    BY <1>6 DEF Resolve, Types, Same
  <2>3. calls[t] = 0 /\ calls' = calls /\ pc'[t] = "include" /\ model'[t] = model[t]
        /\ target'[t] \in {"arn", "bare"} /\ (target'[t] = "arn" => model[t] \in Profiled)
    BY <1>6 DEF Resolve, Types, Local
  <2>4. Local(t)'
    BY <2>3 DEF Local, Bare, Learned
  <2>5. omit' = omit
    BY <1>6 DEF Resolve
  <2> QED BY <1>1, <2>1, <2>2, <2>4, <2>5
<1>7. ASSUME NEW t \in Threads, Include(t)
      PROVE  Types' /\ (\A v \in Threads : Local(v)') /\ omit \subseteq omit'
  <2>1. Types'
    BY <1>7 DEF Include, NextCall, Types
  <2>2. \A v \in Threads \ {t} : Same(v)
    BY <1>7 DEF Include, NextCall, Types, Same
  <2>3. /\ pc[t] = "include" /\ pc'[t] = "call" /\ calls'[t] = calls[t] + 1
        /\ model'[t] = model[t] /\ target'[t] = target[t] /\ plain'[t] = plain[t]
        /\ temperature'[t] = (~plain[t] /\ model[t] \notin omit) /\ omit' = omit
    BY <1>7 DEF Include, NextCall, Types
  <2>4. calls[t] <= Bare(t) + Learned(t) /\ calls[t] \in Nat
    BY <2>3 DEF Local, Types
  <2>5. temperature'[t] <=> ~plain[t] /\ model[t] \notin omit
    BY <2>3
  <2>6. calls'[t] <= 1 + Bare(t)' + (IF temperature'[t] THEN 0 ELSE Learned(t)')
    BY <2>3, <2>4, <2>5 DEF Bare, Learned
  <2>7. ~plain'[t] /\ ~temperature'[t] => model'[t] \in Rejecting
    BY <2>3, <2>5 DEF Types
  <2>8. target'[t] = "arn" => model'[t] \in Profiled
    BY <2>3 DEF Local
  <2>9. Local(t)'
    BY <2>3, <2>6, <2>7, <2>8 DEF Local
  <2> QED BY <1>1, <2>1, <2>2, <2>3, <2>9
<1>8. ASSUME NEW t \in Threads, CallMissesProfile(t)
      PROVE  Types' /\ (\A v \in Threads : Local(v)') /\ omit \subseteq omit'
  <2>1. Types'
    BY <1>8 DEF CallMissesProfile, Types
  <2>2. \A v \in Threads \ {t} : Same(v)
    BY <1>8 DEF CallMissesProfile, Types, Same
  <2>3. /\ pc[t] = "call" /\ pc'[t] = "missed" /\ target[t] = "arn"
        /\ UNCHANGED <<omit, model, plain, target, temperature, calls>>
    BY <1>8 DEF CallMissesProfile, ProfileRefused, Types
  <2>4. Local(t)'
    BY <2>3 DEF Local, Bare, Learned
  <2> QED BY <1>1, <2>1, <2>2, <2>3, <2>4
<1>9. ASSUME NEW t \in Threads, MarkProfile(t)
      PROVE  Types' /\ (\A v \in Threads : Local(v)') /\ omit \subseteq omit'
  <2>1. pc[t] = "missed" /\ target[t] = "arn" /\ model[t] \in Profiled
    BY <1>9 DEF MarkProfile, Local
  <2>2. marked' \subseteq Profiled
    BY <1>9, <2>1 DEF MarkProfile, Types
  <2>3. invalidFor' \in [Models -> 0..Cooldown] /\ staleFailures' \in [Models -> Nat]
    BY <1>9 DEF MarkProfile, Types
  <2>4. Types'
    BY <1>9, <2>2, <2>3 DEF MarkProfile, Types
  <2>5. \A v \in Threads \ {t} : Same(v)
    BY <1>9 DEF MarkProfile, Types, Same
  <2>6. /\ pc'[t] = "include" /\ target'[t] = "bare"
        /\ UNCHANGED <<omit, model, plain, temperature, calls>>
    BY <1>9 DEF MarkProfile, Types
  <2>7. calls[t] <= 1 + (IF temperature[t] THEN 0 ELSE Learned(t)) /\ calls[t] \in Nat
    BY <2>1 DEF Local, Bare, Types
  <2>8. Local(t)'
    BY <2>6, <2>7 DEF Local, Bare, Learned
  <2> QED BY <1>1, <2>4, <2>5, <2>6, <2>8
<1>10. ASSUME NEW t \in Threads, CallMeetsRejection(t)
       PROVE  Types' /\ (\A v \in Threads : Local(v)') /\ omit \subseteq omit'
  <2>1. Types'
    BY <1>10 DEF CallMeetsRejection, Types
  <2>2. \A v \in Threads \ {t} : Same(v)
    BY <1>10 DEF CallMeetsRejection, Types, Same
  <2>3. /\ pc[t] = "call" /\ pc'[t] = "rejected" /\ temperature[t] /\ model[t] \in Rejecting
        /\ UNCHANGED <<omit, model, plain, target, temperature, calls>>
    BY <1>10 DEF CallMeetsRejection, TemperatureRefused, Types
  <2>4. Bare(t)' = Bare(t) /\ Bare(t) \in {0, 1} /\ calls[t] \in Nat
    BY <2>3 DEF Bare, Types
  <2>5. calls[t] <= 1 + Bare(t)
    BY <2>3, <2>4 DEF Local
  <2>6. Local(t)'
    BY <2>3, <2>4, <2>5 DEF Local
  <2> QED BY <1>1, <2>1, <2>2, <2>3, <2>6
<1>11. ASSUME NEW t \in Threads, LearnRejection(t)
       PROVE  Types' /\ (\A v \in Threads : Local(v)') /\ omit \subseteq omit'
  <2>1. pc[t] = "rejected" /\ model[t] \in Rejecting /\ calls[t] <= 1 + Bare(t) /\ calls[t] \in Nat
    BY <1>11 DEF LearnRejection, Local, Types
  <2>2. Types'
    BY <1>11, <2>1 DEF LearnRejection, NextCall, Types
  <2>3. \A v \in Threads \ {t} : Same(v)
    BY <1>11 DEF LearnRejection, NextCall, Types, Same
  <2>4. /\ pc'[t] = "call" /\ calls'[t] = calls[t] + 1 /\ ~temperature'[t]
        /\ omit' = omit \cup {model[t]} /\ UNCHANGED <<model, plain, target>>
    BY <1>11 DEF LearnRejection, NextCall, Types
  <2>5. Local(t)'
    BY <2>1, <2>4 DEF Local, Bare, Learned, Types
  <2> QED BY <1>1, <2>2, <2>3, <2>4, <2>5
<1>12. ASSUME NEW t \in Threads, CallEnds(t)
       PROVE  Types' /\ (\A v \in Threads : Local(v)') /\ omit \subseteq omit'
  <2>1. Types'
    BY <1>12 DEF CallEnds, Types
  <2>2. \A v \in Threads \ {t} : Same(v)
    BY <1>12 DEF CallEnds, Types, Same
  <2>3. Local(t)'
    BY <1>12 DEF CallEnds, Types, Local
  <2>4. omit' = omit
    BY <1>12 DEF CallEnds
  <2> QED BY <1>1, <2>1, <2>2, <2>3, <2>4
<1>13. CASE UNCHANGED vars
  BY <1>2, <1>13 DEF vars, Types, Same
<1> QED BY <1>3, <1>4, <1>5, <1>6, <1>7, <1>8, <1>9, <1>10, <1>11, <1>12, <1>13 DEF Next, Complete
-----------------------------------------------------------------------------
(* The bounds.                                                             *)

\* The sets the bounds count are sets of threads, and no thread of the first is one
\* of the second.
LEMMA CountedSets ==
    ASSUME NEW m \in Models
    PROVE  /\ Rejected(m) \in SUBSET Threads /\ Carrying(m) \in SUBSET Threads
           /\ Holding(m) \in SUBSET Threads
           /\ Rejected(m)' \in SUBSET Threads /\ Carrying(m)' \in SUBSET Threads
           /\ Holding(m)' \in SUBSET Threads
           /\ Rejected(m) \cap Carrying(m) = {}
BY DEF Rejected, Carrying, Holding

\* A bound on fewer threads is a bound.
LEMMA RejectionFrame ==
    ASSUME Types, RejectionInv, NEW m \in Models,
           rejections'[m] = rejections[m], m \in omit' <=> m \in omit,
           m \in omit => Carrying(m)' \subseteq Carrying(m),
           m \notin omit => Rejected(m) \subseteq Rejected(m)'
    PROVE  IF m \in omit' THEN rejections'[m] + Cardinality(Carrying(m)') <= Cardinality(Threads)
                          ELSE rejections'[m] <= Cardinality(Rejected(m)')
<1>1. rejections[m] \in Nat /\ Cardinality(Threads) \in Nat
  BY SomeThread DEF Types
<1>2. CASE m \in omit
  <2>1. /\ Cardinality(Carrying(m)) \in Nat /\ Cardinality(Carrying(m)') \in Nat
        /\ Cardinality(Carrying(m)') <= Cardinality(Carrying(m))
    BY <1>2, CountedSets, ThreadSets
  <2> QED BY <1>1, <1>2, <2>1 DEF RejectionInv
<1>3. CASE m \notin omit
  <2>1. /\ Cardinality(Rejected(m)) \in Nat /\ Cardinality(Rejected(m)') \in Nat
        /\ Cardinality(Rejected(m)) <= Cardinality(Rejected(m)')
    BY <1>3, CountedSets, ThreadSets
  <2> QED BY <1>1, <1>3, <2>1 DEF RejectionInv
<1> QED BY <1>2, <1>3

LEMMA CooldownFrame ==
    ASSUME Types, CooldownInv, NEW m \in Models,
           staleFailures'[m] = staleFailures[m], Cooling(m)' <=> Cooling(m),
           Cooling(m) => Holding(m)' \subseteq Holding(m)
    PROVE  IF Cooling(m)' THEN staleFailures'[m] + Cardinality(Holding(m)') < Cardinality(Threads)
                          ELSE staleFailures'[m] = 0
<1>1. staleFailures[m] \in Nat /\ Cardinality(Threads) \in Nat
  BY SomeThread DEF Types
<1>2. CASE Cooling(m)
  <2>1. /\ Cardinality(Holding(m)) \in Nat /\ Cardinality(Holding(m)') \in Nat
        /\ Cardinality(Holding(m)') <= Cardinality(Holding(m))
    BY <1>2, CountedSets, ThreadSets
  <2> QED BY <1>1, <1>2, <2>1 DEF CooldownInv
<1>3. CASE ~Cooling(m)
  BY <1>3 DEF CooldownInv
<1> QED BY <1>2, <1>3

\* Meeting the rejection, the thread leaves the callers for the rejected.
LEMMA MeetStep ==
    ASSUME Types, RejectionInv, NEW t \in Threads, CallMeetsRejection(t)
    PROVE  RejectionInv'
<1>1. /\ pc[t] = "call" /\ temperature[t] /\ model[t] \in Models
      /\ pc' = [pc EXCEPT ![t] = "rejected"]
      /\ rejections' = [rejections EXCEPT ![model[t]] = @ + 1]
      /\ UNCHANGED <<omit, model, temperature>>
  BY DEF CallMeetsRejection, TemperatureRefused, Types, shared, request
<1>2. ASSUME NEW m \in Models, m # model[t]
      PROVE  IF m \in omit' THEN rejections'[m] + Cardinality(Carrying(m)') <= Cardinality(Threads)
                            ELSE rejections'[m] <= Cardinality(Rejected(m)')
  <2>1. rejections'[m] = rejections[m] /\ omit' = omit
    BY <1>1, <1>2 DEF Types
  <2>2. Carrying(m)' \subseteq Carrying(m) /\ Rejected(m) \subseteq Rejected(m)'
    BY <1>1, <1>2 DEF Types, Carrying, Rejected
  <2> QED BY <2>1, <2>2, RejectionFrame
<1>3. ASSUME NEW m \in Models, m = model[t]
      PROVE  IF m \in omit' THEN rejections'[m] + Cardinality(Carrying(m)') <= Cardinality(Threads)
                            ELSE rejections'[m] <= Cardinality(Rejected(m)')
  <2>1. rejections'[m] = rejections[m] + 1 /\ rejections[m] \in Nat /\ omit' = omit
    BY <1>1, <1>3 DEF Types
  <2>2. CASE m \in omit
    <3>1. t \in Carrying(m) /\ Carrying(m)' = Carrying(m) \ {t}
      BY <1>1, <1>3 DEF Types, Carrying
    <3>2. Cardinality(Carrying(m)') = Cardinality(Carrying(m)) - 1
      BY <3>1, CountedSets, OneMoreOrLess
    <3>3. Cardinality(Carrying(m)) \in Nat /\ Cardinality(Threads) \in Nat
      BY CountedSets, ThreadSets, SomeThread
    <3> QED BY <2>1, <2>2, <3>2, <3>3 DEF RejectionInv
  <2>3. CASE m \notin omit
    <3>1. t \notin Rejected(m) /\ Rejected(m)' = Rejected(m) \cup {t}
      BY <1>1, <1>3 DEF Types, Rejected
    <3>2. Cardinality(Rejected(m)') = Cardinality(Rejected(m)) + 1
      BY <3>1, CountedSets, OneMoreOrLess
    <3>3. Cardinality(Rejected(m)) \in Nat
      BY CountedSets, ThreadSets
    <3> QED BY <2>1, <2>3, <3>2, <3>3 DEF RejectionInv
  <2> QED BY <2>2, <2>3
<1> QED BY <1>2, <1>3 DEF RejectionInv

\* Passing it on, the rejected stop being counted and the callers are what is left.
LEMMA LearnStep ==
    ASSUME Types, RejectionInv, NEW t \in Threads, LearnRejection(t)
    PROVE  RejectionInv'
<1>1. /\ pc[t] = "rejected" /\ model[t] \in Models
      /\ pc' = [pc EXCEPT ![t] = "call"] /\ temperature' = [temperature EXCEPT ![t] = FALSE]
      /\ omit' = omit \cup {model[t]} /\ UNCHANGED <<rejections, model>>
  BY DEF LearnRejection, NextCall, Types, history, request
<1>2. \A m \in Models : Carrying(m)' \subseteq Carrying(m)
  BY <1>1 DEF Types, Carrying
<1>3. ASSUME NEW m \in Models, m # model[t] \/ m \in omit
      PROVE  IF m \in omit' THEN rejections'[m] + Cardinality(Carrying(m)') <= Cardinality(Threads)
                            ELSE rejections'[m] <= Cardinality(Rejected(m)')
  <2>1. rejections'[m] = rejections[m] /\ (m \in omit' <=> m \in omit)
    BY <1>1, <1>3
  <2>2. m \notin omit => Rejected(m) \subseteq Rejected(m)'
    BY <1>1, <1>3 DEF Types, Rejected
  <2> QED BY <1>2, <2>1, <2>2, RejectionFrame
<1>4. ASSUME NEW m \in Models, m = model[t], m \notin omit
      PROVE  m \in omit' /\ rejections'[m] + Cardinality(Carrying(m)') <= Cardinality(Threads)
  <2>1. rejections'[m] = rejections[m] /\ m \in omit' /\ rejections[m] \in Nat
    BY <1>1, <1>4 DEF Types
  <2>2. rejections[m] <= Cardinality(Rejected(m))
    BY <1>4 DEF RejectionInv
  <2>3. /\ Rejected(m) \in SUBSET Threads /\ Carrying(m) \in SUBSET Threads
        /\ Carrying(m)' \in SUBSET Carrying(m) /\ Rejected(m) \cap Carrying(m) = {}
    BY <1>2, CountedSets
  <2>4. /\ IsFiniteSet(Rejected(m)) /\ IsFiniteSet(Carrying(m))
        /\ Cardinality(Rejected(m)) \in Nat /\ Cardinality(Carrying(m)) \in Nat
        /\ Cardinality(Carrying(m)') \in Nat
        /\ Cardinality(Carrying(m)') <= Cardinality(Carrying(m))
    BY <2>3, ThreadSets
  <2>5. Cardinality(Rejected(m) \cup Carrying(m)) =
            Cardinality(Rejected(m)) + Cardinality(Carrying(m)) - Cardinality({})
    BY <2>3, <2>4, FS_Union
  <2>6. Cardinality(Rejected(m) \cup Carrying(m)) <= Cardinality(Threads)
    <3>1. Rejected(m) \cup Carrying(m) \in SUBSET Threads
      BY <2>3
    <3> QED BY <3>1, ThreadSets
  <2> QED BY <2>1, <2>2, <2>4, <2>5, <2>6, SomeThread, FS_EmptySet
<1> QED BY <1>3, <1>4 DEF RejectionInv

LEMMA RejectionStep ==
    ASSUME Types, RejectionInv, [Next]_vars
    PROVE  RejectionInv'
<1> USE DEF shared, request, history
<1>1. ASSUME UNCHANGED <<omit, rejections>>,
             \A m \in Models : m \in omit => Carrying(m)' \subseteq Carrying(m),
             \A m \in Models : m \notin omit => Rejected(m) \subseteq Rejected(m)'
      PROVE  RejectionInv'
  BY <1>1, RejectionFrame DEF RejectionInv
<1>2. CASE UNCHANGED <<omit, rejections, pc, model, temperature>>
  BY <1>1, <1>2 DEF Carrying, Rejected
<1>3. CASE Tick \/ (\E m \in Profiled : ChangeProfile(m)) \/ UNCHANGED vars
  BY <1>2, <1>3 DEF Tick, ChangeProfile, vars
<1>4. ASSUME NEW t \in Threads, NEW p \in {"idle", "resolve", "include", "missed"},
             pc' = [pc EXCEPT ![t] = p], pc[t] # "rejected",
             \A v \in Threads \ {t} : model'[v] = model[v] /\ temperature'[v] = temperature[v],
             UNCHANGED <<omit, rejections>>
      PROVE  RejectionInv'
  <2>1. \A m \in Models : Carrying(m)' \subseteq Carrying(m) /\ Rejected(m) \subseteq Rejected(m)'
    BY <1>4 DEF Types, Carrying, Rejected
  <2> QED BY <1>1, <1>4, <2>1
<1>5. ASSUME NEW t \in Threads, NEW m \in Models, NEW p \in BOOLEAN, Begin(t, m, p)
      PROVE  RejectionInv'
  BY <1>4, <1>5 DEF Begin, Types
<1>6. ASSUME NEW t \in Threads, Resolve(t) \/ CallMissesProfile(t) \/ MarkProfile(t)
      PROVE  RejectionInv'
  BY <1>4, <1>6 DEF Resolve, CallMissesProfile, MarkProfile
<1>7. ASSUME NEW t \in Threads, CallEnds(t) PROVE RejectionInv'
  BY <1>4, <1>7 DEF CallEnds, Types
<1>8. ASSUME NEW t \in Threads, Include(t) PROVE RejectionInv'
  <2>1. /\ pc[t] = "include" /\ pc' = [pc EXCEPT ![t] = "call"] /\ UNCHANGED <<omit, rejections, model>>
        /\ model[t] \in omit => ~temperature'[t]
        /\ \A v \in Threads \ {t} : temperature'[v] = temperature[v]
    BY <1>8 DEF Include, NextCall, Types
  <2>2. \A m \in Models : m \in omit => Carrying(m)' \subseteq Carrying(m)
    BY <2>1 DEF Types, Carrying
  <2>3. \A m \in Models : Rejected(m) \subseteq Rejected(m)'
    BY <2>1 DEF Types, Rejected
  <2> QED BY <1>1, <2>1, <2>2, <2>3
<1>9. ASSUME NEW t \in Threads, CallMeetsRejection(t) PROVE RejectionInv'
  BY <1>9, MeetStep
<1>10. ASSUME NEW t \in Threads, LearnRejection(t) PROVE RejectionInv'
  BY <1>10, LearnStep
<1> QED BY <1>3, <1>5, <1>6, <1>7, <1>8, <1>9, <1>10 DEF Next, Complete

\* The first to meet a refused profile begins the cooldown, the others are counted
\* once each as they let go of it.
LEMMA MarkStep ==
    ASSUME Types, CooldownInv, NEW t \in Threads, Local(t), MarkProfile(t)
    PROVE  CooldownInv'
<1>1. /\ target[t] = "arn" /\ model[t] \in Models /\ model' = model
      /\ target' = [target EXCEPT ![t] = "bare"]
      /\ marked' = marked \cup {model[t]}
      /\ invalidFor' = [invalidFor EXCEPT ![model[t]] = 0]
      /\ staleFailures' = IF Cooling(model[t])
                             THEN [staleFailures EXCEPT ![model[t]] = @ + 1] ELSE staleFailures
  BY DEF MarkProfile, Local, Types, request
<1>2. ASSUME NEW m \in Models, m # model[t]
      PROVE  IF Cooling(m)' THEN staleFailures'[m] + Cardinality(Holding(m)') < Cardinality(Threads)
                            ELSE staleFailures'[m] = 0
  <2>1. staleFailures'[m] = staleFailures[m] /\ (Cooling(m)' <=> Cooling(m))
    BY <1>1, <1>2 DEF Types, Cooling
  <2>2. Holding(m)' \subseteq Holding(m)
    BY <1>1, <1>2 DEF Types, Holding
  <2> QED BY <2>1, <2>2, CooldownFrame
<1>3. ASSUME NEW m \in Models, m = model[t]
      PROVE  Cooling(m)' /\ staleFailures'[m] + Cardinality(Holding(m)') < Cardinality(Threads)
  <2>1. Cooling(m)'
    BY <1>1, <1>3, CooldownAssumption DEF Types, Cooling
  <2>2. t \in Holding(m) /\ Holding(m)' = Holding(m) \ {t}
    BY <1>1, <1>3 DEF Types, Holding
  <2>3. Cardinality(Holding(m)') = Cardinality(Holding(m)) - 1
    BY <2>2, CountedSets, OneMoreOrLess
  <2>4. /\ Cardinality(Holding(m)) \in Nat /\ Cardinality(Holding(m)) <= Cardinality(Threads)
        /\ Cardinality(Threads) \in Nat /\ staleFailures[m] \in Nat
    BY CountedSets, ThreadSets, SomeThread DEF Types
  <2>5. CASE Cooling(m)
    <3>1. staleFailures'[m] = staleFailures[m] + 1
      BY <1>1, <1>3, <2>5 DEF Types
    <3> QED BY <2>1, <2>3, <2>4, <2>5, <3>1 DEF CooldownInv
  <2>6. CASE ~Cooling(m)
    <3>1. staleFailures'[m] = 0
      BY <1>1, <1>3, <2>6 DEF CooldownInv
    <3> QED BY <2>1, <2>3, <2>4, <3>1
  <2> QED BY <2>5, <2>6
<1> QED BY <1>2, <1>3 DEF CooldownInv

LEMMA CooldownStep ==
    ASSUME Types, \A t \in Threads : Local(t), CooldownInv, [Next]_vars
    PROVE  CooldownInv'
<1> USE DEF shared, request, history
<1>1. ASSUME UNCHANGED <<marked, invalidFor, staleFailures>>,
             \A m \in Models : Cooling(m) => Holding(m)' \subseteq Holding(m)
      PROVE  CooldownInv'
  <2>1. \A m \in Models : Cooling(m)' <=> Cooling(m)
    BY <1>1 DEF Cooling
  <2> QED BY <1>1, <2>1, CooldownFrame DEF CooldownInv
<1>2. CASE Tick
  <2>1. ASSUME NEW m \in Models
        PROVE  IF Cooling(m)' THEN staleFailures'[m] + Cardinality(Holding(m)') < Cardinality(Threads)
                              ELSE staleFailures'[m] = 0
    <3>1. Holding(m)' = Holding(m) /\ marked' = marked
      BY <1>2 DEF Tick, Holding
    <3>2. invalidFor'[m] = (IF Cooling(m) THEN invalidFor[m] + 1 ELSE invalidFor[m])
          /\ staleFailures'[m] = (IF Cooling(m) /\ invalidFor[m] = Cooldown - 1 THEN 0 ELSE staleFailures[m])
          /\ invalidFor[m] \in 0..Cooldown
      BY <1>2 DEF Tick, Types
    <3>3. CASE Cooling(m) /\ invalidFor[m] # Cooldown - 1
      <4>1. Cooling(m)' /\ staleFailures'[m] = staleFailures[m]
        BY <3>1, <3>2, <3>3, CooldownAssumption DEF Cooling
      <4> QED BY <3>1, <3>3, <4>1, CooldownFrame
    <3>4. CASE Cooling(m) /\ invalidFor[m] = Cooldown - 1
      BY <3>1, <3>2, <3>4, CooldownAssumption DEF Cooling
    <3>5. CASE ~Cooling(m)
      BY <3>1, <3>2, <3>5 DEF Cooling, CooldownInv
    <3> QED BY <3>3, <3>4, <3>5
  <2> QED BY <2>1 DEF CooldownInv
<1>3. CASE UNCHANGED <<marked, invalidFor, staleFailures, target, model>>
  BY <1>1, <1>3 DEF Holding
<1>4. CASE (\E m \in Profiled : ChangeProfile(m)) \/ UNCHANGED vars
  BY <1>3, <1>4 DEF ChangeProfile, vars
<1>5. ASSUME NEW t \in Threads, Include(t) \/ CallMissesProfile(t) \/ CallMeetsRejection(t) \/ LearnRejection(t)
      PROVE  CooldownInv'
  BY <1>3, <1>5 DEF Include, CallMissesProfile, CallMeetsRejection, LearnRejection, NextCall
<1>6. ASSUME NEW t \in Threads, MarkProfile(t) PROVE CooldownInv'
  BY <1>6, MarkStep
<1>7. ASSUME NEW t \in Threads, Resolve(t) PROVE CooldownInv'
  <2>1. UNCHANGED <<marked, invalidFor, staleFailures, model>>
        /\ target' = [target EXCEPT ![t] = IF model[t] \in Profiled /\ ~Cooling(model[t])
                                              THEN "arn" ELSE "bare"]
    BY <1>7 DEF Resolve
  <2>2. \A m \in Models : Cooling(m) => Holding(m)' \subseteq Holding(m)
    BY <2>1 DEF Types, Holding
  <2> QED BY <1>1, <2>1, <2>2
<1>8. ASSUME NEW t \in Threads, CallEnds(t) PROVE CooldownInv'
  <2>1. UNCHANGED <<marked, invalidFor, staleFailures, model>>
        /\ target' = [target EXCEPT ![t] = "bare"]
    BY <1>8 DEF CallEnds
  <2>2. \A m \in Models : Holding(m)' \subseteq Holding(m)
    BY <2>1 DEF Types, Holding
  <2> QED BY <1>1, <2>1, <2>2
<1>9. ASSUME NEW t \in Threads, NEW k \in Models, NEW p \in BOOLEAN, Begin(t, k, p)
      PROVE  CooldownInv'
  <2>1. UNCHANGED <<marked, invalidFor, staleFailures, target>>
        /\ model' = [model EXCEPT ![t] = k] /\ target[t] # "arn"
    BY <1>9 DEF Begin, Local
  <2>2. \A m \in Models : Holding(m)' \subseteq Holding(m)
    BY <2>1 DEF Types, Holding
  <2> QED BY <1>1, <2>1, <2>2
<1> QED BY <1>2, <1>4, <1>5, <1>6, <1>7, <1>8, <1>9 DEF Next, Complete
-----------------------------------------------------------------------------
(* The invariant holds.                                                    *)

LEMMA InitInv ==
    ASSUME Init
    PROVE  IInv
<1>1. Types
  BY CooldownAssumption DEF Init, Types
<1>2. \A t \in Threads : Local(t)
  BY DEF Init, Local
<1>3. RejectionInv
  <2>1. ASSUME NEW m \in Models PROVE m \notin omit /\ rejections[m] <= Cardinality(Rejected(m))
    <3>1. Cardinality(Rejected(m)) \in Nat
      BY CountedSets, ThreadSets
    <3> QED BY <3>1 DEF Init
  <2> QED BY <2>1 DEF RejectionInv
<1>4. CooldownInv
  BY DEF Init, CooldownInv, Cooling
<1> QED BY <1>1, <1>2, <1>3, <1>4 DEF IInv

\* The invariant behind the properties below.
THEOREM Invariance == Spec => []IInv
<1>1. Init => IInv
  BY InitInv
<1>2. IInv /\ [Next]_vars => IInv'
  BY LocalStep, RejectionStep, CooldownStep DEF IInv
<1> QED BY <1>1, <1>2, PTL DEF Spec

\* Type correctness: no request makes more than three backend calls, in whatever
\* order its profile and its temperature are refused and whatever others learn.
THEOREM TypeCorrect == Spec => []TypeOK
<1>1. IInv => TypeOK
  <2> SUFFICES ASSUME IInv PROVE TypeOK
    OBVIOUS
  <2>1. ASSUME NEW t \in Threads PROVE calls[t] \in 0..3
    <3>1. Local(t) /\ calls[t] \in Nat /\ Bare(t) \in {0, 1} /\ Learned(t) \in {0, 1}
          /\ pc[t] \in {"idle", "resolve", "include", "call", "missed", "rejected"}
      BY DEF IInv, Types, Bare, Learned
    <3> QED BY <3>1 DEF Local
  <2>2. omit \subseteq Models
    BY ModelsAssumption DEF IInv, Types
  <2> QED BY <2>1, <2>2 DEF IInv, Types, TypeOK
<1> QED BY <1>1, Invariance, PTL

\* A request loses its temperature only if its own model rejects one.
THEOREM TemperatureKept == Spec => []OthersKeepTemperature
<1>1. IInv => OthersKeepTemperature
  BY DEF IInv, Local, OthersKeepTemperature
<1> QED BY <1>1, Invariance, PTL

\* However many threads there are, a model's rejection costs at most one failed call
\* for each.
THEOREM RejectionsLimited == Spec => []RejectionsBounded
<1>1. IInv => RejectionsBounded
  <2> SUFFICES ASSUME IInv, NEW m \in Models PROVE rejections[m] <= Cardinality(Threads)
    BY DEF RejectionsBounded
  <2>1. /\ Cardinality(Carrying(m)) \in Nat /\ Cardinality(Rejected(m)) \in Nat
        /\ Cardinality(Rejected(m)) <= Cardinality(Threads)
        /\ Cardinality(Threads) \in Nat /\ rejections[m] \in Nat
    BY CountedSets, ThreadSets, SomeThread DEF IInv, Types
  <2> QED BY <2>1 DEF IInv, RejectionInv
<1> QED BY <1>1, Invariance, PTL

\* However many threads hold a refused profile, extending its mark never lets a
\* thread fail with it twice in a cooldown.
THEOREM CooldownLimits == Spec => []CooldownLimitsFailures
<1>1. IInv => CooldownLimitsFailures
  <2> SUFFICES ASSUME IInv, NEW m \in Models PROVE staleFailures[m] < Cardinality(Threads)
    BY DEF CooldownLimitsFailures
  <2>1. /\ Cardinality(Holding(m)) \in Nat /\ staleFailures[m] \in Nat
        /\ Cardinality(Threads) \in Nat \ {0}
    BY CountedSets, ThreadSets, SomeThread DEF IInv, Types
  <2> QED BY <2>1 DEF IInv, CooldownInv
<1> QED BY <1>1, Invariance, PTL
=============================================================================

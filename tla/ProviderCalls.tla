----------------------------- MODULE ProviderCalls -----------------------------
(***************************************************************************)
(* providers/base.py and providers/bedrock.py: what complete() does with   *)
(* one request, run by several row threads that share one provider object. *)
(* The threads share what it has learned: the models that reject a         *)
(* temperature, and the models whose inference profile was refused lately. *)
(*                                                                         *)
(* A provider without profiles (AnthropicMessagesProvider: Vertex and      *)
(* Foundry) is the instance with Profiled = {}.  Every read or write of    *)
(* shared state, and every call of the backend, is a step of its own.      *)
(***************************************************************************)
EXTENDS Naturals, FiniteSets

CONSTANTS
    Threads,        \* the pool threads of BatchExecutor
    Models,
    Profiled,       \* models with an entry in BEDROCK_INFERENCE_PROFILES
    Rejecting,      \* models whose backend rejects a custom temperature
    Cooldown        \* _PROFILE_ARN_COOLDOWN_SECONDS, in ticks

ASSUME ThreadsAssumption == IsFiniteSet(Threads) /\ Threads # {}
ASSUME ModelsAssumption == Profiled \subseteq Models /\ Rejecting \subseteq Models
ASSUME CooldownAssumption == Cooldown \in Nat \ {0}

VARIABLES
    (* the provider object *)
    omit,           \* _omit_temperature
    marked,         \* the keys of _profile_invalid_since
    invalidFor,     \* ticks since _profile_invalid_since[m]
    (* the backend *)
    validProfile,   \* the models whose profile ARN Bedrock accepts at present
    (* each thread *)
    pc,             \* where complete is
    model,          \* the request's model
    plain,          \* omits_temperature: a thinking or JSON-outputs request
    target,         \* resolved_model of the _converse under way: "arn" or "bare"
    temperature,    \* include_temperature of the call under way
    calls,          \* backend calls made for this request, the one under way included
    (* history *)
    rejections,     \* rejections[m]: calls that failed for their temperature
    staleFailures   \* staleFailures[m]: profile failures since the first of a cooldown

shared == <<omit, marked, invalidFor>>
request == <<model, plain>>
history == <<rejections, staleFailures>>
vars == <<omit, marked, invalidFor, validProfile, pc, model, plain, target, temperature,
          calls, rejections, staleFailures>>

Cooling(m) == m \in marked /\ invalidFor[m] < Cooldown

-----------------------------------------------------------------------------
(* Around the provider.                                                    *)

\* Time passes: a mark that has cooled off stays in the dict, as old as it needs
\* to be.
Tick ==
    /\ invalidFor' = [m \in Models |-> IF Cooling(m) THEN invalidFor[m] + 1
                                                     ELSE invalidFor[m]]
    /\ staleFailures' = [m \in Models |->
                            IF Cooling(m) /\ invalidFor[m] = Cooldown - 1 THEN 0 ELSE staleFailures[m]]
    /\ UNCHANGED <<omit, marked, validProfile, pc, request, target, temperature, calls, rejections>>

\* Someone deletes, recreates, unshares or shares again the profile of m.
ChangeProfile(m) ==
    /\ validProfile' = IF m \in validProfile THEN validProfile \ {m}
                                             ELSE validProfile \cup {m}
    /\ UNCHANGED <<shared, pc, request, target, temperature, calls, history>>

\* The executor's thread t calls complete with a request for model m.
Begin(t, m, p) ==
    /\ pc[t] = "idle"
    /\ pc' = [pc EXCEPT ![t] = "resolve"]
    /\ model' = [model EXCEPT ![t] = m]
    /\ plain' = [plain EXCEPT ![t] = p]
    /\ UNCHANGED <<shared, validProfile, target, temperature, calls, history>>

-----------------------------------------------------------------------------
(* complete.                                                               *)

\* Mutant of Resolve: a profile once refused is never tried again.
ResolveNeverAgain(t) ==
    /\ pc[t] = "resolve"
    /\ target' = [target EXCEPT ![t] =
                    IF model[t] \in Profiled /\ model[t] \notin marked
                        THEN "arn" ELSE "bare"]
    /\ pc' = [pc EXCEPT ![t] = "include"]
    /\ UNCHANGED <<shared, validProfile, request, temperature, calls, history>>

\* Mutant of Resolve: the cooldown is not looked at.
ResolveAlways(t) ==
    /\ pc[t] = "resolve"
    /\ target' = [target EXCEPT ![t] = IF model[t] \in Profiled THEN "arn" ELSE "bare"]
    /\ pc' = [pc EXCEPT ![t] = "include"]
    /\ UNCHANGED <<shared, validProfile, request, temperature, calls, history>>

\* _resolve_profile
Resolve(t) ==
    /\ pc[t] = "resolve"
    /\ target' = [target EXCEPT ![t] =
                    IF model[t] \in Profiled /\ ~Cooling(model[t]) THEN "arn" ELSE "bare"]
    /\ pc' = [pc EXCEPT ![t] = "include"]
    /\ UNCHANGED <<shared, validProfile, request, temperature, calls, history>>

NextCall(t) ==
    /\ pc' = [pc EXCEPT ![t] = "call"]
    /\ calls' = [calls EXCEPT ![t] = @ + 1]

\* Mutant of Include: one model's rejection counts for all.
IncludeProcessWide(t) ==
    /\ pc[t] = "include"
    /\ temperature' = [temperature EXCEPT ![t] = ~plain[t] /\ omit = {}]
    /\ NextCall(t)
    /\ UNCHANGED <<shared, validProfile, request, target, history>>

\* _complete_with_temperature_fallback chooses whether to send the temperature.
Include(t) ==
    /\ pc[t] = "include"
    /\ temperature' = [temperature EXCEPT ![t] = ~plain[t] /\ model[t] \notin omit]
    /\ NextCall(t)
    /\ UNCHANGED <<shared, validProfile, request, target, history>>

\* What the backend may refuse the call under way for, in either order.
ProfileRefused(t) == target[t] = "arn" /\ model[t] \notin validProfile
TemperatureRefused(t) == temperature[t] /\ model[t] \in Rejecting

\* ResourceNotFoundException on the profile ARN: the thread has the exception.
CallMissesProfile(t) ==
    /\ pc[t] = "call"
    /\ ProfileRefused(t)
    /\ pc' = [pc EXCEPT ![t] = "missed"]
    /\ UNCHANGED <<shared, validProfile, request, target, temperature, calls, history>>

\* The model's profile is marked and the request sent again to the bare model id.
MarkProfile(t) ==
    /\ pc[t] = "missed"
    /\ marked' = marked \cup {model[t]}
    /\ invalidFor' = [invalidFor EXCEPT ![model[t]] = 0]
    /\ staleFailures' = IF Cooling(model[t])
                           THEN [staleFailures EXCEPT ![model[t]] = @ + 1]
                           ELSE staleFailures
    /\ target' = [target EXCEPT ![t] = "bare"]
    /\ pc' = [pc EXCEPT ![t] = "include"]
    /\ UNCHANGED <<omit, validProfile, request, temperature, calls, rejections>>

CallMeetsRejection(t) ==
    /\ pc[t] = "call"
    /\ TemperatureRefused(t)
    /\ rejections' = [rejections EXCEPT ![model[t]] = @ + 1]
    /\ pc' = [pc EXCEPT ![t] = "rejected"]
    /\ UNCHANGED <<shared, validProfile, request, target, temperature, calls, staleFailures>>

\* Mutant of LearnRejection: the model is not remembered.
ForgetRejection(t) ==
    /\ pc[t] = "rejected"
    /\ temperature' = [temperature EXCEPT ![t] = FALSE]
    /\ NextCall(t)
    /\ UNCHANGED <<shared, validProfile, request, target, history>>

\* Mutant of LearnRejection: the resolved id is remembered instead of the model's,
\* which is what Include looks up.
LearnResolved(t) ==
    /\ pc[t] = "rejected"
    /\ omit' = IF target[t] = "bare" THEN omit \cup {model[t]} ELSE omit
    /\ temperature' = [temperature EXCEPT ![t] = FALSE]
    /\ NextCall(t)
    /\ UNCHANGED <<marked, invalidFor, validProfile, request, target, history>>

\* The model is remembered and the same call made again without a temperature.
LearnRejection(t) ==
    /\ pc[t] = "rejected"
    /\ omit' = omit \cup {model[t]}
    /\ temperature' = [temperature EXCEPT ![t] = FALSE]
    /\ NextCall(t)
    /\ UNCHANGED <<marked, invalidFor, validProfile, request, target, history>>

\* The reply, or any other error (throttling, a timeout, denied access, a model
\* that does not exist), ends complete and its local variables; the executor may
\* call it again.
CallEnds(t) ==
    /\ pc[t] = "call"
    /\ pc' = [pc EXCEPT ![t] = "idle"]
    /\ plain' = [plain EXCEPT ![t] = FALSE]
    /\ target' = [target EXCEPT ![t] = "bare"]
    /\ temperature' = [temperature EXCEPT ![t] = FALSE]
    /\ calls' = [calls EXCEPT ![t] = 0]
    /\ UNCHANGED <<shared, validProfile, model, history>>

-----------------------------------------------------------------------------
Init ==
    /\ omit = {}
    /\ marked = {}
    /\ invalidFor = [m \in Models |-> 0]
    /\ validProfile \in SUBSET Profiled
    /\ pc = [t \in Threads |-> "idle"]
    /\ model \in [Threads -> Models]
    /\ plain = [t \in Threads |-> FALSE]
    /\ target = [t \in Threads |-> "bare"]
    /\ temperature = [t \in Threads |-> FALSE]
    /\ calls = [t \in Threads |-> 0]
    /\ rejections = [m \in Models |-> 0]
    /\ staleFailures = [m \in Models |-> 0]

Complete(t) ==
    \/ Resolve(t) \/ Include(t)
    \/ CallMissesProfile(t) \/ MarkProfile(t)
    \/ CallMeetsRejection(t) \/ LearnRejection(t)
    \/ CallEnds(t)

Next ==
    \/ Tick
    \/ \E m \in Profiled : ChangeProfile(m)
    \/ \E t \in Threads : Complete(t) \/ \E m \in Models, p \in BOOLEAN : Begin(t, m, p)

\* Time passes and complete runs on; requests need not keep coming.
Fairness == WF_vars(Tick) /\ \A t \in Threads : WF_vars(Complete(t))

Spec == Init /\ [][Next]_vars /\ Fairness

-----------------------------------------------------------------------------
\* No request makes more than three backend calls: the profile and the
\* temperature can each be refused once, in either order.
TypeOK ==
    /\ omit \subseteq Models
    /\ marked \subseteq Profiled
    /\ invalidFor \in [Models -> 0..Cooldown]
    /\ validProfile \subseteq Profiled
    /\ pc \in [Threads -> {"idle", "resolve", "include", "call", "missed", "rejected"}]
    /\ model \in [Threads -> Models]
    /\ plain \in [Threads -> BOOLEAN]
    /\ target \in [Threads -> {"arn", "bare"}]
    /\ temperature \in [Threads -> BOOLEAN]
    /\ calls \in [Threads -> 0..3]
    /\ rejections \in [Models -> Nat]
    /\ staleFailures \in [Models -> Nat]

\* Only models that reject a temperature lose it: what one model taught the
\* provider never strips determinism from another (base.py, _omit_temperature).
OthersKeepTemperature ==
    \A t \in Threads : pc[t] = "call" /\ ~plain[t] /\ ~temperature[t] => model[t] \in Rejecting

\* A model's rejection is learned once for all threads: at most the threads that
\* had read the set before can still run into it.
RejectionsBounded == \A m \in Models : rejections[m] <= Cardinality(Threads)

\* During a cooldown the refused profile costs at most one more failed call for
\* each other thread, the ones that had resolved it before; extending the mark
\* does not keep the failures going.
CooldownLimitsFailures ==
    \A m \in Models : staleFailures[m] < Cardinality(Threads)

\* Cost attribution comes back by itself: if from some point on a model's profile
\* is valid and requests for it keep coming, its profile is used again and again.
AttributionResumes ==
    \A m \in Profiled :
        (<>[](m \in validProfile)
            /\ []<>(\E t \in Threads : pc[t] = "resolve" /\ model[t] = m))
        => []<>(\E t \in Threads : pc[t] = "call" /\ model[t] = m /\ target[t] = "arn")
=============================================================================

---------------------------- MODULE Startup_proofs ----------------------------
(***************************************************************************)
(* Proofs about Startup, for any texts a setting may have, any models and  *)
(* ARNs, any number of entries in the map and of faults.  What one start   *)
(* found is still true when the loop uses it: the environment and the      *)
(* image change only with a roll-out, and that starts the process anew.    *)
(***************************************************************************)
EXTENDS Startup, WellFoundedInduction, TLAPS

Started == pc \in {"connect", "create_provider"} \/ Serving

\* What the process has established by the time it is where it is.
StartedInv ==
    /\ Started => AcceptsConfig
    /\ pc = "load_provider" => AcceptsConfig
    /\ Started /\ provider = "bedrock" => profiles = InferenceProfiles(mapping)
    /\ Serving => Imports(provider) \subseteq Ships(image)
    /\ batch # "passed over"

IInv == TypeOK /\ StartedInv

-----------------------------------------------------------------------------
(* Model references and the map.                                           *)

\* A set of indices that is not empty has a last one.
LEMMA LastIndex ==
    ASSUME NEW n \in Nat, NEW T \in SUBSET (1..n), T # {}
    PROVE  \E i \in T : \A j \in T : j <= i
<1> DEFINE left == {n - i : i \in T}
<1>1. left \subseteq Nat /\ left # {}
  <2>1. \A i \in T : n - i \in Nat
    OBVIOUS
  <2>2. PICK i \in T : TRUE
    OBVIOUS
  <2>3. n - i \in left
    OBVIOUS
  <2> QED BY <2>1, <2>3
<1>2. PICK x \in left : \A y \in left : ~ (<<y, x>> \in OpToRel(<, Nat))
  BY <1>1, WFMin, NatLessThanWellFounded
<1>3. \A y \in left : ~ (y < x)
  BY <1>1, <1>2 DEF OpToRel
<1>4. PICK i \in T : x = n - i
  OBVIOUS
<1>5. ASSUME NEW j \in T PROVE j <= i
  <2>1. n - j \in left
    OBVIOUS
  <2> QED BY <1>3, <1>4, <2>1
<1> QED BY <1>5

\* What is left of a prefixed reference is its bare id.
LEMMA TailOfPair == ASSUME NEW a, NEW b PROVE Tail(<<a, b>>) = <<b>>
OBVIOUS

\* A reference, bare or with a prefix, resolves to the bare id at its end.
LEMMA Resolved ==
    ASSUME NEW ref \in ModelRefs
    PROVE  ResolveModelRef(ref) = <<ref[Len(ref)]>>
<1>1. CASE ref \in {<<id>> : id \in ModelIds}
  BY <1>1 DEF ResolveModelRef
<1>2. CASE ref \in {<<p, id>> : p \in Prefixes, id \in ModelIds}
  <2>1. PICK p \in Prefixes, id \in ModelIds : ref = <<p, id>>
    BY <1>2
  <2>2. Tail(ref) = <<id>>
    BY <2>1, TailOfPair
  <2> QED BY <2>1, <2>2 DEF ResolveModelRef
<1> QED BY <1>1, <1>2 DEF ModelRefs

Arns == {i \in DOMAIN mapping : mapping[i].value # "not an ARN"}

\* The entries of the map have positions, and their keys are references.
LEMMA MappingShape ==
    ASSUME mapping \in Mappings
    PROVE  /\ \E n \in Nat : DOMAIN mapping = 1..n
           /\ \A i \in DOMAIN mapping : mapping[i].key \in ModelRefs
<1>1. PICK k \in 0..MaxEntries :
         mapping \in [1..k -> [key : ModelRefs, value : ProfileARNs \cup {"not an ARN"}]]
  BY DEF Mappings
<1>2. DOMAIN mapping = 1..k /\ k \in Nat
  <2>1. k \in Nat
    BY BoundsAssumption
  <2> QED BY <1>1, <2>1
<1>3. \A i \in 1..k : mapping[i] \in [key : ModelRefs, value : ProfileARNs \cup {"not an ARN"}]
  BY <1>1
<1>4. \A i \in 1..k : mapping[i].key \in ModelRefs
  BY <1>3
<1> QED BY <1>2, <1>4

\* The map has the models that have an ARN, each with an ARN given for it.
LEMMA LaterEntryStays ==
    ASSUME mapping \in Mappings
    PROVE  /\ DOMAIN InferenceProfiles(mapping) = {ResolveModelRef(mapping[i].key) : i \in Arns}
           /\ \A m \in DOMAIN InferenceProfiles(mapping) :
                 \E i \in Arns : /\ ResolveModelRef(mapping[i].key) = m
                                 /\ InferenceProfiles(mapping)[m] = mapping[i].value
<1> DEFINE model(i) == ResolveModelRef(mapping[i].key)
           Last(m, i) == /\ model(i) = m
                         /\ \A j \in Arns : model(j) = m => j <= i
<1>1. InferenceProfiles(mapping) = [m \in {model(i) : i \in Arns} |->
                              mapping[CHOOSE i \in Arns : Last(m, i)].value]
  BY DEF InferenceProfiles, Arns
<1>2. ASSUME NEW m \in {model(i) : i \in Arns} PROVE \E i \in Arns : Last(m, i)
  <2> DEFINE T == {i \in Arns : model(i) = m}
  <2>1. PICK n \in Nat : DOMAIN mapping = 1..n
    BY MappingShape
  <2>2. T \in SUBSET (1..n) /\ T # {}
    BY <2>1 DEF Arns
  <2>3. PICK i \in T : \A j \in T : j <= i
    BY <2>2, LastIndex
  <2> QED BY <2>3
<1>3. ASSUME NEW m \in {model(i) : i \in Arns}
      PROVE  \E i \in Arns : model(i) = m /\ InferenceProfiles(mapping)[m] = mapping[i].value
  <2> DEFINE last == CHOOSE i \in Arns : Last(m, i)
  <2>1. last \in Arns /\ Last(m, last)
    BY <1>2
  <2>2. InferenceProfiles(mapping)[m] = mapping[last].value
    BY <1>1
  <2> QED BY <2>1, <2>2
<1> QED BY <1>1, <1>3

\* A bare id tells two references of the same model.
LEMMA SameModel ==
    ASSUME NEW a \in ModelRefs, NEW b \in ModelRefs
    PROVE  ResolveModelRef(a) = ResolveModelRef(b) <=> a[Len(a)] = b[Len(b)]
BY Resolved

-----------------------------------------------------------------------------
(* The invariant.                                                          *)

\* A roll-out leaves a setting that may be there at the start as well.
LEMMA PlainIsSetting ==
    /\ PlainEnvs \subseteq Envs
    /\ <<>> \in Mappings
<1>1. <<>> \in [1..0 -> [key : ModelRefs, value : ProfileARNs \cup {"not an ARN"}]]
  OBVIOUS
<1>2. 0 \in 0..MaxEntries /\ \A i, j \in DOMAIN <<>> : i = j
  BY BoundsAssumption
<1>3. <<>> \in Mappings
  BY <1>1, <1>2 DEF Mappings
<1> QED BY <1>3 DEF Envs

\* A process that was just deployed has nothing yet to be right or wrong about.
LEMMA InitInv == Init => IInv
<1> SUFFICES ASSUME Init PROVE IInv
  OBVIOUS
<1>1. env \in Envs /\ mapping \in Mappings
  BY PlainIsSetting DEF Init
<1> QED BY <1>1, BoundsAssumption DEF Init, IInv, TypeOK, StartedInv, Started, Serving

\* What load_config accepts depends on the environment alone.
LEMMA ConfigKept == ASSUME UNCHANGED env PROVE AcceptsConfig' <=> AcceptsConfig
BY DEF AcceptsConfig

\* The steps of main.run, up to the loop and in it.
LEMMA RunInv == ASSUME IInv, Run PROVE IInv'
<1> USE DEF IInv, deployment, Goto, Fail, Started, Serving
<1>1. CASE LoadConfig
  <2>1. TypeOK'
    BY <1>1 DEF LoadConfig, TypeOK
  <2>2. StartedInv'
    BY <1>1, ConfigKept DEF LoadConfig, StartedInv
  <2> QED BY <2>1, <2>2
<1>2. CASE LoadProviderConfig
  <2>1. TypeOK'
    BY <1>2 DEF LoadProviderConfig, TypeOK
  <2>2. StartedInv'
    BY <1>2, ConfigKept DEF LoadProviderConfig, StartedInv
  <2> QED BY <2>1, <2>2
<1>3. CASE Connect
  <2>1. TypeOK'
    BY <1>3 DEF Connect, TypeOK
  <2>2. StartedInv'
    BY <1>3, ConfigKept DEF Connect, StartedInv
  <2> QED BY <2>1, <2>2
<1>4. CASE CreateProvider
  <2>1. TypeOK'
    BY <1>4 DEF CreateProvider, TypeOK
  <2>2. StartedInv'
    BY <1>4, ConfigKept DEF CreateProvider, StartedInv
  <2> QED BY <2>1, <2>2
<1>5. CASE Publish \/ Poll \/ Sleep
  <2>1. TypeOK'
    BY <1>5 DEF Publish, Poll, Sleep, TypeOK
  <2>2. StartedInv'
    BY <1>5, ConfigKept DEF Publish, Poll, Sleep, StartedInv
  <2> QED BY <2>1, <2>2
<1>6. CASE Process
  <2>1. env["BATCH_PAGE_SIZE"] # "zero"
    BY <1>6 DEF Process, StartedInv, AcceptsConfig, AcceptsInt, IntSettings
  <2>2. TypeOK'
    BY <1>6 DEF Process, TypeOK
  <2>3. StartedInv'
    BY <1>6, <2>1, ConfigKept DEF Process, StartedInv
  <2> QED BY <2>2, <2>3
<1>7. CASE Restart
  <2>1. TypeOK'
    BY <1>7 DEF Restart, Begin, TypeOK
  <2>2. StartedInv'
    BY <1>7 DEF Restart, Begin, StartedInv
  <2> QED BY <2>1, <2>2
<1> QED BY <1>1, <1>2, <1>3, <1>4, <1>5, <1>6, <1>7 DEF Run

\* What happens around the process.
LEMMA FaultInv ==
    ASSUME IInv, Kill \/ Outage \/ Recover \/ Redeploy \/ UNCHANGED vars
    PROVE  IInv'
<1> USE DEF IInv, deployment, Started, Serving
<1>1. Fault => faults' \in 0..MaxFaults
  <2>1. faults \in 0..MaxFaults
    BY DEF TypeOK
  <2> QED BY <2>1, BoundsAssumption DEF Fault
<1>2. CASE Kill
  BY <1>1, <1>2 DEF Kill, Begin, TypeOK, StartedInv
<1>3. CASE Outage \/ Recover \/ UNCHANGED vars
  <2>1. TypeOK'
    BY <1>1, <1>3 DEF Outage, Recover, vars, TypeOK
  <2>2. StartedInv'
    BY <1>3, ConfigKept DEF Outage, Recover, vars, StartedInv
  <2> QED BY <2>1, <2>2
<1>4. CASE Redeploy
  BY <1>1, <1>4, PlainIsSetting DEF Redeploy, Begin, TypeOK, StartedInv
<1> QED BY <1>2, <1>3, <1>4

\* The inductive invariant of a start.
THEOREM Invariance == Spec => []IInv
<1>1. IInv /\ [Next]_vars => IInv'
  BY RunInv, FaultInv DEF Next
<1> QED BY InitInv, <1>1, PTL DEF Spec

\* Every variable has its type, and a process past the registry has a registered provider.
THEOREM TypeCorrect == Spec => []TypeOK
BY Invariance, PTL DEF IInv

\* Whatever the map's entries are, a row's model is invoked through an ARN given for it if
\* there is one, however the key and the row's reference are prefixed.
THEOREM MappedModels == Spec => []MappedModelsAttributed
<1>1. IInv => MappedModelsAttributed
  <2> SUFFICES ASSUME IInv, Serving, provider = "bedrock", NEW ref \in ModelRefs
               PROVE  LET given == {mapping[i].value : i \in {j \in DOMAIN mapping :
                                        mapping[j].key[Len(mapping[j].key)] = ref[Len(ref)]}}
                                   \ {"not an ARN"}
                      IN IF given = {} THEN Invoked(ref) = "bare" ELSE Invoked(ref) \in given
    BY DEF MappedModelsAttributed
  <2> DEFINE same == {j \in DOMAIN mapping :
                         mapping[j].key[Len(mapping[j].key)] = ref[Len(ref)]}
             given == {mapping[i].value : i \in same} \ {"not an ARN"}
             model == ResolveModelRef(ref)
  <2>1. mapping \in Mappings /\ profiles = InferenceProfiles(mapping)
    BY DEF IInv, TypeOK, StartedInv, Started
  <2>2. \A i \in DOMAIN mapping : i \in same <=> ResolveModelRef(mapping[i].key) = model
    BY <2>1, MappingShape, SameModel
  <2>3. CASE model \in DOMAIN profiles
    <3>1. PICK i \in Arns : /\ ResolveModelRef(mapping[i].key) = model
                            /\ profiles[model] = mapping[i].value
      BY <2>1, <2>3, LaterEntryStays
    <3>2. i \in same /\ mapping[i].value # "not an ARN"
      BY <2>2, <3>1 DEF Arns
    <3>3. Invoked(ref) \in given
      BY <2>3, <3>1, <3>2 DEF Invoked
    <3> QED BY <3>3
  <2>4. CASE model \notin DOMAIN profiles
    <3>1. \A i \in same : i \notin Arns
      BY <2>1, <2>2, <2>4, LaterEntryStays
    <3>2. given = {}
      BY <3>1 DEF Arns
    <3> QED BY <2>4, <3>2 DEF Invoked
  <2> QED BY <2>3, <2>4
<1> QED BY Invariance, <1>1, PTL

\* Only Process makes a batch one of failed rows.
LEMMA WhoFails ==
    ASSUME IInv, Next, batch' = "failed", batch # "failed"
    PROVE  /\ Process /\ ~(Packaged /\ Timed)
           /\ provider \in Providers /\ Imports(provider) \subseteq Ships(image)
<1>1. Process
  BY DEF Next, Run, LoadConfig, LoadProviderConfig, Connect, CreateProvider, Publish, Poll,
         Sleep, Restart, Kill, Outage, Recover, Redeploy
<1>2. ~(Packaged /\ Timed)
  BY <1>1 DEF Process
<1>3. provider \in Providers /\ Imports(provider) \subseteq Ships(image)
  BY <1>1 DEF Process, IInv, TypeOK, StartedInv, Serving
<1> QED BY <1>1, <1>2, <1>3

\* An adapter can be built and yet not make a call on one image only.
LEMMA WhereCallsWant ==
    ASSUME image \in {"aws", "gcp", "azure"}, provider \in Providers,
           Imports(provider) \subseteq Ships(image), ~Packaged
    PROVE  provider = "vertex" /\ image = "azure"
<1>1. provider = "vertex"
  BY DEF Providers, Packaged, CallImports
<1>2. CASE image = "aws"
  BY <1>1, <1>2 DEF Imports, Ships
<1>3. CASE image = "gcp"
  BY <1>1, <1>3 DEF Packaged, Imports, CallImports, Ships
<1> QED BY <1>1, <1>2, <1>3

\* Whatever is rolled out, killed and restarted, only a provider whose adapter the image
\* can build is published, and only Vertex on the azure image fails rows for a package.
THEOREM PublishedBuilt == Spec => PublishedHasAdapter
<1> DEFINE Built == published' # published => Imports(published') \subseteq Ships(image)
           Wanting == batch' = "failed" /\ batch # "failed" /\ Timed =>
                         provider = "vertex" /\ image = "azure"
<1>1. IInv /\ [Next]_vars => [Built /\ Wanting]_vars
  <2> SUFFICES ASSUME IInv, Next PROVE Built /\ Wanting
    OBVIOUS
  <2>1. Built
    BY DEF IInv, StartedInv, Serving, Next, Run, LoadConfig, LoadProviderConfig, Connect,
           CreateProvider, Publish, Poll, Process, Sleep, Restart, Kill, Outage, Recover,
           Redeploy
  <2>2. Wanting
    BY WhoFails, WhereCallsWant DEF IInv, TypeOK
  <2> QED BY <2>1, <2>2
<1> QED BY Invariance, <1>1, PTL DEF Spec, PublishedHasAdapter

\* Whatever the environment says, what load_config accepts keeps the loop running and no
\* batch is passed over or fails for a setting, but for seconds that cannot be waited.
THEOREM AcceptedWork == Spec => AcceptedSettingsWork
<1> DEFINE Works == Serving =>
               /\ batch' # "passed over"
               /\ pc' = "crashed" => env["POLL_INTERVAL"] \in Unwaitable
               /\ batch' = "failed" /\ batch # "failed" /\ Packaged =>
                     env[Timeout] \in Unwaitable
<1>1. IInv /\ [Next]_vars => [Works]_vars
  <2> SUFFICES ASSUME IInv, Next, Serving
               PROVE  Works
    BY DEF Works
  <2>1. batch' # "passed over"
    BY RunInv, FaultInv DEF IInv, StartedInv, Next
  <2>2. AcceptsInt(env["BATCH_PAGE_SIZE"]) /\ AcceptsInt(env["MAX_WORKERS"])
    BY DEF IInv, StartedInv, Started, AcceptsConfig, IntSettings
  <2>3. ASSUME pc' = "crashed" PROVE env["POLL_INTERVAL"] \in Unwaitable
    BY <2>2, <2>3 DEF Serving, AcceptsInt, Next, Run, LoadConfig, LoadProviderConfig,
       Connect, CreateProvider, Publish, Poll, Process, Sleep, Restart, Kill, Outage,
       Recover, Redeploy, Begin, Goto
  <2>4. batch' = "failed" /\ batch # "failed" /\ Packaged => env[Timeout] \in Unwaitable
    BY WhoFails DEF Timed
  <2> QED BY <2>1, <2>3, <2>4
<1> QED BY Invariance, <1>1, PTL DEF Spec, AcceptedSettingsWork
=============================================================================

------------------------------ MODULE Startup ------------------------------
(***************************************************************************)
(* From a deployment to a serving worker: config.py, providers/__init__.py *)
(* and main.py: run read the environment, look up the provider, connect to *)
(* ClickHouse and build the adapter, each of which may end the process;    *)
(* Kubernetes starts it again.  What was accepted then drives the loop.    *)
(*                                                                         *)
(* The text of a setting stands for what int() and float() make of it:     *)
(* "many" for a number of an ordinary size, "1e10" for one that only       *)
(* float() reads and that is more seconds than Python can wait.  A model   *)
(* reference is the sequence of its prefixes and the bare id.              *)
(***************************************************************************)
EXTENDS Naturals, Sequences

CONSTANTS
    Texts,          \* bound: what the one setting out of the ordinary may say
    ModelIds,       \* bare ids of models
    ProfileARNs,    \* ARNs of inference profiles
    MaxEntries,     \* bound: entries of BEDROCK_INFERENCE_PROFILES
    MaxFaults       \* bound: roll-outs, outages and kills in a behaviour

ASSUME TextsAssumption ==
    Texts \subseteq {"empty", "junk", "zero", "one", "many", "nan", "inf", "1e10"}
ASSUME ARNsAssumption == ProfileARNs \cap {"not an ARN", "bare"} = {}
ASSUME BoundsAssumption == MaxEntries \in Nat /\ MaxFaults \in Nat

VARIABLES
    image,          \* the image variant that was deployed
    env,            \* its environment variables
    mapping,        \* the dict in BEDROCK_INFERENCE_PROFILES: its entries, in order
    reachable,      \* ClickHouse answers
    pc,             \* where the worker process is
    provider,       \* provider_config, by its provider name; "none" before
    profiles,       \* BedrockConfig.inference_profiles
    published,      \* the provider in llm_worker_info
    batch,          \* a batch of rows: "pending", then "answered" (each row called
                    \* for and recorded), "failed" (no call could be made and each row
                    \* is recorded as failed) or "passed over"
    faults

deployment == <<image, env, mapping>>
vars == <<image, env, mapping, reachable, pc, provider, profiles, published,
          batch, faults>>

-----------------------------------------------------------------------------
(* The environment.                                                        *)

IntSettings == {"CH_PORT", "MAX_WORKERS", "RETRY_MAX_ATTEMPTS", "RETRY_MAX_BACKOFF",
                "PENDING_BATCH_LIMIT", "BATCH_PAGE_SIZE"}

Project == "ANTHROPIC_VERTEX_PROJECT_ID"
Resource == "ANTHROPIC_FOUNDRY_RESOURCE"
Timeout == "LLM_REQUEST_TIMEOUT_SECONDS"
Profiles == "BEDROCK_INFERENCE_PROFILES"

Settings == IntSettings \cup {"POLL_INTERVAL", Timeout, Project, Resource, Profiles}

Providers == {"bedrock", "vertex", "foundry"}

\* Mutant of AcceptsInt: the lower bound is not checked.
AcceptsIntUnbounded(text) == text \in {"unset", "zero", "one", "many"}

\* Mutant of AcceptsInt: the lower bound itself is refused.
AcceptsIntAbove(text) == text \in {"unset", "many"}

\* _parse_env_int with its minimum of 1; the defaults are all larger.
AcceptsInt(text) == text \in {"unset", "one", "many"}

\* _parse_env_float: "nan" parses, and nan < min_val is false; nothing is too much.
AcceptsFloat(text) == text \in {"unset", "one", "many", "nan", "inf", "1e10"}

\* Neither time.sleep nor a socket takes these for a number of seconds.
Unwaitable == {"nan", "inf", "1e10"}

\* _require_env
AcceptsRequired(text) == text \notin {"unset", "empty"}

\* _parse_env_json_str_map: "" is an empty map and a JSON object is what mapping
\* holds; anything else is refused.
AcceptsMap(text) == text \in {"unset", "empty"}

\* load_config
AcceptsConfig ==
    /\ \A s \in IntSettings : AcceptsInt(env[s])
    /\ AcceptsFloat(env["POLL_INTERVAL"])

\* resolve_model_ref strips one of these, the first.
Prefixes == {"mc:", "provider:"}

ResolveModelRef(ref) ==
    IF Len(ref) > 1 /\ Head(ref) \in Prefixes THEN Tail(ref) ELSE ref

\* Mutant of InferenceProfiles: the keys are taken as they are written.
InferenceProfilesVerbatim(map) ==
    LET arns == {i \in DOMAIN map : map[i].value # "not an ARN"}
    IN [m \in {map[i].key : i \in arns} |->
           LET last == CHOOSE i \in arns :
                   /\ map[i].key = m
                   /\ \A j \in arns : map[j].key = m => j <= i
           IN map[last].value]

\* load_bedrock_config: entries that are no ARN are skipped, the keys stripped;
\* of two keys for one model the later one stays.
InferenceProfiles(map) ==
    LET arns == {i \in DOMAIN map : map[i].value # "not an ARN"}
        model(i) == ResolveModelRef(map[i].key)
    IN [m \in {model(i) : i \in arns} |->
           LET last == CHOOSE i \in arns :
                   /\ model(i) = m
                   /\ \A j \in arns : model(j) = m => j <= i
           IN map[last].value]

\* The config_loader of each registered provider.
AcceptsProvider(p) ==
    CASE p = "bedrock" -> AcceptsMap(env[Profiles])
      [] p = "vertex"  -> AcceptsRequired(env[Project]) /\ AcceptsFloat(env[Timeout])
      [] p = "foundry" -> AcceptsRequired(env[Resource]) /\ AcceptsFloat(env[Timeout])

\* pyproject.toml: the SDK packages of an image variant; ...
Ships(i) ==
    CASE i = "aws"   -> {"boto3"}
      [] i = "gcp"   -> {"anthropic", "google-auth"}
      [] i = "azure" -> {"anthropic", "azure-identity"}

\* ... what building an adapter imports; ...
Imports(p) ==
    CASE p = "bedrock" -> {"boto3"}
      [] p = "vertex"  -> {"anthropic"}
      [] p = "foundry" -> {"anthropic", "azure-identity"}

\* ... and what its client imports when it is first called: AnthropicVertex
\* loads google.auth with the credentials.
CallImports(p) == IF p = "vertex" THEN {"google-auth"} ELSE {}

\* A call that wants for a package, or that no socket can time, raises something other
\* than the backend's answer; invoke records the row as failed.
Packaged == Imports(provider) \cup CallImports(provider) \subseteq Ships(image)
Timed == provider \in {"vertex", "foundry"} => env[Timeout] \notin Unwaitable

-----------------------------------------------------------------------------
(* main.run                                                                *)

Fault == faults < MaxFaults /\ faults' = faults + 1

Goto(place) == pc' = place

Fail == Goto("crashed") /\ UNCHANGED <<provider, profiles>>

LoadConfig ==
    /\ pc = "load_config"
    /\ \/ AcceptsConfig /\ Goto("load_provider") /\ UNCHANGED <<provider, profiles>>
       \/ ~AcceptsConfig /\ Fail
    /\ UNCHANGED <<deployment, reachable, published, batch, faults>>

Selected == IF env["LLM_PROVIDER"] = "unset" THEN "bedrock" ELSE env["LLM_PROVIDER"]

\* Mutant of LoadProviderConfig: a name the registry does not have is let through.
LoadProviderConfigUnchecked ==
    /\ pc = "load_provider"
    /\ provider' = Selected
    /\ profiles' = InferenceProfiles(mapping)
    /\ Goto("connect")
    /\ UNCHANGED <<deployment, reachable, published, batch, faults>>

\* load_provider_config(LLM_PROVIDER): the registry's loader for that name.
LoadProviderConfig ==
    /\ pc = "load_provider"
    /\ IF Selected \in Providers /\ AcceptsProvider(Selected)
          THEN /\ provider' = Selected
               /\ profiles' = IF Selected = "bedrock" THEN InferenceProfiles(mapping) ELSE <<>>
               /\ Goto("connect")
          ELSE Fail
    /\ UNCHANGED <<deployment, reachable, published, batch, faults>>

\* ClickHouseClient: get_client asks the server for its version.
Connect ==
    /\ pc = "connect"
    /\ \/ reachable /\ Goto("create_provider") /\ UNCHANGED <<provider, profiles>>
       \/ ~reachable /\ Fail
    /\ UNCHANGED <<deployment, reachable, published, batch, faults>>

\* Mutant of CreateProvider: a missing SDK is left to the first call.
CreateProviderLazily ==
    /\ pc = "create_provider"
    /\ Goto("publish")
    /\ UNCHANGED <<deployment, reachable, provider, profiles, published, batch, faults>>

\* create_provider turns an ImportError into a RuntimeError.
CreateProvider ==
    /\ pc = "create_provider"
    /\ \/ /\ Imports(provider) \subseteq Ships(image)
          /\ Goto("publish")
          /\ UNCHANGED <<provider, profiles>>
       \/ ~(Imports(provider) \subseteq Ships(image)) /\ Fail
    /\ UNCHANGED <<deployment, reachable, published, batch, faults>>

\* The loop publishes, best effort (WorkerInfo has its clock), ...
Publish ==
    /\ pc = "publish"
    /\ published' = IF reachable THEN provider ELSE published
    /\ Goto("poll")
    /\ UNCHANGED <<deployment, reachable, provider, profiles, batch, faults>>

\* ... polls, at most PENDING_BATCH_LIMIT batches, ...
Poll ==
    /\ pc = "poll"
    /\ IF reachable /\ batch = "pending" /\ env["PENDING_BATCH_LIMIT"] # "zero"
          THEN Goto("process") ELSE Goto("sleep")
    /\ UNCHANGED <<deployment, reachable, provider, profiles, published, batch, faults>>

\* ... processes a batch until a page of it is empty: a LIMIT of 0 is an empty
\* page, and a pool of no threads cannot be built.  Where no call can be made, the
\* rows are answered for with failures, ...
Process ==
    LET rows == env["BATCH_PAGE_SIZE"] # "zero"
        pool == env["MAX_WORKERS"] # "zero"
    IN
    /\ pc = "process"
    /\ \/ ~reachable /\ Goto("sleep") /\ UNCHANGED batch
       \/ /\ reachable
          /\ Goto(IF rows => pool THEN "publish" ELSE "crashed")
          /\ batch' = CASE ~rows         -> "passed over"
                        [] rows /\ ~pool -> batch
                        [] OTHER         -> IF Packaged /\ Timed THEN "answered" ELSE "failed"
    /\ UNCHANGED <<deployment, reachable, provider, profiles, published, faults>>

\* ... and sleeps: time.sleep may raise, and the loop handles no error but ClickHouse's.
Sleep ==
    /\ pc = "sleep"
    /\ Goto(IF env["POLL_INTERVAL"] \in Unwaitable THEN "crashed" ELSE "publish")
    /\ UNCHANGED <<deployment, reachable, provider, profiles, published, batch, faults>>

-----------------------------------------------------------------------------
(* Around the process.                                                     *)

Begin == pc' = "load_config" /\ provider' = "none" /\ profiles' = <<>>

\* Kubernetes restarts a container that ended.
Restart ==
    /\ pc = "crashed"
    /\ Begin
    /\ UNCHANGED <<deployment, reachable, published, batch, faults>>

Kill ==
    /\ pc # "load_config"
    /\ Fault
    /\ Begin
    /\ UNCHANGED <<deployment, reachable, published, batch>>

Outage ==
    /\ Fault
    /\ reachable
    /\ reachable' = FALSE
    /\ UNCHANGED <<deployment, pc, provider, profiles, published, batch>>

Recover ==
    /\ ~reachable
    /\ reachable' = TRUE
    /\ UNCHANGED <<deployment, pc, provider, profiles, published, batch, faults>>

\* A provider is selected and configured, and nothing else is set.
PlainEnvs ==
    {[s \in Settings \cup {"LLM_PROVIDER"} |->
        CASE s = "LLM_PROVIDER"                     -> p
          [] s = Project /\ p = "vertex"            -> "many"
          [] s = Resource /\ p = "foundry"          -> "many"
          [] OTHER                                  -> "unset"]
     : p \in Providers \cup {"unset", "junk"}}

\* One setting more, or one fewer, than that.
Envs ==
    PlainEnvs \cup {[e EXCEPT ![s] = text] :
                       e \in PlainEnvs, s \in Settings, text \in Texts \cup {"unset"}}

\* Keys and rows name a model with or without a prefix.
ModelRefs == {<<id>> : id \in ModelIds} \cup {<<p, id>> : p \in Prefixes, id \in ModelIds}

Mappings ==
    {e \in UNION {[1..k -> [key : ModelRefs, value : ProfileARNs \cup {"not an ARN"}]]
                     : k \in 0..MaxEntries} :
        \A i, j \in DOMAIN e : e[i].key = e[j].key => i = j}

\* A roll-out of another image or another provider.
Redeploy ==
    /\ Fault
    /\ image' \in {"aws", "gcp", "azure"}
    /\ env' \in PlainEnvs
    /\ mapping' = <<>>
    /\ Begin
    /\ UNCHANGED <<reachable, published, batch>>

Init ==
    /\ image \in {"aws", "gcp", "azure"}
    /\ \/ env \in Envs /\ mapping = <<>>
       \/ env \in PlainEnvs /\ mapping \in Mappings
    /\ reachable \in BOOLEAN
    /\ pc = "load_config"
    /\ provider = "none"
    /\ profiles = <<>>
    /\ published = "none"
    /\ batch = "pending"
    /\ faults = 0

Run ==
    \/ LoadConfig \/ LoadProviderConfig \/ Connect \/ CreateProvider
    \/ Publish \/ Poll \/ Process \/ Sleep \/ Restart

Next == Run \/ Kill \/ Outage \/ Recover \/ Redeploy

\* The process runs and is started again; ClickHouse need not come back.
Spec == Init /\ [][Next]_vars /\ WF_vars(Run)

-----------------------------------------------------------------------------
Serving == pc \in {"publish", "poll", "process", "sleep"}

TypeOK ==
    /\ image \in {"aws", "gcp", "azure"}
    /\ env \in Envs
    /\ mapping \in Mappings
    /\ reachable \in BOOLEAN
    /\ pc \in {"load_config", "load_provider", "connect", "create_provider", "publish",
               "poll", "process", "sleep", "crashed"}
    /\ provider \in Providers \cup {"none"}
    /\ pc \in {"connect", "create_provider"} \/ Serving => provider \in Providers
    /\ published \in Providers \cup {"none"}
    /\ batch \in {"pending", "answered", "failed", "passed over"}
    /\ faults \in 0..MaxFaults

\* The model a row is invoked with on Bedrock: complete and _resolve_profile.
Invoked(ref) ==
    LET model == ResolveModelRef(ref)
    IN IF model \in DOMAIN profiles THEN profiles[model] ELSE "bare"

\* A key may be given bare or with a prefix and so may a row's model_id (README.md):
\* a model with an ARN in the map is invoked through an ARN given for it, and only
\* such a model.
MappedModelsAttributed ==
    Serving /\ provider = "bedrock" =>
        \A ref \in ModelRefs :
            LET given == {mapping[i].value : i \in {j \in DOMAIN mapping :
                              mapping[j].key[Len(mapping[j].key)] = ref[Len(ref)]}}
                         \ {"not an ARN"}
            IN IF given = {} THEN Invoked(ref) = "bare" ELSE Invoked(ref) \in given

\* Roll-outs of any provider on any image, kills and restarts: llm_worker_info never
\* names a provider whose adapter that image could not even build, and no batch has all
\* its rows recorded as failed for want of a package.  Vertex on the azure image is the
\* exception: create_provider asks for what the adapter imports (providers/__init__.py:94),
\* which is there, and the first call for google.auth, which is not.
PublishedHasAdapter ==
    [][/\ published' # published => Imports(published') \subseteq Ships(image)
       /\ batch' = "failed" /\ batch # "failed" /\ Timed =>
             provider = "vertex" /\ image = "azure"]_vars

\* What an operator may expect to work: numbers from 1 up, the provider's own
\* variables, and an image with the provider's packages.
Sound ==
    /\ \A s \in IntSettings \cup {"POLL_INTERVAL", Timeout} : env[s] \in {"unset", "one", "many"}
    /\ Selected \in Providers
    /\ Selected = "bedrock" => env[Profiles] \in {"unset", "empty"}
    /\ Selected = "vertex" => env[Project] \notin {"unset", "empty"}
    /\ Selected = "foundry" => env[Resource] \notin {"unset", "empty"}
    /\ Imports(Selected) \cup CallImports(Selected) \subseteq Ships(image)

\* Once a sound deployment stays and ClickHouse stays reachable, the worker stops
\* restarting, whatever had been deployed before, and the batch is answered, unless one
\* that was not sound had already recorded its rows as failed.
SoundDeploymentServes ==
    <>[](Sound /\ reachable) => <>[](Serving /\ batch \in {"answered", "failed"})

\* What was accepted can be run with, whatever the environment says: no step of the loop
\* ends the process, which handles no error but ClickHouse's (main.py, run), no batch is
\* marked complete because the worker asked for pages of no rows (main.py,
\* process_single_batch), and none has its rows recorded as failed for a setting.  Numbers
\* of seconds that cannot be waited are the exception: _parse_env_float lets nan, inf and
\* 1e10 through, and neither time.sleep nor a socket does.
AcceptedSettingsWork ==
    [][Serving =>
          /\ batch' # "passed over"
          /\ pc' = "crashed" => env["POLL_INTERVAL"] \in Unwaitable
          /\ batch' = "failed" /\ batch # "failed" /\ Packaged =>
                env[Timeout] \in Unwaitable]_vars
=============================================================================

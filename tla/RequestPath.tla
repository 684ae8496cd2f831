------------------------------ MODULE RequestPath ------------------------------
(***************************************************************************)
(* contract.py and the pure halves of the providers: how one input row     *)
(* becomes a request, the request a call of the backend, and the reply the *)
(* envelope stored in llm_results, or the error a disposition.             *)
(*                                                                         *)
(* intent is what the monolith meant when it wrote the row; the properties *)
(* compare each stage with it.  JSON objects are records whose missing     *)
(* keys hold Absent; schemas and descriptions are not told apart.          *)
(***************************************************************************)
EXTENDS Naturals

CONSTANTS
    Names,          \* tool names
    Clouds,         \* adapters under check: {"bedrock", "messages"}
    MaxTools,       \* bound: tools of a row
    MaxBlocks       \* bound: blocks of a reply

ASSUME CloudsAssumption == Clouds \subseteq {"bedrock", "messages"}
ASSUME BoundsAssumption == MaxTools \in Nat /\ MaxBlocks \in Nat

VARIABLES stage, cloud, intent, row, request, call, reply, output, disposition

vars == <<stage, cloud, intent, row, request, call, reply, output, disposition>>

Absent == "absent"
Nothing == [none |-> TRUE]      \* a variable whose stage has not come

\* dict.get(key, default)
Get(value, default) == IF value = Absent THEN default ELSE value

-----------------------------------------------------------------------------
(* What the monolith writes.                                               *)

Intents == [cap         : {Absent, "100"},
            temperature : {Absent, "0.7"},
            tools       : UNION {[1..n -> Names \cup {""}] : n \in 0..MaxTools},
            forced      : Names \cup {Absent},
            format      : {Absent, "sound", "untyped"},
            thinking    : {Absent, "", "adaptive"},
            effort      : {Absent, "low"}]

\* A v0 row has maxTokens, toolSpec tools and a nested toolChoice; a v1 row the
\* flat keys.  During the migration each part may be in either spelling.
Spellings == [cap : {"v0", "v1"}, tools : {"v0", "v1"}, choice : {"v0", "v1"}]

ToolEntry(name, spelling) ==
    IF spelling = "v0" THEN [toolSpec |-> [name |-> name]] ELSE [name |-> name]

\* A tool choice is absent, a string, or an object with one of the keys a choice
\* may have.
Choice(kind, name) == [kind |-> kind, name |-> name]

Rendered(i, s) ==
    LET choice == CASE i.forced = Absent /\ s.choice = "v0" -> Choice("auto", Absent)
                    [] i.forced = Absent /\ s.choice = "v1" -> Choice("string", Absent)
                    [] i.forced # Absent /\ s.choice = "v0" -> Choice("tool", i.forced)
                    [] OTHER -> Choice("name", i.forced)
    IN [max_output_tokens |-> IF s.cap = "v1" THEN i.cap ELSE Absent,
        maxTokens         |-> IF s.cap = "v0" THEN i.cap ELSE Absent,
        temperature       |-> i.temperature,
        thinking          |-> i.thinking,
        effort            |-> i.effort,
        tools             |-> [k \in DOMAIN i.tools |-> ToolEntry(i.tools[k], s.tools)],
        tool_choice       |-> IF s.choice = "v1" THEN choice ELSE Choice(Absent, Absent),
        toolChoice        |-> IF s.choice = "v0" THEN choice ELSE Choice(Absent, Absent),
        output_format     |-> i.format]

-----------------------------------------------------------------------------
(* contract.py                                                             *)

MaxOutputTokens(r) == Get(r.max_output_tokens, Get(r.maxTokens, "512"))

\* _normalize_tool, as far as the name
ToolName(tool) == IF "toolSpec" \in DOMAIN tool THEN tool.toolSpec.name ELSE tool.name

\* Mutant of ForcedTool: only the v1 spelling is read.
ForcedToolFlat(r) == IF r.tool_choice.kind = "name" THEN r.tool_choice.name ELSE Absent

\* _normalize_tool_choice of tool_choice, or else of toolChoice
ForcedTool(r) ==
    LET choice == IF r.tool_choice.kind # Absent THEN r.tool_choice ELSE r.toolChoice
    IN  IF choice.kind \in {"tool", "name"} THEN choice.name ELSE Absent

\* build_request raises ValueError.
Raises(r) ==
    \/ \E k \in DOMAIN r.tools : ToolName(r.tools[k]) = ""
    \/ r.output_format = "untyped"
    \/ r.thinking = "" \/ r.effort = ""
    \/ r.output_format # Absent /\ r.tools # <<>>
    \/ r.thinking # Absent /\ ForcedTool(r) # Absent

\* build_request
ContractRequest(r) ==
    [max_output_tokens |-> MaxOutputTokens(r),
     temperature       |-> Get(r.temperature, "0.0"),
     tools             |-> [k \in DOMAIN r.tools |-> ToolName(r.tools[k])],
     forced_tool       |-> ForcedTool(r),
     output_format     |-> r.output_format,
     thinking          |-> r.thinking,
     effort            |-> r.effort]

-----------------------------------------------------------------------------
(* The adapters' requests.                                                 *)

Temperature(q, include) == IF include THEN q.temperature ELSE Absent

ToolChoiceOf(q) == IF q.tools # <<>> THEN q.forced_tool ELSE Absent

\* Mutant of ConverseCall: the refusal's details are not asked for.
ConverseCallBlind(q, include) ==
    [maxTokens   |-> q.max_output_tokens,
     temperature |-> Temperature(q, include),
     toolConfig  |-> [tools |-> q.tools, toolChoice |-> ToolChoiceOf(q)],
     textFormat  |-> q.output_format,
     responseFieldPaths |-> {},
     additional  |-> [thinking |-> q.thinking, effort |-> q.effort]]

\* bedrock.py: _build_converse_kwargs
ConverseCall(q, include) ==
    [maxTokens   |-> q.max_output_tokens,
     temperature |-> Temperature(q, include),
     toolConfig  |-> [tools |-> q.tools, toolChoice |-> ToolChoiceOf(q)],
     textFormat  |-> q.output_format,
     responseFieldPaths |-> IF q.output_format # Absent THEN {"stop_details"} ELSE {},
     additional  |-> [thinking |-> q.thinking, effort |-> q.effort]]

\* anthropic_messages.py: _build_kwargs
MessagesCall(q, include) ==
    [max_tokens    |-> q.max_output_tokens,
     temperature   |-> Temperature(q, include),
     tools         |-> q.tools,
     tool_choice   |-> ToolChoiceOf(q),
     output_config |-> [format |-> q.output_format, effort |-> q.effort],
     thinking      |-> q.thinking]

\* Mutant of OmitsTemperature: only thinking counts.
OmitsTemperatureThinking(q) == q.thinking # Absent

\* base.py: omits_temperature
OmitsTemperature(q) == q.thinking # Absent \/ q.output_format # Absent

\* What a backend is asked, whichever API carries it.
Asked ==
    IF cloud = "bedrock"
    THEN [cap |-> call.maxTokens, temperature |-> call.temperature,
          tools |-> call.toolConfig.tools, forced |-> call.toolConfig.toolChoice,
          format |-> call.textFormat,
          thinking |-> call.additional.thinking, effort |-> call.additional.effort]
    ELSE [cap |-> call.max_tokens, temperature |-> call.temperature,
          tools |-> call.tools, forced |-> call.tool_choice,
          format |-> call.output_config.format,
          thinking |-> call.thinking, effort |-> call.output_config.effort]

-----------------------------------------------------------------------------
(* Replies.                                                                *)

\* A reply is a sequence of blocks: text that is a JSON object, other text, empty
\* text, thinking or a tool call; and why it ended.  Backends name that in their
\* own ways, and only a refusal has a category.
Blocks == {"object", "prose", "empty", "thinking", "tool"}

\* A list of some of a reply's blocks, in their order, is the set of their positions.
Texts(blocks) == {k \in DOMAIN blocks : blocks[k] \in {"object", "prose", "empty"}}
ToolCalls(blocks) == {k \in DOMAIN blocks : blocks[k] = "tool"}
NotEmpty(blocks, texts) == {k \in texts : blocks[k] # "empty"}
LastOf(texts) == CHOOSE k \in texts : \A j \in texts : j <= k

Endings == [why : {"end_turn", "max_tokens", "guardrail"}, category : {Absent}]
               \cup [why : {"refusal"}, category : {Absent, "cyber"}]

\* Backends call no tool they were not given, and end no reply with empty text.
Replies ==
    {r \in [blocks : UNION {[1..n -> Blocks] : n \in 0..MaxBlocks}, ending : Endings] :
        /\ Asked.tools = <<>> => ToolCalls(r.blocks) = {}
        /\ Texts(r.blocks) # {} => r.blocks[LastOf(Texts(r.blocks))] # "empty"
        /\ cloud = "messages" => r.ending.why # "guardrail"}

\* Converse reports a refusal and a guardrail alike; the details of a refusal come
\* back in the fields it was asked for.
ConverseStop(ending) ==
    IF ending.why \in {"refusal", "guardrail"} THEN "content_filtered" ELSE ending.why
StopDetails(ending) ==
    IF ending.why = "refusal" /\ "stop_details" \in call.responseFieldPaths
        THEN [type |-> "refusal", category |-> ending.category]
        ELSE [type |-> Absent, category |-> Absent]

\* base.py: build_output; the two texts of result_error are not told apart.
BuildOutput(blocks, texts, tools, json, stop, category) ==
    LET object == texts # {} /\ blocks[LastOf(texts)] = "object"
        result == object /\ stop \in {"end_turn", "stop_sequence"}
        reason == json /\ ~result
    IN [output_text      |-> NotEmpty(blocks, texts),
        tool_uses        |-> IF ~json THEN tools ELSE IF result THEN {LastOf(texts)} ELSE {},
        stop_reason      |-> IF reason THEN stop ELSE Absent,
        refusal_category |-> IF reason THEN category ELSE Absent,
        result_error     |-> reason /\ stop # "refusal"]

\* bedrock.py: _extract_output, which leaves empty text out
ConverseOutput(r, json) ==
    LET details == StopDetails(r.ending)
        refused == details.type = "refusal"
    IN  BuildOutput(r.blocks, NotEmpty(r.blocks, Texts(r.blocks)), ToolCalls(r.blocks), json,
                    IF refused THEN "refusal" ELSE ConverseStop(r.ending),
                    details.category)

\* anthropic_messages.py: _to_llm_response
MessagesOutput(r, json) ==
    BuildOutput(r.blocks, Texts(r.blocks), ToolCalls(r.blocks), json,
                r.ending.why, r.ending.category)

-----------------------------------------------------------------------------
(* Errors.                                                                 *)

\* What goes wrong, as the classes either client reports it by: Bedrock's error codes and
\* botocore's exceptions, or the Anthropic client's.  Without credentials no request is
\* sent, and botocore's, google-auth's or azure-identity's exception comes out as it is.
Errors ==
    [throttled   |-> [bedrock |-> {"ThrottlingException"}, messages |-> {"RateLimitError"}],
     unavailable |-> [bedrock |-> {"InternalServerException", "ModelNotReadyException",
                                   "ServiceUnavailableException"},
                      messages |-> {"InternalServerError"}],
     overdue     |-> [bedrock |-> {"ModelTimeoutException", "ModelErrorException"},
                      messages |-> {"InternalServerError"}],
     timeout     |-> [bedrock |-> {"ReadTimeoutError", "ConnectTimeoutError"},
                      messages |-> {"APITimeoutError"}],
     unreachable |-> [bedrock |-> {"EndpointConnectionError", "ConnectionClosedError"},
                      messages |-> {"APIConnectionError"}],
     broken      |-> [bedrock |-> {"ProxyConnectionError", "SSLError"},
                      messages |-> {"APIConnectionError"}],
     invalid     |-> [bedrock |-> {"ValidationException"}, messages |-> {"BadRequestError"}],
     missing     |-> [bedrock |-> {"ResourceNotFoundException"},
                      messages |-> {"NotFoundError"}],
     forbidden   |-> [bedrock |-> {"AccessDeniedException"},
                      messages |-> {"PermissionDeniedError"}],
     expired     |-> [bedrock |-> {"ExpiredTokenException"},
                      messages |-> {"AuthenticationError"}],
     unknown_key |-> [bedrock |-> {"UnrecognizedClientException"},
                      messages |-> {"AuthenticationError"}],
     keyless     |-> [bedrock |-> {"NoCredentialsError", "CredentialRetrievalError"},
                      messages |-> {"RefreshError", "TransportError",
                                    "ClientAuthenticationError"}]]

\* Mutant of Classify: botocore's own exceptions are not looked at.
ClassifyCodesOnly(error) ==
    CASE error \in {"AccessDeniedException", "AuthenticationError", "PermissionDeniedError"}
            -> "abort_batch"
      [] error \in {"InternalServerException", "ModelNotReadyException",
                    "ServiceUnavailableException", "ThrottlingException",
                    "RateLimitError", "APIConnectionError", "APITimeoutError",
                    "InternalServerError"}
            -> "retry"
      [] OTHER -> "fail_row"

\* classify_error of both adapters
Classify(error) ==
    CASE error \in {"AccessDeniedException", "AuthenticationError", "PermissionDeniedError"}
            -> "abort_batch"
      [] error \in {"InternalServerException", "ModelNotReadyException",
                    "ServiceUnavailableException", "ThrottlingException",
                    "EndpointConnectionError", "ConnectTimeoutError",
                    "ReadTimeoutError", "ConnectionClosedError",
                    "RateLimitError", "APIConnectionError", "APITimeoutError",
                    "InternalServerError"}
            -> "retry"
      [] OTHER -> "fail_row"

-----------------------------------------------------------------------------
(* invoke, for one row.                                                    *)

\* The row does not make a request and fails.
RejectRow ==
    /\ stage = "row"
    /\ Raises(row)
    /\ stage' = "failed"
    /\ row' = Nothing
    /\ UNCHANGED <<cloud, intent, request, call, reply, output, disposition>>

Normalize ==
    /\ stage = "row"
    /\ ~Raises(row)
    /\ stage' = "request"
    /\ request' = ContractRequest(row)
    /\ row' = Nothing
    /\ UNCHANGED <<cloud, intent, call, reply, output, disposition>>

\* With the temperature, or without it once the model is known to reject one.
Send(include) ==
    /\ stage = "request"
    /\ OmitsTemperature(request) => ~include
    /\ stage' = "sent"
    /\ call' = IF cloud = "bedrock" THEN ConverseCall(request, include)
                                    ELSE MessagesCall(request, include)
    /\ UNCHANGED <<cloud, intent, row, request, reply, output, disposition>>

Receive ==
    /\ stage = "sent"
    /\ stage' = "complete"
    /\ \E r \in Replies :
        LET json == request.output_format # Absent
        IN  /\ reply' = r
            /\ output' = IF cloud = "bedrock" THEN ConverseOutput(r, json)
                                              ELSE MessagesOutput(r, json)
    /\ UNCHANGED <<cloud, intent, row, request, call, disposition>>

ReceiveError(e) ==
    /\ stage = "sent"
    /\ stage' = "error"
    /\ reply' = [error |-> e]
    /\ \E class \in Errors[e][cloud] : disposition' = Classify(class)
    /\ UNCHANGED <<cloud, intent, row, request, call, output>>

Init ==
    /\ stage = "row"
    /\ cloud \in Clouds
    /\ intent \in Intents
    /\ row \in {Rendered(intent, s) : s \in Spellings}
    /\ request = Nothing
    /\ call = Nothing
    /\ reply = Nothing
    /\ output = Nothing
    /\ disposition = Absent

Next ==
    \/ RejectRow
    \/ Normalize
    \/ \E include \in BOOLEAN : Send(include)
    \/ Receive
    \/ \E e \in DOMAIN Errors : ReceiveError(e)

Spec == Init /\ [][Next]_vars

-----------------------------------------------------------------------------
\* What the documented rules make of an intent (README.md, Request profiles).
Acceptable(i) ==
    /\ \A k \in DOMAIN i.tools : i.tools[k] # ""
    /\ i.format # "untyped" /\ i.thinking # ""
    /\ ~(i.format # Absent /\ i.tools # <<>>)
    /\ ~(i.thinking # Absent /\ i.forced # Absent)

\* Rows are read interchangeably in the v0 and the v1 spelling (contract.py): what
\* the backend is asked depends on what the monolith meant and on the learned
\* temperature, never on how a part was spelled or on which API carries it; and a
\* row fails exactly when what it asks for is not acceptable.
AskedAsMeant ==
    /\ stage = "failed" => ~Acceptable(intent)
    /\ stage = "sent" =>
        /\ Acceptable(intent)
        /\ [Asked EXCEPT !.temperature = Absent] =
              [cap |-> Get(intent.cap, "512"), temperature |-> Absent,
               tools |-> intent.tools,
               forced |-> IF intent.tools = <<>> THEN Absent ELSE intent.forced,
               format |-> intent.format, thinking |-> intent.thinking,
               effort |-> intent.effort]
        /\ Asked.temperature \in {Absent, Get(intent.temperature, "0.0")}

\* No call combines what a backend rejects: a temperature with thinking or a JSON
\* reply, tools with a JSON reply, a forced tool with thinking (README.md, Request
\* profiles).
NoRejectedCombination ==
    stage = "sent" =>
        /\ Asked.temperature # Absent => Asked.thinking = Absent /\ Asked.format = Absent
        /\ Asked.tools # <<>> => Asked.format = Absent
        /\ Asked.forced # Absent => Asked.thinking = Absent

Finished == reply.ending.why = "end_turn"
LastText == reply.blocks[LastOf(Texts(reply.blocks))]

\* A JSON reply is stored as tool_uses[0] exactly if it finished and is an object;
\* any other completes the row with the reason instead, and a refusal is told from
\* a guardrail's stop, with its category, on every cloud (base.py, build_output;
\* bedrock.py, _build_converse_kwargs).
ResultOrReason ==
    stage = "complete" /\ intent.format # Absent =>
        LET result == Finished /\ Texts(reply.blocks) # {} /\ LastText = "object"
        IN  /\ (output.tool_uses # {}) <=> result
            /\ (output.stop_reason # Absent) <=> ~result
            /\ (output.stop_reason = "refusal") <=> (reply.ending.why = "refusal")
            /\ output.refusal_category = reply.ending.category
            /\ output.result_error <=> (~result /\ reply.ending.why # "refusal")

\* What one call's failure is taken for (base.py, ErrorDisposition) depends on the failure,
\* not on the cloud or the class it comes as: what may pass is retried, within the row's
\* attempts; a backend's refusal of the worker's authority aborts; what lies in the row fails
\* the row.  Two things fall outside.  Four failures of Bedrock are in none of its lists and
\* fail one row after the other (bedrock.py:172), and so do credentials that cannot be had
\* before the call, on every cloud.
SameFailureSameDisposition ==
    stage = "error" =>
        LET unlisted == \/ cloud = "bedrock" /\ reply.error \in {"overdue", "broken",
                                                                 "expired", "unknown_key"}
                        \/ reply.error = "keyless"
        IN  disposition =
              CASE unlisted \/ reply.error \in {"invalid", "missing"} -> "fail_row"
                [] ~unlisted /\ reply.error \in {"throttled", "unavailable", "overdue",
                                                 "timeout", "unreachable", "broken"} -> "retry"
                [] OTHER -> "abort_batch"
=============================================================================

-------------------------- MODULE RequestPath_proofs --------------------------
(***************************************************************************)
(* Proofs about RequestPath, for any tool names, any number of tools in a  *)
(* row and of blocks in a reply.  A row in either spelling becomes the     *)
(* same request, Meant; what follows is read off that request, the call    *)
(* made of it and the reply.                                               *)
(***************************************************************************)
EXTENDS RequestPath, WellFoundedInduction, TLAPS

\* The request that stands for what the monolith meant.
Meant(i) ==
    [max_output_tokens |-> Get(i.cap, "512"),
     temperature       |-> Get(i.temperature, "0.0"),
     tools             |-> i.tools,
     forced_tool       |-> i.forced,
     output_format     |-> i.format,
     thinking          |-> i.thinking,
     effort            |-> i.effort]

CallOf(include) ==
    IF cloud = "bedrock" THEN ConverseCall(request, include) ELSE MessagesCall(request, include)

\* How far the row has come, and what every stage took from the one before.
IInv ==
    /\ cloud \in {"bedrock", "messages"} /\ intent \in Intents
    /\ stage \in {"row", "failed", "request", "sent", "complete", "error"}
    /\ stage = "row" => \E s \in Spellings : row = Rendered(intent, s)
    /\ stage = "failed" => ~Acceptable(intent)
    /\ stage \in {"request", "sent", "complete", "error"} =>
          Acceptable(intent) /\ request = Meant(intent)
    /\ stage \in {"sent", "complete", "error"} =>
          \E include \in BOOLEAN :
              (OmitsTemperature(request) => ~include) /\ call = CallOf(include)
    /\ stage = "complete" =>
          /\ reply \in Replies
          /\ output = (IF cloud = "bedrock"
                       THEN ConverseOutput(reply, request.output_format # Absent)
                       ELSE MessagesOutput(reply, request.output_format # Absent))

-----------------------------------------------------------------------------
(* One row, in any spelling.                                               *)

LEMMA ToolNameRead ==
    ASSUME NEW name, NEW spelling \in {"v0", "v1"}
    PROVE  ToolName(ToolEntry(name, spelling)) = name
<1>1. CASE spelling = "v0"
  BY <1>1 DEF ToolName, ToolEntry
<1>2. CASE spelling = "v1"
  BY <1>2 DEF ToolName, ToolEntry
<1> QED BY <1>1, <1>2

LEMMA ToolsAreList ==
    ASSUME NEW i \in Intents
    PROVE  i.tools = [k \in DOMAIN i.tools |-> i.tools[k]]
<1>1. PICK n \in 0..MaxTools : i.tools \in [1..n -> Names \cup {""}]
  BY DEF Intents
<1> QED BY <1>1

LEMMA EmptyList ==
    ASSUME NEW f, f = [k \in DOMAIN f |-> f[k]]
    PROVE  f = <<>> <=> DOMAIN f = {}
OBVIOUS

\* The parts of a rendered row, as build_request reads them.
LEMMA PartsRead ==
    ASSUME NEW i \in Intents, NEW s \in Spellings
    PROVE  /\ MaxOutputTokens(Rendered(i, s)) = Get(i.cap, "512")
           /\ ForcedTool(Rendered(i, s)) = i.forced
           /\ DOMAIN Rendered(i, s).tools = DOMAIN i.tools
           /\ \A k \in DOMAIN i.tools : ToolName(Rendered(i, s).tools[k]) = i.tools[k]
           /\ Rendered(i, s).tools # <<>> <=> i.tools # <<>>
           /\ Rendered(i, s).output_format = i.format
           /\ Rendered(i, s).thinking = i.thinking
           /\ Rendered(i, s).effort = i.effort
           /\ Rendered(i, s).temperature = i.temperature
<1> DEFINE r == Rendered(i, s)
<1>1. s.cap \in {"v0", "v1"} /\ s.tools \in {"v0", "v1"} /\ s.choice \in {"v0", "v1"}
  BY DEF Spellings
<1>2. MaxOutputTokens(r) = Get(i.cap, "512")
  BY <1>1 DEF MaxOutputTokens, Rendered, Get
<1>3. ForcedTool(r) = i.forced
  <2>1. CASE s.choice = "v0"
    BY <2>1 DEF ForcedTool, Rendered, Choice, Absent
  <2>2. CASE s.choice = "v1"
    BY <2>2 DEF ForcedTool, Rendered, Choice, Absent
  <2> QED BY <1>1, <2>1, <2>2
<1>4. r.tools = [k \in DOMAIN i.tools |-> ToolEntry(i.tools[k], s.tools)]
  BY DEF Rendered
<1>5. DOMAIN r.tools = DOMAIN i.tools
  BY <1>4
<1>6. \A k \in DOMAIN i.tools : ToolName(r.tools[k]) = i.tools[k]
  BY <1>1, <1>4, ToolNameRead
<1>7. r.tools # <<>> <=> i.tools # <<>>
  <2>1. r.tools = [k \in DOMAIN r.tools |-> r.tools[k]]
    BY <1>4
  <2>2. r.tools = <<>> <=> DOMAIN r.tools = {}
    <3> HIDE DEF r
    <3> QED BY <2>1, EmptyList
  <2>3. i.tools = <<>> <=> DOMAIN i.tools = {}
    BY ToolsAreList, EmptyList
  <2> QED BY <1>5, <2>2, <2>3
<1>8. /\ r.output_format = i.format
      /\ r.thinking = i.thinking
      /\ r.effort = i.effort
      /\ r.temperature = i.temperature
  BY DEF Rendered
<1> QED BY <1>2, <1>3, <1>5, <1>6, <1>7, <1>8

\* A row fails exactly when what it asks for is not acceptable.
LEMMA RaisesUnacceptable ==
    ASSUME NEW i \in Intents, NEW s \in Spellings
    PROVE  Raises(Rendered(i, s)) <=> ~Acceptable(i)
<1>1. i.effort # "" /\ "" # Absent
  BY DEF Intents, Absent
<1> DEFINE r == Rendered(i, s)
<1>2. /\ DOMAIN r.tools = DOMAIN i.tools
      /\ \A k \in DOMAIN i.tools : ToolName(r.tools[k]) = i.tools[k]
  BY PartsRead
<1>3. /\ r.output_format = i.format
      /\ r.thinking = i.thinking
      /\ r.effort = i.effort
      /\ ForcedTool(r) = i.forced
      /\ r.tools # <<>> <=> i.tools # <<>>
  BY PartsRead
<1> HIDE DEF r
<1>4. Raises(r) <=> ~Acceptable(i)
  BY <1>1, <1>2, <1>3 DEF Raises, Acceptable
<1> QED BY <1>4 DEF r

\* Rows are read interchangeably in every spelling.
LEMMA SpellingsAgree ==
    ASSUME NEW i \in Intents, NEW s \in Spellings
    PROVE  ContractRequest(Rendered(i, s)) = Meant(i)
<1>1. [k \in DOMAIN Rendered(i, s).tools |-> ToolName(Rendered(i, s).tools[k])] = i.tools
  BY PartsRead, ToolsAreList
<1> QED BY <1>1, PartsRead DEF ContractRequest, Meant

-----------------------------------------------------------------------------
(* The invariant.                                                          *)

LEMMA InitInv == Init => IInv
BY CloudsAssumption DEF Init, IInv

\* What a backend may reply depends on the call alone.
LEMMA RepliesKept == ASSUME UNCHANGED <<cloud, call>> PROVE Replies' = Replies
BY DEF Replies, Asked

LEMMA StepInv == ASSUME IInv, [Next]_vars PROVE IInv'
<1>1. CASE RejectRow
  BY <1>1, RaisesUnacceptable DEF RejectRow, IInv
<1>2. CASE Normalize
  BY <1>2, RaisesUnacceptable, SpellingsAgree DEF Normalize, IInv
<1>3. ASSUME NEW include \in BOOLEAN, Send(include) PROVE IInv'
  BY <1>3 DEF Send, IInv, CallOf
<1>4. CASE Receive
  <2>1. UNCHANGED <<cloud, intent, request, call>> /\ stage = "sent" /\ stage' = "complete"
    BY <1>4 DEF Receive
  <2>2. reply' \in Replies'
    BY <1>4, <2>1, RepliesKept DEF Receive
  <2>3. output' = (IF cloud = "bedrock"
                   THEN ConverseOutput(reply, request.output_format # Absent)
                   ELSE MessagesOutput(reply, request.output_format # Absent))'
    BY <1>4, <2>1 DEF Receive, ConverseOutput, MessagesOutput, StopDetails
  <2> QED BY <2>1, <2>2, <2>3 DEF IInv, CallOf
<1>5. ASSUME NEW e \in DOMAIN Errors, ReceiveError(e) PROVE IInv'
  BY <1>5 DEF ReceiveError, IInv, CallOf
<1>6. CASE UNCHANGED vars
  <2>1. UNCHANGED <<cloud, intent, request, call, reply, output, stage, row, disposition>>
    BY <1>6 DEF vars
  <2>2. Replies' = Replies
    BY <2>1, RepliesKept
  <2>3. stage = "complete" =>
          output' = (IF cloud = "bedrock"
                     THEN ConverseOutput(reply, request.output_format # Absent)
                     ELSE MessagesOutput(reply, request.output_format # Absent))'
    BY <2>1 DEF IInv, ConverseOutput, MessagesOutput, StopDetails
  <2> QED BY <2>1, <2>2, <2>3 DEF IInv, CallOf
<1> QED BY <1>1, <1>2, <1>3, <1>4, <1>5, <1>6 DEF Next

\* The inductive invariant of a row's way.
THEOREM Invariance == Spec => []IInv
BY InitInv, StepInv, PTL DEF Spec

-----------------------------------------------------------------------------
(* The call.                                                               *)

\* Whichever API carries a call, the backend is asked what the request says.
LEMMA AskedOfRequest ==
    ASSUME IInv, stage = "sent"
    PROVE  /\ Asked.cap = request.max_output_tokens
           /\ Asked.tools = request.tools
           /\ Asked.forced = ToolChoiceOf(request)
           /\ Asked.format = request.output_format
           /\ Asked.thinking = request.thinking
           /\ Asked.effort = request.effort
           /\ \/ Asked.temperature = Absent
              \/ Asked.temperature = request.temperature /\ ~OmitsTemperature(request)
           /\ Asked = [cap |-> Asked.cap, temperature |-> Asked.temperature,
                       tools |-> Asked.tools, forced |-> Asked.forced,
                       format |-> Asked.format, thinking |-> Asked.thinking,
                       effort |-> Asked.effort]
<1>1. PICK include \in BOOLEAN :
         (OmitsTemperature(request) => ~include) /\ call = CallOf(include)
  BY DEF IInv
<1>2. CASE cloud = "bedrock"
  BY <1>1, <1>2 DEF CallOf, ConverseCall, Asked, Temperature
<1>3. CASE cloud # "bedrock"
  BY <1>1, <1>3 DEF CallOf, MessagesCall, Asked, Temperature
<1> QED BY <1>2, <1>3

\* Whatever tools a row has and however its parts are spelled, the backend is asked what
\* the monolith meant, and only a row that is not acceptable fails.
THEOREM RowsReadAlike == Spec => []AskedAsMeant
<1>1. IInv => AskedAsMeant
  <2> SUFFICES ASSUME IInv PROVE AskedAsMeant
    OBVIOUS
  <2>1. stage = "failed" => ~Acceptable(intent)
    BY DEF IInv
  <2>2. ASSUME stage = "sent"
        PROVE  /\ Acceptable(intent)
               /\ [Asked EXCEPT !.temperature = Absent] =
                     [cap |-> Get(intent.cap, "512"), temperature |-> Absent,
                      tools |-> intent.tools,
                      forced |-> IF intent.tools = <<>> THEN Absent ELSE intent.forced,
                      format |-> intent.format, thinking |-> intent.thinking,
                      effort |-> intent.effort]
               /\ Asked.temperature \in {Absent, Get(intent.temperature, "0.0")}
    <3>1. Acceptable(intent) /\ request = Meant(intent)
      BY <2>2 DEF IInv
    <3>2. /\ Asked.cap = Get(intent.cap, "512")
          /\ Asked.tools = intent.tools
          /\ Asked.forced = IF intent.tools = <<>> THEN Absent ELSE intent.forced
          /\ Asked.format = intent.format
          /\ Asked.thinking = intent.thinking
          /\ Asked.effort = intent.effort
          /\ Asked.temperature \in {Absent, Get(intent.temperature, "0.0")}
      BY <2>2, <3>1, AskedOfRequest DEF Meant, ToolChoiceOf
    <3>3. Asked = [cap |-> Asked.cap, temperature |-> Asked.temperature,
                   tools |-> Asked.tools, forced |-> Asked.forced,
                   format |-> Asked.format, thinking |-> Asked.thinking,
                   effort |-> Asked.effort]
      BY <2>2, AskedOfRequest
    <3> QED BY <3>1, <3>2, <3>3
  <2> QED BY <2>1, <2>2 DEF AskedAsMeant
<1> QED BY Invariance, <1>1, PTL

\* Whatever a row asks for, no call combines what a backend rejects.
THEOREM CombinationsAvoided == Spec => []NoRejectedCombination
<1>1. IInv => NoRejectedCombination
  <2> SUFFICES ASSUME IInv, stage = "sent" PROVE NoRejectedCombination
    BY DEF NoRejectedCombination
  <2>1. Acceptable(intent) /\ request = Meant(intent)
    BY DEF IInv
  <2>2. /\ Asked.tools = intent.tools
        /\ Asked.forced = IF intent.tools = <<>> THEN Absent ELSE intent.forced
        /\ Asked.format = intent.format
        /\ Asked.thinking = intent.thinking
        /\ Asked.temperature # Absent => intent.thinking = Absent /\ intent.format = Absent
    BY <2>1, AskedOfRequest DEF Meant, ToolChoiceOf, OmitsTemperature
  <2> QED BY <2>1, <2>2 DEF NoRejectedCombination, Acceptable
<1> QED BY Invariance, <1>1, PTL

-----------------------------------------------------------------------------
(* The reply.                                                              *)

\* A set of positions that is not empty has a last one.
LEMMA LastPosition ==
    ASSUME NEW n \in Nat, NEW T \in SUBSET (1..n), T # {}
    PROVE  LastOf(T) \in T /\ \A j \in T : j <= LastOf(T)
<1> DEFINE left == {n - i : i \in T}
<1>1. left \subseteq Nat /\ left # {}
  <2>1. \A i \in T : n - i \in Nat
    OBVIOUS
  <2>2. PICK i \in T : TRUE
    OBVIOUS
  <2>3. n - i \in left
    OBVIOUS
  <2> QED BY <2>1, <2>3
<1>2. PICK x \in left : \A y \in left : ~ (<<y, x>> \in OpToRel(<, Nat))
  BY <1>1, WFMin, NatLessThanWellFounded
<1>3. \A y \in left : ~ (y < x)
  BY <1>1, <1>2 DEF OpToRel
<1>4. PICK i \in T : x = n - i
  OBVIOUS
<1>5. ASSUME NEW j \in T PROVE j <= i
  <2>1. n - j \in left
    OBVIOUS
  <2> QED BY <1>3, <1>4, <2>1
<1> QED BY <1>5 DEF LastOf

\* Bedrock leaves empty text out, and no reply ends with it: the last text is the same.
LEMMA LastTextKept ==
    ASSUME NEW r \in Replies
    PROVE  /\ NotEmpty(r.blocks, Texts(r.blocks)) # {} <=> Texts(r.blocks) # {}
           /\ Texts(r.blocks) # {} =>
                 LastOf(NotEmpty(r.blocks, Texts(r.blocks))) = LastOf(Texts(r.blocks))
<1> DEFINE T == Texts(r.blocks)
           N == NotEmpty(r.blocks, T)
<1>1. PICK n \in 0..MaxBlocks : r.blocks \in [1..n -> Blocks]
  BY DEF Replies
<1>2. n \in Nat /\ T \in SUBSET (1..n) /\ N \subseteq T
  BY <1>1, BoundsAssumption DEF Texts, NotEmpty
<1>3. CASE T = {}
  BY <1>2, <1>3
<1>4. CASE T # {}
  <2>1. LastOf(T) \in T /\ \A j \in T : j <= LastOf(T)
    BY <1>2, <1>4, LastPosition
  <2>2. r.blocks[LastOf(T)] # "empty"
    BY <1>4 DEF Replies
  <2>3. LastOf(T) \in N
    BY <2>1, <2>2 DEF NotEmpty
  <2>4. LastOf(N) \in N /\ \A j \in N : j <= LastOf(N)
    BY <1>2, <2>3, LastPosition
  <2>5. LastOf(N) = LastOf(T)
    BY <1>2, <2>1, <2>3, <2>4
  <2> QED BY <1>4, <2>3, <2>5
<1> QED BY <1>3, <1>4

\* A JSON reply of any length is stored as a result exactly if it finished and ends with an
\* object, and with the reason otherwise, on either API.
THEOREM RepliesStored == Spec => []ResultOrReason
<1>1. IInv => ResultOrReason
  <2> SUFFICES ASSUME IInv, stage = "complete", intent.format # Absent
               PROVE  ResultOrReason
    BY DEF ResultOrReason
  <2> DEFINE texts == Texts(reply.blocks)
             result == Finished /\ texts # {} /\ LastText = "object"
             json == request.output_format # Absent
  <2>1. reply \in Replies /\ request = Meant(intent)
    BY DEF IInv
  <2>2. json
    BY <2>1 DEF Meant
  <2>7. result \in BOOLEAN /\ json \in BOOLEAN
    OBVIOUS
  <2>3. /\ reply.ending.why \in {"end_turn", "max_tokens", "guardrail", "refusal"}
        /\ reply.ending.why # "refusal" => reply.ending.category = Absent
    BY <2>1 DEF Replies, Endings
  <2>4. CASE cloud = "bedrock"
    <3> DEFINE details == StopDetails(reply.ending)
               stop == IF details.type = "refusal" THEN "refusal"
                                                   ELSE ConverseStop(reply.ending)
               kept == NotEmpty(reply.blocks, texts)
    <3>1. "stop_details" \in call.responseFieldPaths
      <4>1. PICK include \in BOOLEAN : call = CallOf(include)
        BY DEF IInv
      <4> QED BY <2>2, <2>4, <4>1 DEF CallOf, ConverseCall
    <3>2. /\ stop \in {"end_turn", "stop_sequence"} <=> Finished
          /\ stop = "refusal" <=> reply.ending.why = "refusal"
          /\ stop # Absent
          /\ details.category = reply.ending.category
      BY <2>3, <3>1 DEF StopDetails, ConverseStop, Finished, Absent
    <3>3. result <=> /\ kept # {} /\ reply.blocks[LastOf(kept)] = "object"
                     /\ stop \in {"end_turn", "stop_sequence"}
      BY <2>1, <3>2, LastTextKept DEF LastText
    <3>4. output = BuildOutput(reply.blocks, kept, ToolCalls(reply.blocks), json, stop,
                               details.category)
      BY <2>4 DEF IInv, ConverseOutput
    <3>5. /\ (output.tool_uses # {}) <=> result
          /\ output.stop_reason = (IF result THEN Absent ELSE stop)
          /\ output.refusal_category = (IF result THEN Absent ELSE details.category)
          /\ output.result_error <=> (~result /\ stop # "refusal")
      <4> HIDE DEF result, json, stop, kept, details
      <4> QED BY <2>2, <2>7, <3>3, <3>4 DEF BuildOutput
    <3>6. result => reply.ending.why # "refusal" /\ details.category = Absent
      BY <2>3, <3>2 DEF Finished
    <3>7. /\ (output.tool_uses # {}) <=> result
          /\ (output.stop_reason # Absent) <=> ~result
          /\ (output.stop_reason = "refusal") <=> (reply.ending.why = "refusal")
          /\ output.refusal_category = reply.ending.category
          /\ output.result_error <=> (~result /\ reply.ending.why # "refusal")
      <4> HIDE DEF result, stop, details
      <4> QED BY <2>7, <3>2, <3>5, <3>6 DEF Absent
    <3> QED BY <3>7 DEF ResultOrReason
  <2>5. CASE cloud # "bedrock"
    <3> DEFINE stop == reply.ending.why
    <3>1. result <=> /\ texts # {} /\ reply.blocks[LastOf(texts)] = "object"
                     /\ stop \in {"end_turn", "stop_sequence"}
      BY <2>3 DEF LastText, Finished
    <3>2. output = BuildOutput(reply.blocks, texts, ToolCalls(reply.blocks), json, stop,
                               reply.ending.category)
      BY <2>5 DEF IInv, MessagesOutput
    <3>3. /\ (output.tool_uses # {}) <=> result
          /\ output.stop_reason = (IF result THEN Absent ELSE stop)
          /\ output.refusal_category = (IF result THEN Absent ELSE reply.ending.category)
          /\ output.result_error <=> (~result /\ stop # "refusal")
      <4> HIDE DEF result, json, stop
      <4> QED BY <2>2, <2>7, <3>1, <3>2 DEF BuildOutput
    <3> QED BY <2>3, <3>3 DEF ResultOrReason, Finished, Absent
  <2> QED BY <2>4, <2>5
<1> QED BY Invariance, <1>1, PTL
=============================================================================

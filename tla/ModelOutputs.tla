----------------------------- MODULE ModelOutputs -----------------------------
(***************************************************************************)
(* What a language model's answer becomes before anybody uses it            *)
(* (explanations/openai_client.py, groq_client.py, gemini_client.py,        *)
(* fakes.py, and the typed services on top of them).                       *)
(*                                                                         *)
(* An output is an exception of the SDK, named by its class, or a response  *)
(* with a refusal or not and with a parsed value or none.  OpenRouter's     *)
(* client is Groq's.                                                       *)
(***************************************************************************)
EXTENDS Integers, Sequences, FiniteSets, TLC

CONSTANT None

Raised(error) == [is |-> "error", error |-> error, refusal |-> FALSE, parsed |-> <<>>]
Responded(refusal, parsed) ==
  [is |-> "response", error |-> None, refusal |-> refusal, parsed |-> parsed]

(* parsed is the empty sequence or holds one value.                        *)
Failed(category) == [category |-> category, value |-> <<>>]
Generated(value) == [category |-> None, value |-> <<value>>]

ErrorCategory ==
  [AuthenticationError |-> "authentication", PermissionDeniedError |-> "permission",
   RateLimitError |-> "rate_limit", APITimeoutError |-> "timeout",
   APIConnectionError |-> "connection",
   BadRequestError |-> "invalid_request", UnprocessableEntityError |-> "invalid_request",
   ContentFilterFinishReasonError |-> "refusal",
   LengthFinishReasonError |-> "invalid_structured_response",
   APIResponseValidationError |-> "invalid_structured_response",
   InternalServerError |-> "upstream_unavailable", OpenAIError |-> "upstream_unavailable"]

(* GeneratedExplanation needs a reason.                                    *)
IsClaims(claims) == claims.reasons # <<>>

Parsed(output) ==
  IF output.parsed = <<>> \/ ~IsClaims(output.parsed[1])
  THEN Failed("invalid_structured_response") ELSE Generated(output.parsed[1])

(* OpenAI asks for a refusal only when nothing was parsed.                  *)
OpenAIStructured(output) ==
  IF output.is = "error" THEN Failed(ErrorCategory[output.error])
  ELSE IF output.parsed = <<>> /\ output.refusal THEN Failed("refusal")
  ELSE Parsed(output)

GroqStructured(output) ==
  IF output.is = "error" THEN Failed(ErrorCategory[output.error])
  ELSE IF output.refusal THEN Failed("refusal")
  ELSE Parsed(output)

(* Gemini is asked for indexes into the codes it was given, from zero.      *)
InRange(indexes, codes) ==
  /\ Cardinality({indexes[i] : i \in DOMAIN indexes}) = Len(indexes)
  /\ \A i \in DOMAIN indexes : indexes[i] \in 0..(Len(codes) - 1)

MapIndexes(indexes, codes) == [i \in DOMAIN indexes |-> codes[indexes[i] + 1]]

(* A bad request may be an API key it does not know.                        *)
GeminiStructured(output, reasons, actions) ==
  IF output.is = "error"
  THEN Failed(IF output.error = "UnknownApiKey" THEN "authentication" ELSE ErrorCategory[output.error])
  ELSE IF output.refusal THEN Failed("refusal")
  ELSE IF output.parsed = <<>> THEN Failed("invalid_structured_response")
  ELSE LET claims == output.parsed[1] IN
       IF ~InRange(claims.reasons, reasons) \/ ~InRange(claims.actions, actions)
       THEN Failed("invalid_structured_response")
       ELSE Parsed([output EXCEPT !.parsed =
                      <<[claims EXCEPT !.reasons = MapIndexes(@, reasons),
                                       !.actions = MapIndexes(@, actions)]>>])

-----------------------------------------------------------------------------
(* Typed outputs, for plans, hypotheses, findings, fixes and groundings: the *)
(* client leaves the schema to the service.                                *)
OpenAITyped(output) ==
  IF output.is = "error" THEN Failed(ErrorCategory[output.error])
  ELSE IF output.parsed # <<>> THEN Generated(output.parsed[1])
  ELSE IF output.refusal THEN Failed("refusal")
  ELSE Failed("invalid_structured_response")

GroqTyped(output) ==
  IF output.is = "error" THEN Failed(ErrorCategory[output.error])
  ELSE IF output.refusal THEN Failed("refusal")
  ELSE IF output.parsed = <<>> THEN Failed("invalid_structured_response")
  ELSE Generated(output.parsed[1])

(* Gemini's typed call does not tell the exceptions apart.                  *)
GeminiTyped(output) ==
  IF output.is = "error" THEN Failed("upstream_unavailable") ELSE GroqTyped(output)

Typed(provider, output) ==
  CASE provider = "openai" -> OpenAITyped(output)
    [] provider = "gemini" -> GeminiTyped(output)
    [] OTHER -> GroqTyped(output)
=============================================================================
